---------------------------- MODULE ParserProofs ----------------------------
(***************************************************************************)
(* Theorems about Parser, as Frontend runs it, for any lists of tokens and *)
(* any stack with room for a file without parentheses: the parser byacc    *)
(* makes of src/parsing/parse.y accepts what spec/parsing.md says, makes   *)
(* of it the item that is written, and reads up to the first wrong token.  *)
(***************************************************************************)
EXTENDS Frontend, SequenceTheorems, FiniteSetTheorems, WellFoundedInduction, TLAPS

(* A nonempty set of natural numbers has a least member, so what holds of  *)
(* a and goes on from each number to the next holds up to n.               *)
LEMMA LeastNat ==
    ASSUME NEW T, T \subseteq Nat, T # {}
    PROVE  \E x \in T : \A y \in T : x <= y
  <1>1. \E x \in T : \A y \in T : ~ (<<y, x>> \in OpToRel(<, Nat))
    BY NatLessThanWellFounded, WFMin
  <1>2. PICK x \in T : \A y \in T : ~ (<<y, x>> \in OpToRel(<, Nat))
    BY <1>1
  <1>3. ASSUME NEW y \in T PROVE x <= y
    <2>1. y \in Nat /\ x \in Nat
      OBVIOUS
    <2>2. ~ (<<y, x>> \in OpToRel(<, Nat))
      BY <1>2
    <2>3. ~ (y < x)
      BY <2>1, <2>2 DEF OpToRel
    <2> QED BY <2>1, <2>3, SMT
  <1> QED BY <1>3

LEMMA UpTo ==
    ASSUME NEW a \in Nat, NEW n \in Nat, NEW T,
           a \in T, \A k \in a + 1 .. n : k - 1 \in T => k \in T
    PROVE  \A k \in a .. n : k \in T
  <1> DEFINE R == {k \in a .. n : k \notin T}
  <1> SUFFICES ASSUME R # {} PROVE FALSE
    OBVIOUS
  <1>1. PICK k \in R : \A y \in R : k <= y
    <2>1. R \subseteq Nat
      OBVIOUS
    <2> HIDE DEF R
    <2> QED BY <2>1, LeastNat
  <1>2. k \in a + 1 .. n /\ k - 1 \in a .. n /\ ~(k <= k - 1)
    BY <1>1
  <1>3. k - 1 \in T
    BY <1>1, <1>2
  <1> QED BY <1>1, <1>2, <1>3

(* The rules by name.                                                      *)
FileRule == Rule("file", <<"item">>)
FunctionRule == Rule("item", <<"function_item">>)
BadItem == Rule("item", <<"error">>)
BlockRule == Rule("block", <<"LeftCurly", "stmt", "Semicolon", "RightCurly">>)
StmtRule == Rule("stmt", <<"return_stmt">>)
BadStmt == Rule("stmt", <<"error">>)
ReturnRule == Rule("return_stmt", <<"Return", "expr">>)
ExprRule == Rule("expr", <<"primary_expr">>)
BadExpr == Rule("expr", <<"error">>)
NameRule == Rule("primary_expr", <<"Identifier">>)
LiteralRule == Rule("primary_expr", <<"IntLiteral">>)
ParenRule == Rule("primary_expr", <<"LeftParen", "expr", "RightParen">>)
TypeRule == Rule("type", <<"expr">>)
ReturnTypeRule == Rule("return_type", <<"ThinArrow", "type">>)
ItemRule == Rule("function_item", <<"Def", "Identifier", "function_item_signature", "block">>)
SignatureRule == Rule("function_item_signature", <<"function_item_params", "return_type">>)
ParamsRule == Rule("function_item_params", <<"LeftParen", "RightParen">>)

BadRules == {BadItem, BadStmt, BadExpr}
GoodRules == {FileRule, FunctionRule, BlockRule, StmtRule, ReturnRule, ExprRule, NameRule,
              LiteralRule, ParenRule, TypeRule, ReturnTypeRule, ItemRule, SignatureRule,
              ParamsRule}

LEMMA RulesAre == Rules = GoodRules \cup BadRules
  BY Zenon DEF Rules, ItemRules, StatementRules, ExpressionRules, FunctionRules, GoodRules,
     BadRules,
       FileRule, FunctionRule, BadItem, BlockRule, StmtRule, BadStmt, ReturnRule, ExprRule,
       BadExpr, NameRule, LiteralRule, ParenRule, TypeRule, ReturnTypeRule, ItemRule,
       SignatureRule, ParamsRule

LEMMA LeftSides ==
    /\ FileRule.lhs = "file" /\ FunctionRule.lhs = "item" /\ BadItem.lhs = "item"
    /\ BlockRule.lhs = "block" /\ StmtRule.lhs = "stmt" /\ BadStmt.lhs = "stmt"
    /\ ReturnRule.lhs = "return_stmt" /\ ExprRule.lhs = "expr" /\ BadExpr.lhs = "expr"
    /\ NameRule.lhs = "primary_expr" /\ LiteralRule.lhs = "primary_expr"
    /\ ParenRule.lhs = "primary_expr" /\ TypeRule.lhs = "type"
    /\ ReturnTypeRule.lhs = "return_type" /\ ItemRule.lhs = "function_item"
    /\ SignatureRule.lhs = "function_item_signature"
    /\ ParamsRule.lhs = "function_item_params" /\ Goal.lhs = "$accept"
  BY DEF Rule, FileRule, FunctionRule, BadItem, BlockRule, StmtRule, BadStmt, ReturnRule,
         ExprRule, BadExpr, NameRule, LiteralRule, ParenRule, TypeRule, ReturnTypeRule,
         ItemRule, SignatureRule, ParamsRule, Goal

LEMMA Lengths ==
    /\ \A r \in {FileRule, FunctionRule, BadItem, StmtRule, BadStmt, ExprRule, BadExpr,
                 NameRule, LiteralRule, TypeRule} : Len(r.rhs) = 1
    /\ \A r \in {ReturnRule, ReturnTypeRule, SignatureRule, ParamsRule, Goal} : Len(r.rhs) = 2
    /\ Len(ParenRule.rhs) = 3 /\ Len(BlockRule.rhs) = 4 /\ Len(ItemRule.rhs) = 4
  BY DEF Rule, FileRule, FunctionRule, BadItem, BlockRule, StmtRule, BadStmt, ReturnRule,
         ExprRule, BadExpr, NameRule, LiteralRule, ParenRule, TypeRule, ReturnTypeRule,
         ItemRule, SignatureRule, ParamsRule, Goal

LEMMA RightSides ==
    /\ FileRule.rhs[1] = "item" /\ FunctionRule.rhs[1] = "function_item"
    /\ BadItem.rhs[1] = "error" /\ BadStmt.rhs[1] = "error" /\ BadExpr.rhs[1] = "error"
    /\ BlockRule.rhs[1] = "LeftCurly" /\ BlockRule.rhs[2] = "stmt"
    /\ BlockRule.rhs[3] = "Semicolon" /\ BlockRule.rhs[4] = "RightCurly"
    /\ StmtRule.rhs[1] = "return_stmt"
    /\ ReturnRule.rhs[1] = "Return" /\ ReturnRule.rhs[2] = "expr"
    /\ ExprRule.rhs[1] = "primary_expr" /\ NameRule.rhs[1] = "Identifier"
    /\ LiteralRule.rhs[1] = "IntLiteral" /\ ParenRule.rhs[1] = "LeftParen"
    /\ ParenRule.rhs[2] = "expr" /\ ParenRule.rhs[3] = "RightParen"
    /\ TypeRule.rhs[1] = "expr"
    /\ ReturnTypeRule.rhs[1] = "ThinArrow" /\ ReturnTypeRule.rhs[2] = "type"
    /\ ItemRule.rhs[1] = "Def" /\ ItemRule.rhs[2] = "Identifier"
    /\ ItemRule.rhs[3] = "function_item_signature" /\ ItemRule.rhs[4] = "block"
    /\ SignatureRule.rhs[1] = "function_item_params" /\ SignatureRule.rhs[2] = "return_type"
    /\ ParamsRule.rhs[1] = "LeftParen" /\ ParamsRule.rhs[2] = "RightParen"
    /\ Goal.rhs[1] = "file" /\ Goal.rhs[2] = "EndOfFile"
  BY DEF Rule, FileRule, FunctionRule, BadItem, BlockRule, StmtRule, BadStmt, ReturnRule,
         ExprRule, BadExpr, NameRule, LiteralRule, ParenRule, TypeRule, ReturnTypeRule,
         ItemRule, SignatureRule, ParamsRule, Goal

LEMMA BadOnly ==
    /\ \A r \in GoodRules : r.rhs # <<"error">>
    /\ \A r \in BadRules : r.rhs = <<"error">>
  <1>1. \A r \in GoodRules : r.rhs[1] # "error"
    BY RightSides DEF GoodRules
  <1>2. <<"error">>[1] = "error"
    OBVIOUS
  <1>3. \A r \in BadRules : r.rhs = <<"error">>
    BY DEF BadRules, BadItem, BadStmt, BadExpr, Rule
  <1> QED BY <1>1, <1>2, <1>3

(* The rules a symbol opens: three of them are the longest chain.          *)
Opened(X) ==
    CASE X = "file" -> {FileRule, FunctionRule, BadItem, ItemRule}
      [] X = "item" -> {FunctionRule, BadItem, ItemRule}
      [] X = "function_item" -> {ItemRule}
      [] X = "block" -> {BlockRule}
      [] X = "stmt" -> {StmtRule, BadStmt, ReturnRule}
      [] X = "return_stmt" -> {ReturnRule}
      [] X = "type" -> {TypeRule, ExprRule, BadExpr, NameRule, LiteralRule, ParenRule}
      [] X = "expr" -> {ExprRule, BadExpr, NameRule, LiteralRule, ParenRule}
      [] X = "primary_expr" -> {NameRule, LiteralRule, ParenRule}
      [] X = "return_type" -> {ReturnTypeRule}
      [] X = "function_item_signature" -> {SignatureRule, ParamsRule}
      [] X = "function_item_params" -> {ParamsRule}
      [] OTHER -> {}

Nonterminals == {"file", "item", "function_item", "block", "stmt", "return_stmt", "type",
                 "expr", "primary_expr", "return_type", "function_item_signature",
                 "function_item_params"}

LEMMA NonterminalsAre == {r.lhs : r \in Rules} = Nonterminals
  <1>1. \A r \in Rules : r.lhs \in Nonterminals
    BY RulesAre, LeftSides DEF GoodRules, BadRules, Nonterminals
  <1>2. \A X \in Nonterminals : \E r \in Rules : r.lhs = X
    BY RulesAre, LeftSides DEF GoodRules, BadRules, Nonterminals
  <1> QED BY <1>1, <1>2

(* One round of the closure.                                               *)
Further(S) == S \cup {r \in Rules : \E b \in S : b.rhs[1] = r.lhs}
Firsts(X) == {r \in Rules : r.lhs = X}

LEMMA FirstsAre ==
    /\ Firsts("file") = {FileRule} /\ Firsts("item") = {FunctionRule, BadItem}
    /\ Firsts("function_item") = {ItemRule} /\ Firsts("block") = {BlockRule}
    /\ Firsts("stmt") = {StmtRule, BadStmt} /\ Firsts("return_stmt") = {ReturnRule}
    /\ Firsts("type") = {TypeRule} /\ Firsts("expr") = {ExprRule, BadExpr}
    /\ Firsts("primary_expr") = {NameRule, LiteralRule, ParenRule}
    /\ Firsts("return_type") = {ReturnTypeRule}
    /\ Firsts("function_item_signature") = {SignatureRule}
    /\ Firsts("function_item_params") = {ParamsRule}
    /\ \A X : X \notin Nonterminals => Firsts(X) = {}
  <1>1. \A X : Firsts(X) = {r \in GoodRules : r.lhs = X} \cup {r \in BadRules : r.lhs = X}
    BY RulesAre DEF Firsts
  <1>2. /\ \A r \in BadRules : r.lhs = "item" => r = BadItem
        /\ \A r \in BadRules : r.lhs = "stmt" => r = BadStmt
        /\ \A r \in BadRules : r.lhs = "expr" => r = BadExpr
        /\ \A r \in BadRules : r.lhs \in {"item", "stmt", "expr"}
    BY LeftSides DEF BadRules
  <1>3. \A r \in GoodRules :
          /\ r.lhs = "file" => r = FileRule
          /\ r.lhs = "item" => r = FunctionRule
          /\ r.lhs = "function_item" => r = ItemRule
          /\ r.lhs = "block" => r = BlockRule
          /\ r.lhs = "stmt" => r = StmtRule
          /\ r.lhs = "return_stmt" => r = ReturnRule
          /\ r.lhs = "type" => r = TypeRule
          /\ r.lhs = "expr" => r = ExprRule
          /\ r.lhs = "primary_expr" => r \in {NameRule, LiteralRule, ParenRule}
          /\ r.lhs = "return_type" => r = ReturnTypeRule
          /\ r.lhs = "function_item_signature" => r = SignatureRule
          /\ r.lhs = "function_item_params" => r = ParamsRule
    BY LeftSides DEF GoodRules
  <1>4. \A X : X \notin Nonterminals => Firsts(X) = {}
    BY NonterminalsAre DEF Firsts
  <1>5. /\ \A r \in {BadItem, BadStmt, BadExpr} : r \in BadRules
        /\ \A r \in {FileRule, FunctionRule, BlockRule, StmtRule, ReturnRule, ExprRule, NameRule,
                     LiteralRule, ParenRule, TypeRule, ReturnTypeRule, ItemRule, SignatureRule,
                     ParamsRule} : r \in GoodRules
    BY DEF BadRules, GoodRules
  <1> QED BY <1>1, <1>2, <1>3, <1>4, <1>5, LeftSides

LEMMA FurtherIs ==
    ASSUME NEW S
    PROVE  Further(S) = S \cup UNION {Firsts(b.rhs[1]) : b \in S}
  BY DEF Further, Firsts

LEMMA OpenedClosed ==
    ASSUME NEW X \in Nonterminals
    PROVE  /\ Further(Further(Firsts(X))) = Opened(X)
           /\ Further(Opened(X)) = Opened(X)
  <1>1. /\ \A x \in {"Identifier", "IntLiteral", "LeftParen", "Def", "error", "LeftCurly",
                     "Return", "ThinArrow"} : Firsts(x) = {}
    BY FirstsAre DEF Nonterminals
  <1> DEFINE F == Firsts(X)
  <1>2. CASE X = "file"
    <2> DEFINE O == {FileRule, FunctionRule, BadItem, ItemRule}
    <2>1. Opened(X) = O
      BY <1>2 DEF Opened
    <2>2. F = {FileRule}
      BY <1>2, FirstsAre
    <2> HIDE DEF F
    <2>3. Further(F) = {FileRule, FunctionRule, BadItem}
      BY <1>1, <2>2, FirstsAre, RightSides, FurtherIs
    <2>4. Further(Further(F)) = O
      BY <1>1, <2>3, FirstsAre, RightSides, FurtherIs
    <2>5. Further(O) = O
      BY <1>1, FirstsAre, RightSides, FurtherIs
    <2> QED BY <2>1, <2>4, <2>5 DEF F
  <1>3. CASE X = "item"
    <2> DEFINE O == {FunctionRule, BadItem, ItemRule}
    <2>1. Opened(X) = O
      BY <1>3 DEF Opened
    <2>2. F = {FunctionRule, BadItem}
      BY <1>3, FirstsAre
    <2> HIDE DEF F
    <2>3. Further(F) = {FunctionRule, BadItem, ItemRule}
      BY <1>1, <2>2, FirstsAre, RightSides, FurtherIs
    <2>4. Further(Further(F)) = O
      BY <1>1, <2>3, FirstsAre, RightSides, FurtherIs
    <2>5. Further(O) = O
      BY <1>1, FirstsAre, RightSides, FurtherIs
    <2> QED BY <2>1, <2>4, <2>5 DEF F
  <1>4. CASE X = "function_item"
    <2> DEFINE O == {ItemRule}
    <2>1. Opened(X) = O
      BY <1>4 DEF Opened
    <2>2. F = {ItemRule}
      BY <1>4, FirstsAre
    <2> HIDE DEF F
    <2>3. Further(O) = O
      BY <1>1, FirstsAre, RightSides, FurtherIs
    <2> QED BY <2>1, <2>2, <2>3 DEF F
  <1>5. CASE X = "block"
    <2> DEFINE O == {BlockRule}
    <2>1. Opened(X) = O
      BY <1>5 DEF Opened
    <2>2. F = {BlockRule}
      BY <1>5, FirstsAre
    <2> HIDE DEF F
    <2>3. Further(O) = O
      BY <1>1, FirstsAre, RightSides, FurtherIs
    <2> QED BY <2>1, <2>2, <2>3 DEF F
  <1>6. CASE X = "stmt"
    <2> DEFINE O == {StmtRule, BadStmt, ReturnRule}
    <2>1. Opened(X) = O
      BY <1>6 DEF Opened
    <2>2. F = {StmtRule, BadStmt}
      BY <1>6, FirstsAre
    <2> HIDE DEF F
    <2>3. Further(F) = {StmtRule, BadStmt, ReturnRule}
      BY <1>1, <2>2, FirstsAre, RightSides, FurtherIs
    <2>4. Further(Further(F)) = O
      BY <1>1, <2>3, FirstsAre, RightSides, FurtherIs
    <2>5. Further(O) = O
      BY <1>1, FirstsAre, RightSides, FurtherIs
    <2> QED BY <2>1, <2>4, <2>5 DEF F
  <1>7. CASE X = "return_stmt"
    <2> DEFINE O == {ReturnRule}
    <2>1. Opened(X) = O
      BY <1>7 DEF Opened
    <2>2. F = {ReturnRule}
      BY <1>7, FirstsAre
    <2> HIDE DEF F
    <2>3. Further(O) = O
      BY <1>1, FirstsAre, RightSides, FurtherIs
    <2> QED BY <2>1, <2>2, <2>3 DEF F
  <1>8. CASE X = "type"
    <2> DEFINE O == {ExprRule, BadExpr, NameRule, LiteralRule, ParenRule, TypeRule}
    <2>1. Opened(X) = O
      BY <1>8 DEF Opened
    <2>2. F = {TypeRule}
      BY <1>8, FirstsAre
    <2> HIDE DEF F
    <2>3. Further(F) = {ExprRule, BadExpr, TypeRule}
      BY <1>1, <2>2, FirstsAre, RightSides, FurtherIs
    <2>4. Further(Further(F)) = O
      BY <1>1, <2>3, FirstsAre, RightSides, FurtherIs
    <2>5. Further(O) = O
      BY <1>1, FirstsAre, RightSides, FurtherIs
    <2> QED BY <2>1, <2>4, <2>5 DEF F
  <1>9. CASE X = "expr"
    <2> DEFINE O == {ExprRule, BadExpr, NameRule, LiteralRule, ParenRule}
    <2>1. Opened(X) = O
      BY <1>9 DEF Opened
    <2>2. F = {ExprRule, BadExpr}
      BY <1>9, FirstsAre
    <2> HIDE DEF F
    <2>3. Further(F) = {ExprRule, BadExpr, NameRule, LiteralRule, ParenRule}
      BY <1>1, <2>2, FirstsAre, RightSides, FurtherIs
    <2>4. Further(Further(F)) = O
      BY <1>1, <2>3, FirstsAre, RightSides, FurtherIs
    <2>5. Further(O) = O
      BY <1>1, FirstsAre, RightSides, FurtherIs
    <2> QED BY <2>1, <2>4, <2>5 DEF F
  <1>10. CASE X = "primary_expr"
    <2> DEFINE O == {NameRule, LiteralRule, ParenRule}
    <2>1. Opened(X) = O
      BY <1>10 DEF Opened
    <2>2. F = {NameRule, LiteralRule, ParenRule}
      BY <1>10, FirstsAre
    <2> HIDE DEF F
    <2>3. Further(O) = O
      BY <1>1, FirstsAre, RightSides, FurtherIs
    <2> QED BY <2>1, <2>2, <2>3 DEF F
  <1>11. CASE X = "return_type"
    <2> DEFINE O == {ReturnTypeRule}
    <2>1. Opened(X) = O
      BY <1>11 DEF Opened
    <2>2. F = {ReturnTypeRule}
      BY <1>11, FirstsAre
    <2> HIDE DEF F
    <2>3. Further(O) = O
      BY <1>1, FirstsAre, RightSides, FurtherIs
    <2> QED BY <2>1, <2>2, <2>3 DEF F
  <1>12. CASE X = "function_item_signature"
    <2> DEFINE O == {SignatureRule, ParamsRule}
    <2>1. Opened(X) = O
      BY <1>12 DEF Opened
    <2>2. F = {SignatureRule}
      BY <1>12, FirstsAre
    <2> HIDE DEF F
    <2>3. Further(F) = {SignatureRule, ParamsRule}
      BY <1>1, <2>2, FirstsAre, RightSides, FurtherIs
    <2>4. Further(Further(F)) = O
      BY <1>1, <2>3, FirstsAre, RightSides, FurtherIs
    <2>5. Further(O) = O
      BY <1>1, FirstsAre, RightSides, FurtherIs
    <2> QED BY <2>1, <2>4, <2>5 DEF F
  <1>13. CASE X = "function_item_params"
    <2> DEFINE O == {ParamsRule}
    <2>1. Opened(X) = O
      BY <1>13 DEF Opened
    <2>2. F = {ParamsRule}
      BY <1>13, FirstsAre
    <2> HIDE DEF F
    <2>3. Further(O) = O
      BY <1>1, FirstsAre, RightSides, FurtherIs
    <2> QED BY <2>1, <2>2, <2>3 DEF F
  <1> QED BY <1>2, <1>3, <1>4, <1>5, <1>6, <1>7, <1>8, <1>9, <1>10, <1>11, <1>12, <1>13
            DEF Nonterminals

OpeningUpTo(f, n) ==
    f = [k \in 0 .. n |-> [X \in Nonterminals |->
            IF k = 0 THEN Firsts(X) ELSE Further(f[k - 1][X])]]

LEMMA FourFinite ==
    ASSUME NEW a, NEW b, NEW c, NEW d
    PROVE  IsFiniteSet({a, b, c, d}) /\ (a # b => Cardinality({a, b}) = 2)
  <1>1. IsFiniteSet({a}) /\ Cardinality({a}) = 1
    BY FS_Singleton
  <1>2. IsFiniteSet({a} \cup {b}) /\ (a # b => Cardinality({a} \cup {b}) = 1 + 1)
    BY <1>1, FS_AddElement
  <1>3. IsFiniteSet(({a} \cup {b}) \cup {c})
    BY <1>2, FS_AddElement
  <1>4. IsFiniteSet((({a} \cup {b}) \cup {c}) \cup {d})
    BY <1>3, FS_AddElement
  <1>5. {a, b} = {a} \cup {b} /\ {a, b, c, d} = (({a} \cup {b}) \cup {c}) \cup {d}
    OBVIOUS
  <1> QED BY <1>2, <1>4, <1>5

LEMMA RulesCounted == Cardinality(Rules) \in Nat /\ Cardinality(Rules) >= 2
  <1> DEFINE A == {FileRule, FunctionRule, BadItem, BlockRule}
             B == {StmtRule, BadStmt, ReturnRule, ExprRule}
             C == {BadExpr, NameRule, LiteralRule, ParenRule}
             D == {TypeRule, ReturnTypeRule, ItemRule, SignatureRule}
             E == {ParamsRule, ParamsRule, ParamsRule, ParamsRule}
  <1>1. Rules = (A \cup B) \cup (C \cup (D \cup E))
    BY RulesAre, Zenon DEF GoodRules, BadRules
  <1>2. IsFiniteSet(A) /\ IsFiniteSet(B) /\ IsFiniteSet(C) /\ IsFiniteSet(D) /\ IsFiniteSet(E)
    BY FourFinite, Zenon
  <1>3. IsFiniteSet(Rules)
    <2> HIDE DEF A, B, C, D, E
    <2>1. IsFiniteSet(A \cup B) /\ IsFiniteSet(D \cup E)
      BY <1>2, FS_Union
    <2>2. IsFiniteSet(C \cup (D \cup E))
      BY <1>2, <2>1, FS_Union
    <2> QED BY <1>1, <2>1, <2>2, FS_Union
  <1>4. {FileRule, ExprRule} \subseteq Rules /\ FileRule # ExprRule
    BY RulesAre, LeftSides DEF GoodRules
  <1>5. Cardinality({FileRule, ExprRule}) = 2
    BY <1>4, FourFinite, Zenon
  <1>6. /\ Cardinality({FileRule, ExprRule}) <= Cardinality(Rules)
        /\ Cardinality(Rules) \in Nat
    BY <1>3, <1>4, FS_Subset, FS_CardinalityType
  <1> QED BY <1>5, <1>6

LEMMA OpeningExists ==
    ASSUME NEW n \in Nat
    PROVE  \E f : OpeningUpTo(f, n)
  <1> DEFINE f == [k \in 0 .. n |-> [X \in Nonterminals |->
                     IF k = 0 THEN Firsts(X) ELSE IF k = 1 THEN Further(Firsts(X)) ELSE Opened(X)]]
             g == [k \in 0 .. n |-> [X \in Nonterminals |->
                     IF k = 0 THEN Firsts(X) ELSE Further(f[k - 1][X])]]
  <1>1. ASSUME NEW X \in Nonterminals, NEW k \in 0 .. n PROVE f[k][X] = g[k][X]
    <2>1. CASE k = 0
      BY <2>1
    <2>2. CASE k = 1
      BY <2>2
    <2>3. CASE k = 2
      <3>1. f[k - 1][X] = Further(Firsts(X))
        BY <2>3
      <3>2. f[k][X] = Opened(X) /\ g[k][X] = Further(f[k - 1][X])
        BY <2>3
      <3> QED BY <3>1, <3>2, OpenedClosed
    <2>4. CASE k > 2
      <3>1. f[k - 1][X] = Opened(X)
        BY <2>4
      <3>2. f[k][X] = Opened(X) /\ g[k][X] = Further(f[k - 1][X])
        BY <2>4
      <3> QED BY <3>1, <3>2, OpenedClosed
    <2> QED BY <2>1, <2>2, <2>3, <2>4
  <1>2. \A k \in 0 .. n : f[k] = g[k]
    BY <1>1
  <1>3. f = g
    BY <1>2
  <1> QED BY <1>3 DEF OpeningUpTo

LEMMA OpeningIs ==
    ASSUME NEW n \in Nat, n >= 2, NEW f, OpeningUpTo(f, n)
    PROVE  f[n] = [X \in Nonterminals |-> Opened(X)]
  <1> DEFINE g(k) == [X \in Nonterminals |->
                        IF k = 0 THEN Firsts(X) ELSE Further(f[k - 1][X])]
  <1>1. \A k \in 0 .. n : f[k] = g(k)
    <2>1. f = [k \in 0 .. n |-> g(k)]
      BY DEF OpeningUpTo
    <2> HIDE DEF g
    <2> QED BY <2>1, Zenon
  <1>2. ASSUME NEW k \in 0 .. n
        PROVE  /\ DOMAIN f[k] = Nonterminals /\ f[k] = [X \in Nonterminals |-> f[k][X]]
               /\ \A X \in Nonterminals :
                     f[k][X] = IF k = 0 THEN Firsts(X) ELSE Further(f[k - 1][X])
    <2>1. f[k] = g(k)
      BY <1>1
    <2> DEFINE h(X) == IF k = 0 THEN Firsts(X) ELSE Further(f[k - 1][X])
    <2>2. f[k] = [X \in Nonterminals |-> h(X)]
      BY <2>1
    <2> HIDE DEF h
    <2>3. /\ DOMAIN f[k] = Nonterminals /\ f[k] = [X \in Nonterminals |-> f[k][X]]
          /\ \A X \in Nonterminals : f[k][X] = h(X)
      BY <2>2, Zenon
    <2> QED BY <2>3 DEF h
  <1>3. /\ DOMAIN f[n] = Nonterminals /\ f[n] = [X \in Nonterminals |-> f[n][X]]
        /\ \A X \in Nonterminals : f[0][X] = Firsts(X)
        /\ \A k \in 1 .. n, X \in Nonterminals : f[k][X] = Further(f[k - 1][X])
    <2>1. n \in 0 .. n /\ 0 \in 0 .. n
      OBVIOUS
    <2>2. \A k \in 1 .. n : k \in 0 .. n /\ k # 0
      OBVIOUS
    <2> QED BY <1>2, <2>1, <2>2, Zenon
  <1> HIDE DEF g
  <1>4. /\ \A X \in Nonterminals : f[1][X] = Further(Firsts(X))
        /\ \A X \in Nonterminals : f[2][X] = Further(f[1][X])
    BY <1>3
  <1> DEFINE T == {k \in 2 .. n : \A X \in Nonterminals : f[k][X] = Opened(X)}
  <1>5. \A k \in 2 + 1 .. n : k - 1 \in T => k \in T
    <2> TAKE k \in 2 + 1 .. n
    <2>1. k \in 1 .. n /\ k \in 2 .. n
      OBVIOUS
    <2> QED BY <1>3, <2>1, OpenedClosed
  <1>6. 2 \in T
    BY <1>4, OpenedClosed
  <1>7. \A k \in 2 .. n : k \in T
    <2> HIDE DEF T
    <2> QED BY <1>5, <1>6, UpTo
  <1>8. \A X \in Nonterminals : f[n][X] = Opened(X)
    BY <1>7
  <1> QED BY <1>3, <1>8

LEMMA OpenedByIs == OpenedBy = [X \in Nonterminals |-> Opened(X)]
  <1> DEFINE n == Cardinality(Rules)
             f == CHOOSE g : OpeningUpTo(g, n)
  <1>1. OpeningUpTo(f, n)
    BY RulesCounted, OpeningExists, Zenon
  <1>2. OpenedBy = f[n]
    BY NonterminalsAre DEF OpenedBy, OpeningUpTo, Firsts, Further
  <1>3. f[n] = [X \in Nonterminals |-> Opened(X)]
    <2> HIDE DEF f, n
    <2>1. n \in Nat /\ n >= 2
      BY RulesCounted DEF n
    <2> QED BY <1>1, <2>1, OpeningIs
  <1> QED BY <1>2, <1>3

-----------------------------------------------------------------------------
(* The states of the automaton are kernels of one rule and one dot.        *)
Single(r, d) == {Dotted(r, d)}

LEMMA DottedSame ==
    ASSUME NEW r, NEW d, NEW q, NEW e
    PROVE  /\ Dotted(r, d).rule = r /\ Dotted(r, d).dot = d
           /\ Dotted(r, d) = Dotted(q, e) <=> r = q /\ d = e
  <1>1. \A p, c : Dotted(p, c).rule = p /\ Dotted(p, c).dot = c
    BY DEF Dotted
  <1>2. Dotted(r, d) = Dotted(q, e) => r = q /\ d = e
    BY <1>1
  <1> QED BY <1>1, <1>2

LEMMA OpenedAre ==
    /\ \A X \in Nonterminals : Opened(X) \subseteq Rules
    /\ \A X : X \notin Nonterminals => Opened(X) = {}
  <1>1. \A X \in Nonterminals : Opened(X) \subseteq GoodRules \cup BadRules
    BY Zenon DEF Opened, Nonterminals, GoodRules, BadRules
  <1>2. \A X : X \notin Nonterminals => Opened(X) = {}
    BY DEF Opened, Nonterminals
  <1> QED BY <1>1, <1>2, RulesAre

LEMMA RuleLengths == \A r \in Rules : Len(r.rhs) \in 1 .. 4
  BY RulesAre, Lengths DEF GoodRules, BadRules

LEMMA ClosureIs ==
    ASSUME NEW r, NEW d \in Nat, Len(r.rhs) \in Nat
    PROVE  /\ d < Len(r.rhs) => Closure(Single(r, d)) =
                 Single(r, d) \cup {Dotted(q, 0) : q \in Opened(r.rhs[d + 1])}
           /\ d = Len(r.rhs) => Closure(Single(r, d)) = Single(r, d)
  <1> DEFINE i == Dotted(r, d)
             waiting == {j \in {i} : ~IsComplete(j)}
             open == {AfterDot(j) : j \in waiting} \cap DOMAIN OpenedBy
  <1>1. DOMAIN OpenedBy = Nonterminals /\ \A X \in Nonterminals : OpenedBy[X] = Opened(X)
    BY OpenedByIs
  <1>2. Closure(Single(r, d)) = {i} \cup {Dotted(q, 0) : q \in UNION {OpenedBy[X] : X \in open}}
    BY DEF Closure, Single
  <1>3. i.rule = r /\ i.dot = d
    BY DottedSame
  <1>4. CASE d < Len(r.rhs)
    <2>1. waiting = {i}
      BY <1>3, <1>4 DEF IsComplete
    <2>2. open = {r.rhs[d + 1]} \cap Nonterminals
      BY <1>1, <1>3, <2>1 DEF AfterDot
    <2>3. UNION {OpenedBy[X] : X \in open} = Opened(r.rhs[d + 1])
      <3>1. CASE r.rhs[d + 1] \in Nonterminals
        <4>1. open = {r.rhs[d + 1]}
          BY <2>2, <3>1
        <4> HIDE DEF open
        <4> QED BY <1>1, <3>1, <4>1
      <3>2. CASE r.rhs[d + 1] \notin Nonterminals
        <4>1. open = {}
          BY <2>2, <3>2
        <4> HIDE DEF open
        <4> QED BY OpenedAre, <3>2, <4>1
      <3> QED BY <3>1, <3>2
    <2> HIDE DEF open
    <2>4. Closure(Single(r, d)) = Single(r, d) \cup {Dotted(q, 0) : q \in Opened(r.rhs[d + 1])}
      BY <1>2, <2>3 DEF Single
    <2> QED BY <1>4, <2>4
  <1>5. CASE d = Len(r.rhs)
    <2>1. waiting = {}
      BY <1>3, <1>5 DEF IsComplete
    <2>2. open = {}
      BY <2>1
    <2> HIDE DEF open
    <2>3. Closure(Single(r, d)) = Single(r, d)
      BY <1>2, <2>2 DEF Single
    <2> QED BY <1>5, <2>3
  <1> QED BY <1>4, <1>5

(* What a state goes to over a symbol: its own rule one further, and the   *)
(* rules that what comes next opens with that symbol.                      *)
LEMMA GotoIs ==
    ASSUME NEW r, NEW d \in Nat, Len(r.rhs) \in Nat, NEW X
    PROVE  /\ d < Len(r.rhs) => Goto(Single(r, d), X) =
                 {i \in {Dotted(r, d + 1)} : r.rhs[d + 1] = X}
                 \cup {Dotted(q, 1) : q \in {p \in Opened(r.rhs[d + 1]) : p.rhs[1] = X}}
           /\ d = Len(r.rhs) => Goto(Single(r, d), X) = {}
  <1>1. \A q, e : Dotted(q, e).rule = q /\ Dotted(q, e).dot = e
    BY DottedSame
  <1> DEFINE Moved(C) == {Dotted(i.rule, i.dot + 1) :
          i \in {j \in C : ~IsComplete(j) /\ AfterDot(j) = X}}
  <1>2. Goto(Single(r, d), X) = Moved(Closure(Single(r, d)))
    BY DEF Goto
  <1>3. CASE d < Len(r.rhs)
    <2> DEFINE O == Opened(r.rhs[d + 1])
               F == {Dotted(q, 0) : q \in O}
               P == {p \in O : p.rhs[1] = X}
    <2>1. \A q \in O : Len(q.rhs) \in 1 .. 4
      BY RuleLengths, OpenedAre
    <2>2. Closure(Single(r, d)) = Single(r, d) \cup F
      BY <1>3, ClosureIs
    <2>3. \A C, D : Moved(C \cup D) = Moved(C) \cup Moved(D)
      OBVIOUS
    <2>4. Moved(Single(r, d)) = {i \in {Dotted(r, d + 1)} : r.rhs[d + 1] = X}
      BY <1>1, <1>3 DEF Single, IsComplete, AfterDot
    <2>5. {j \in F : ~IsComplete(j) /\ AfterDot(j) = X} = {Dotted(q, 0) : q \in P}
      <3>1. \A q \in O : (~IsComplete(Dotted(q, 0)) /\ AfterDot(Dotted(q, 0)) = X) <=> q.rhs[1] = X
        BY <1>1, <2>1 DEF IsComplete, AfterDot
      <3> HIDE DEF O
      <3> QED BY <3>1
    <2>6. Moved(F) = {Dotted(q, 1) : q \in P}
      <3>1. \A q : Dotted(Dotted(q, 0).rule, Dotted(q, 0).dot + 1) = Dotted(q, 1)
        BY <1>1
      <3> HIDE DEF F, P
      <3> QED BY <2>5, <3>1
    <2> HIDE DEF Moved, F
    <2> QED BY <1>2, <1>3, <2>2, <2>3, <2>4, <2>6
  <1>4. CASE d = Len(r.rhs)
    <2>1. Moved(Single(r, d)) = {}
      BY <1>1, <1>4 DEF Single, IsComplete
    <2> QED BY <1>2, <1>4, <2>1, ClosureIs
  <1> QED BY <1>3, <1>4

Beginning(S, X) == {p \in S : p.rhs[1] = X}

LEMMA GotoEach ==
    ASSUME NEW r, NEW d \in Nat, Len(r.rhs) \in Nat, d < Len(r.rhs), NEW X,
           NEW O, Opened(r.rhs[d + 1]) = O
    PROVE  /\ (X = r.rhs[d + 1] /\ Beginning(O, X) = {}) =>
                 Goto(Single(r, d), X) = Single(r, d + 1)
           /\ \A q : (X # r.rhs[d + 1] /\ Beginning(O, X) = {q}) =>
                 Goto(Single(r, d), X) = Single(q, 1)
           /\ (X # r.rhs[d + 1] /\ Beginning(O, X) = {}) => Goto(Single(r, d), X) = {}
  <1>1. Goto(Single(r, d), X) = {i \in {Dotted(r, d + 1)} : r.rhs[d + 1] = X}
                                \cup {Dotted(q, 1) : q \in Beginning(O, X)}
    BY GotoIs DEF Beginning
  <1>2. ASSUME NEW q, X # r.rhs[d + 1], Beginning(O, X) = {q}
        PROVE  Goto(Single(r, d), X) = Single(q, 1)
    BY <1>1, <1>2 DEF Single
  <1> QED BY <1>1, <1>2 DEF Single

(* Where each state that is not complete goes to.                          *)
LEMMA FromGoal0 ==
    /\ Goto(Single(Goal, 0), "file") = Single(Goal, 1)
    /\ Goto(Single(Goal, 0), "item") = Single(FileRule, 1)
    /\ Goto(Single(Goal, 0), "function_item") = Single(FunctionRule, 1)
    /\ Goto(Single(Goal, 0), "error") = Single(BadItem, 1)
    /\ Goto(Single(Goal, 0), "Def") = Single(ItemRule, 1)
    /\ \A X : X \notin {"file", "item", "function_item", "error", "Def"} =>
          Goto(Single(Goal, 0), X) = {}
  <1> DEFINE O == {FileRule, FunctionRule, BadItem, ItemRule}
             s == Single(Goal, 0)
  <1>1. /\ 0 \in Nat /\ Len(Goal.rhs) \in Nat /\ 0 < Len(Goal.rhs) /\ 0 + 1 = 1
        /\ Goal.rhs[0 + 1] = "file"
    BY Lengths, RightSides
  <1>2. Opened(Goal.rhs[0 + 1]) = O
    BY <1>1 DEF Opened
  <1>3. /\ Beginning(O, "file") = {}
        /\ Beginning(O, "item") = {FileRule}
        /\ Beginning(O, "function_item") = {FunctionRule}
        /\ Beginning(O, "error") = {BadItem}
        /\ Beginning(O, "Def") = {ItemRule}
        /\ \A X : X \notin {"file", "item", "function_item", "error", "Def"} => Beginning(O, X) = {}
    BY RightSides DEF Beginning
  <1> HIDE DEF O
  <1>4. Goto(s, "file") = Single(Goal, 1)
    BY <1>1, <1>2, <1>3, GotoEach
  <1>5. Goto(s, "item") = Single(FileRule, 1)
    BY <1>1, <1>2, <1>3, GotoEach, "item" # "file"
  <1>6. Goto(s, "function_item") = Single(FunctionRule, 1)
    BY <1>1, <1>2, <1>3, GotoEach, "function_item" # "file"
  <1>7. Goto(s, "error") = Single(BadItem, 1)
    BY <1>1, <1>2, <1>3, GotoEach, "error" # "file"
  <1>8. Goto(s, "Def") = Single(ItemRule, 1)
    BY <1>1, <1>2, <1>3, GotoEach, "Def" # "file"
  <1>9. ASSUME NEW X, X \notin {"file", "item", "function_item", "error", "Def"}
        PROVE Goto(s, X) = {}
    <2>1. X # Goal.rhs[0 + 1] /\ Beginning(O, X) = {}
      BY <1>1, <1>3, <1>9
    <2> QED BY <1>1, <1>2, <2>1, GotoEach, Zenon
  <1> QED BY <1>4, <1>5, <1>6, <1>7, <1>8, <1>9, Zenon

LEMMA FromItemRule1 ==
    /\ Goto(Single(ItemRule, 1), "Identifier") = Single(ItemRule, 2)
    /\ \A X : X \notin {"Identifier"} => Goto(Single(ItemRule, 1), X) = {}
  <1> DEFINE O == {}
             s == Single(ItemRule, 1)
  <1>1. /\ 1 \in Nat /\ Len(ItemRule.rhs) \in Nat /\ 1 < Len(ItemRule.rhs) /\ 1 + 1 = 2
        /\ ItemRule.rhs[1 + 1] = "Identifier"
    BY Lengths, RightSides
  <1>2. Opened(ItemRule.rhs[1 + 1]) = O
    BY <1>1 DEF Opened
  <1>3. /\ Beginning(O, "Identifier") = {}
        /\ \A X : X \notin {"Identifier"} => Beginning(O, X) = {}
    BY RightSides DEF Beginning
  <1> HIDE DEF O
  <1>4. Goto(s, "Identifier") = Single(ItemRule, 2)
    BY <1>1, <1>2, <1>3, GotoEach
  <1>5. ASSUME NEW X, X \notin {"Identifier"} PROVE Goto(s, X) = {}
    <2>1. X # ItemRule.rhs[1 + 1] /\ Beginning(O, X) = {}
      BY <1>1, <1>3, <1>5
    <2> QED BY <1>1, <1>2, <2>1, GotoEach, Zenon
  <1> QED BY <1>4, <1>5, Zenon

LEMMA FromItemRule2 ==
    /\ Goto(Single(ItemRule, 2), "function_item_signature") = Single(ItemRule, 3)
    /\ Goto(Single(ItemRule, 2), "function_item_params") = Single(SignatureRule, 1)
    /\ Goto(Single(ItemRule, 2), "LeftParen") = Single(ParamsRule, 1)
    /\ \A X : X \notin {"function_item_signature", "function_item_params", "LeftParen"} =>
          Goto(Single(ItemRule, 2), X) = {}
  <1> DEFINE O == {SignatureRule, ParamsRule}
             s == Single(ItemRule, 2)
  <1>1. /\ 2 \in Nat /\ Len(ItemRule.rhs) \in Nat /\ 2 < Len(ItemRule.rhs) /\ 2 + 1 = 3
        /\ ItemRule.rhs[2 + 1] = "function_item_signature"
    BY Lengths, RightSides
  <1>2. Opened(ItemRule.rhs[2 + 1]) = O
    BY <1>1 DEF Opened
  <1>3. /\ Beginning(O, "function_item_signature") = {}
        /\ Beginning(O, "function_item_params") = {SignatureRule}
        /\ Beginning(O, "LeftParen") = {ParamsRule}
        /\ \A X : X \notin {"function_item_signature", "function_item_params", "LeftParen"}
           => Beginning(O, X) = {}
    BY RightSides DEF Beginning
  <1> HIDE DEF O
  <1>4. Goto(s, "function_item_signature") = Single(ItemRule, 3)
    BY <1>1, <1>2, <1>3, GotoEach
  <1>5. Goto(s, "function_item_params") = Single(SignatureRule, 1)
    BY <1>1, <1>2, <1>3, GotoEach, "function_item_params" # "function_item_signature"
  <1>6. Goto(s, "LeftParen") = Single(ParamsRule, 1)
    BY <1>1, <1>2, <1>3, GotoEach, "LeftParen" # "function_item_signature"
  <1>7. ASSUME NEW X, X \notin {"function_item_signature", "function_item_params", "LeftParen"}
        PROVE Goto(s, X) = {}
    <2>1. X # ItemRule.rhs[2 + 1] /\ Beginning(O, X) = {}
      BY <1>1, <1>3, <1>7
    <2> QED BY <1>1, <1>2, <2>1, GotoEach, Zenon
  <1> QED BY <1>4, <1>5, <1>6, <1>7, Zenon

LEMMA FromItemRule3 ==
    /\ Goto(Single(ItemRule, 3), "block") = Single(ItemRule, 4)
    /\ Goto(Single(ItemRule, 3), "LeftCurly") = Single(BlockRule, 1)
    /\ \A X : X \notin {"block", "LeftCurly"} => Goto(Single(ItemRule, 3), X) = {}
  <1> DEFINE O == {BlockRule}
             s == Single(ItemRule, 3)
  <1>1. /\ 3 \in Nat /\ Len(ItemRule.rhs) \in Nat /\ 3 < Len(ItemRule.rhs) /\ 3 + 1 = 4
        /\ ItemRule.rhs[3 + 1] = "block"
    BY Lengths, RightSides
  <1>2. Opened(ItemRule.rhs[3 + 1]) = O
    BY <1>1 DEF Opened
  <1>3. /\ Beginning(O, "block") = {}
        /\ Beginning(O, "LeftCurly") = {BlockRule}
        /\ \A X : X \notin {"block", "LeftCurly"} => Beginning(O, X) = {}
    BY RightSides DEF Beginning
  <1> HIDE DEF O
  <1>4. Goto(s, "block") = Single(ItemRule, 4)
    BY <1>1, <1>2, <1>3, GotoEach
  <1>5. Goto(s, "LeftCurly") = Single(BlockRule, 1)
    BY <1>1, <1>2, <1>3, GotoEach, "LeftCurly" # "block"
  <1>6. ASSUME NEW X, X \notin {"block", "LeftCurly"} PROVE Goto(s, X) = {}
    <2>1. X # ItemRule.rhs[3 + 1] /\ Beginning(O, X) = {}
      BY <1>1, <1>3, <1>6
    <2> QED BY <1>1, <1>2, <2>1, GotoEach, Zenon
  <1> QED BY <1>4, <1>5, <1>6, Zenon

LEMMA FromParamsRule1 ==
    /\ Goto(Single(ParamsRule, 1), "RightParen") = Single(ParamsRule, 2)
    /\ \A X : X \notin {"RightParen"} => Goto(Single(ParamsRule, 1), X) = {}
  <1> DEFINE O == {}
             s == Single(ParamsRule, 1)
  <1>1. /\ 1 \in Nat /\ Len(ParamsRule.rhs) \in Nat /\ 1 < Len(ParamsRule.rhs) /\ 1 + 1 = 2
        /\ ParamsRule.rhs[1 + 1] = "RightParen"
    BY Lengths, RightSides
  <1>2. Opened(ParamsRule.rhs[1 + 1]) = O
    BY <1>1 DEF Opened
  <1>3. /\ Beginning(O, "RightParen") = {}
        /\ \A X : X \notin {"RightParen"} => Beginning(O, X) = {}
    BY RightSides DEF Beginning
  <1> HIDE DEF O
  <1>4. Goto(s, "RightParen") = Single(ParamsRule, 2)
    BY <1>1, <1>2, <1>3, GotoEach
  <1>5. ASSUME NEW X, X \notin {"RightParen"} PROVE Goto(s, X) = {}
    <2>1. X # ParamsRule.rhs[1 + 1] /\ Beginning(O, X) = {}
      BY <1>1, <1>3, <1>5
    <2> QED BY <1>1, <1>2, <2>1, GotoEach, Zenon
  <1> QED BY <1>4, <1>5, Zenon

LEMMA FromSignatureRule1 ==
    /\ Goto(Single(SignatureRule, 1), "return_type") = Single(SignatureRule, 2)
    /\ Goto(Single(SignatureRule, 1), "ThinArrow") = Single(ReturnTypeRule, 1)
    /\ \A X : X \notin {"return_type", "ThinArrow"} => Goto(Single(SignatureRule, 1), X) = {}
  <1> DEFINE O == {ReturnTypeRule}
             s == Single(SignatureRule, 1)
  <1>1. /\ 1 \in Nat /\ Len(SignatureRule.rhs) \in Nat /\ 1 < Len(SignatureRule.rhs) /\ 1 + 1 = 2
        /\ SignatureRule.rhs[1 + 1] = "return_type"
    BY Lengths, RightSides
  <1>2. Opened(SignatureRule.rhs[1 + 1]) = O
    BY <1>1 DEF Opened
  <1>3. /\ Beginning(O, "return_type") = {}
        /\ Beginning(O, "ThinArrow") = {ReturnTypeRule}
        /\ \A X : X \notin {"return_type", "ThinArrow"} => Beginning(O, X) = {}
    BY RightSides DEF Beginning
  <1> HIDE DEF O
  <1>4. Goto(s, "return_type") = Single(SignatureRule, 2)
    BY <1>1, <1>2, <1>3, GotoEach
  <1>5. Goto(s, "ThinArrow") = Single(ReturnTypeRule, 1)
    BY <1>1, <1>2, <1>3, GotoEach, "ThinArrow" # "return_type"
  <1>6. ASSUME NEW X, X \notin {"return_type", "ThinArrow"} PROVE Goto(s, X) = {}
    <2>1. X # SignatureRule.rhs[1 + 1] /\ Beginning(O, X) = {}
      BY <1>1, <1>3, <1>6
    <2> QED BY <1>1, <1>2, <2>1, GotoEach, Zenon
  <1> QED BY <1>4, <1>5, <1>6, Zenon

LEMMA FromReturnTypeRule1 ==
    /\ Goto(Single(ReturnTypeRule, 1), "type") = Single(ReturnTypeRule, 2)
    /\ Goto(Single(ReturnTypeRule, 1), "expr") = Single(TypeRule, 1)
    /\ Goto(Single(ReturnTypeRule, 1), "primary_expr") = Single(ExprRule, 1)
    /\ Goto(Single(ReturnTypeRule, 1), "error") = Single(BadExpr, 1)
    /\ Goto(Single(ReturnTypeRule, 1), "Identifier") = Single(NameRule, 1)
    /\ Goto(Single(ReturnTypeRule, 1), "IntLiteral") = Single(LiteralRule, 1)
    /\ Goto(Single(ReturnTypeRule, 1), "LeftParen") = Single(ParenRule, 1)
    /\ \A X : X \notin {"type", "expr", "primary_expr", "error", "Identifier", "IntLiteral",
       "LeftParen"} =>
          Goto(Single(ReturnTypeRule, 1), X) = {}
  <1> DEFINE O == {TypeRule, ExprRule, BadExpr, NameRule, LiteralRule, ParenRule}
             s == Single(ReturnTypeRule, 1)
  <1>1. /\ 1 \in Nat /\ Len(ReturnTypeRule.rhs) \in Nat /\ 1 < Len(ReturnTypeRule.rhs) /\ 1 + 1 = 2
        /\ ReturnTypeRule.rhs[1 + 1] = "type"
    BY Lengths, RightSides
  <1>2. Opened(ReturnTypeRule.rhs[1 + 1]) = O
    BY <1>1 DEF Opened
  <1>3. /\ Beginning(O, "type") = {}
        /\ Beginning(O, "expr") = {TypeRule}
        /\ Beginning(O, "primary_expr") = {ExprRule}
        /\ Beginning(O, "error") = {BadExpr}
        /\ Beginning(O, "Identifier") = {NameRule}
        /\ Beginning(O, "IntLiteral") = {LiteralRule}
        /\ Beginning(O, "LeftParen") = {ParenRule}
        /\ \A X : X \notin {"type", "expr", "primary_expr", "error", "Identifier", "IntLiteral",
           "LeftParen"} => Beginning(O, X) = {}
    BY RightSides DEF Beginning
  <1> HIDE DEF O
  <1>4. Goto(s, "type") = Single(ReturnTypeRule, 2)
    BY <1>1, <1>2, <1>3, GotoEach
  <1>5. Goto(s, "expr") = Single(TypeRule, 1)
    BY <1>1, <1>2, <1>3, GotoEach, "expr" # "type"
  <1>6. Goto(s, "primary_expr") = Single(ExprRule, 1)
    BY <1>1, <1>2, <1>3, GotoEach, "primary_expr" # "type"
  <1>7. Goto(s, "error") = Single(BadExpr, 1)
    BY <1>1, <1>2, <1>3, GotoEach, "error" # "type"
  <1>8. Goto(s, "Identifier") = Single(NameRule, 1)
    BY <1>1, <1>2, <1>3, GotoEach, "Identifier" # "type"
  <1>9. Goto(s, "IntLiteral") = Single(LiteralRule, 1)
    BY <1>1, <1>2, <1>3, GotoEach, "IntLiteral" # "type"
  <1>10. Goto(s, "LeftParen") = Single(ParenRule, 1)
    BY <1>1, <1>2, <1>3, GotoEach, "LeftParen" # "type"
  <1>11. ASSUME NEW X, X \notin {"type", "expr", "primary_expr", "error", "Identifier",
                "IntLiteral", "LeftParen"} PROVE Goto(s, X) = {}
    <2>1. X # ReturnTypeRule.rhs[1 + 1] /\ Beginning(O, X) = {}
      BY <1>1, <1>3, <1>11
    <2> QED BY <1>1, <1>2, <2>1, GotoEach, Zenon
  <1> QED BY <1>4, <1>5, <1>6, <1>7, <1>8, <1>9, <1>10, <1>11, Zenon

LEMMA FromParenRule1 ==
    /\ Goto(Single(ParenRule, 1), "expr") = Single(ParenRule, 2)
    /\ Goto(Single(ParenRule, 1), "primary_expr") = Single(ExprRule, 1)
    /\ Goto(Single(ParenRule, 1), "error") = Single(BadExpr, 1)
    /\ Goto(Single(ParenRule, 1), "Identifier") = Single(NameRule, 1)
    /\ Goto(Single(ParenRule, 1), "IntLiteral") = Single(LiteralRule, 1)
    /\ Goto(Single(ParenRule, 1), "LeftParen") = Single(ParenRule, 1)
    /\ \A X : X \notin {"expr", "primary_expr", "error", "Identifier", "IntLiteral", "LeftParen"} =>
          Goto(Single(ParenRule, 1), X) = {}
  <1> DEFINE O == {ExprRule, BadExpr, NameRule, LiteralRule, ParenRule}
             s == Single(ParenRule, 1)
  <1>1. /\ 1 \in Nat /\ Len(ParenRule.rhs) \in Nat /\ 1 < Len(ParenRule.rhs) /\ 1 + 1 = 2
        /\ ParenRule.rhs[1 + 1] = "expr"
    BY Lengths, RightSides
  <1>2. Opened(ParenRule.rhs[1 + 1]) = O
    BY <1>1 DEF Opened
  <1>3. /\ Beginning(O, "expr") = {}
        /\ Beginning(O, "primary_expr") = {ExprRule}
        /\ Beginning(O, "error") = {BadExpr}
        /\ Beginning(O, "Identifier") = {NameRule}
        /\ Beginning(O, "IntLiteral") = {LiteralRule}
        /\ Beginning(O, "LeftParen") = {ParenRule}
        /\ \A X : X \notin {"expr", "primary_expr", "error", "Identifier", "IntLiteral",
           "LeftParen"} => Beginning(O, X) = {}
    BY RightSides DEF Beginning
  <1> HIDE DEF O
  <1>4. Goto(s, "expr") = Single(ParenRule, 2)
    BY <1>1, <1>2, <1>3, GotoEach
  <1>5. Goto(s, "primary_expr") = Single(ExprRule, 1)
    BY <1>1, <1>2, <1>3, GotoEach, "primary_expr" # "expr"
  <1>6. Goto(s, "error") = Single(BadExpr, 1)
    BY <1>1, <1>2, <1>3, GotoEach, "error" # "expr"
  <1>7. Goto(s, "Identifier") = Single(NameRule, 1)
    BY <1>1, <1>2, <1>3, GotoEach, "Identifier" # "expr"
  <1>8. Goto(s, "IntLiteral") = Single(LiteralRule, 1)
    BY <1>1, <1>2, <1>3, GotoEach, "IntLiteral" # "expr"
  <1>9. Goto(s, "LeftParen") = Single(ParenRule, 1)
    BY <1>1, <1>2, <1>3, GotoEach, "LeftParen" # "expr"
  <1>10. ASSUME NEW X, X \notin {"expr", "primary_expr", "error", "Identifier", "IntLiteral",
                "LeftParen"} PROVE Goto(s, X) = {}
    <2>1. X # ParenRule.rhs[1 + 1] /\ Beginning(O, X) = {}
      BY <1>1, <1>3, <1>10
    <2> QED BY <1>1, <1>2, <2>1, GotoEach, Zenon
  <1> QED BY <1>4, <1>5, <1>6, <1>7, <1>8, <1>9, <1>10, Zenon

LEMMA FromReturnRule1 ==
    /\ Goto(Single(ReturnRule, 1), "expr") = Single(ReturnRule, 2)
    /\ Goto(Single(ReturnRule, 1), "primary_expr") = Single(ExprRule, 1)
    /\ Goto(Single(ReturnRule, 1), "error") = Single(BadExpr, 1)
    /\ Goto(Single(ReturnRule, 1), "Identifier") = Single(NameRule, 1)
    /\ Goto(Single(ReturnRule, 1), "IntLiteral") = Single(LiteralRule, 1)
    /\ Goto(Single(ReturnRule, 1), "LeftParen") = Single(ParenRule, 1)
    /\ \A X : X \notin {"expr", "primary_expr", "error", "Identifier", "IntLiteral", "LeftParen"} =>
          Goto(Single(ReturnRule, 1), X) = {}
  <1> DEFINE O == {ExprRule, BadExpr, NameRule, LiteralRule, ParenRule}
             s == Single(ReturnRule, 1)
  <1>1. /\ 1 \in Nat /\ Len(ReturnRule.rhs) \in Nat /\ 1 < Len(ReturnRule.rhs) /\ 1 + 1 = 2
        /\ ReturnRule.rhs[1 + 1] = "expr"
    BY Lengths, RightSides
  <1>2. Opened(ReturnRule.rhs[1 + 1]) = O
    BY <1>1 DEF Opened
  <1>3. /\ Beginning(O, "expr") = {}
        /\ Beginning(O, "primary_expr") = {ExprRule}
        /\ Beginning(O, "error") = {BadExpr}
        /\ Beginning(O, "Identifier") = {NameRule}
        /\ Beginning(O, "IntLiteral") = {LiteralRule}
        /\ Beginning(O, "LeftParen") = {ParenRule}
        /\ \A X : X \notin {"expr", "primary_expr", "error", "Identifier", "IntLiteral",
           "LeftParen"} => Beginning(O, X) = {}
    BY RightSides DEF Beginning
  <1> HIDE DEF O
  <1>4. Goto(s, "expr") = Single(ReturnRule, 2)
    BY <1>1, <1>2, <1>3, GotoEach
  <1>5. Goto(s, "primary_expr") = Single(ExprRule, 1)
    BY <1>1, <1>2, <1>3, GotoEach, "primary_expr" # "expr"
  <1>6. Goto(s, "error") = Single(BadExpr, 1)
    BY <1>1, <1>2, <1>3, GotoEach, "error" # "expr"
  <1>7. Goto(s, "Identifier") = Single(NameRule, 1)
    BY <1>1, <1>2, <1>3, GotoEach, "Identifier" # "expr"
  <1>8. Goto(s, "IntLiteral") = Single(LiteralRule, 1)
    BY <1>1, <1>2, <1>3, GotoEach, "IntLiteral" # "expr"
  <1>9. Goto(s, "LeftParen") = Single(ParenRule, 1)
    BY <1>1, <1>2, <1>3, GotoEach, "LeftParen" # "expr"
  <1>10. ASSUME NEW X, X \notin {"expr", "primary_expr", "error", "Identifier", "IntLiteral",
                "LeftParen"} PROVE Goto(s, X) = {}
    <2>1. X # ReturnRule.rhs[1 + 1] /\ Beginning(O, X) = {}
      BY <1>1, <1>3, <1>10
    <2> QED BY <1>1, <1>2, <2>1, GotoEach, Zenon
  <1> QED BY <1>4, <1>5, <1>6, <1>7, <1>8, <1>9, <1>10, Zenon

LEMMA FromParenRule2 ==
    /\ Goto(Single(ParenRule, 2), "RightParen") = Single(ParenRule, 3)
    /\ \A X : X \notin {"RightParen"} => Goto(Single(ParenRule, 2), X) = {}
  <1> DEFINE O == {}
             s == Single(ParenRule, 2)
  <1>1. /\ 2 \in Nat /\ Len(ParenRule.rhs) \in Nat /\ 2 < Len(ParenRule.rhs) /\ 2 + 1 = 3
        /\ ParenRule.rhs[2 + 1] = "RightParen"
    BY Lengths, RightSides
  <1>2. Opened(ParenRule.rhs[2 + 1]) = O
    BY <1>1 DEF Opened
  <1>3. /\ Beginning(O, "RightParen") = {}
        /\ \A X : X \notin {"RightParen"} => Beginning(O, X) = {}
    BY RightSides DEF Beginning
  <1> HIDE DEF O
  <1>4. Goto(s, "RightParen") = Single(ParenRule, 3)
    BY <1>1, <1>2, <1>3, GotoEach
  <1>5. ASSUME NEW X, X \notin {"RightParen"} PROVE Goto(s, X) = {}
    <2>1. X # ParenRule.rhs[2 + 1] /\ Beginning(O, X) = {}
      BY <1>1, <1>3, <1>5
    <2> QED BY <1>1, <1>2, <2>1, GotoEach, Zenon
  <1> QED BY <1>4, <1>5, Zenon

LEMMA FromBlockRule1 ==
    /\ Goto(Single(BlockRule, 1), "stmt") = Single(BlockRule, 2)
    /\ Goto(Single(BlockRule, 1), "return_stmt") = Single(StmtRule, 1)
    /\ Goto(Single(BlockRule, 1), "error") = Single(BadStmt, 1)
    /\ Goto(Single(BlockRule, 1), "Return") = Single(ReturnRule, 1)
    /\ \A X : X \notin {"stmt", "return_stmt", "error", "Return"} =>
          Goto(Single(BlockRule, 1), X) = {}
  <1> DEFINE O == {StmtRule, BadStmt, ReturnRule}
             s == Single(BlockRule, 1)
  <1>1. /\ 1 \in Nat /\ Len(BlockRule.rhs) \in Nat /\ 1 < Len(BlockRule.rhs) /\ 1 + 1 = 2
        /\ BlockRule.rhs[1 + 1] = "stmt"
    BY Lengths, RightSides
  <1>2. Opened(BlockRule.rhs[1 + 1]) = O
    BY <1>1 DEF Opened
  <1>3. /\ Beginning(O, "stmt") = {}
        /\ Beginning(O, "return_stmt") = {StmtRule}
        /\ Beginning(O, "error") = {BadStmt}
        /\ Beginning(O, "Return") = {ReturnRule}
        /\ \A X : X \notin {"stmt", "return_stmt", "error", "Return"} => Beginning(O, X) = {}
    BY RightSides DEF Beginning
  <1> HIDE DEF O
  <1>4. Goto(s, "stmt") = Single(BlockRule, 2)
    BY <1>1, <1>2, <1>3, GotoEach
  <1>5. Goto(s, "return_stmt") = Single(StmtRule, 1)
    BY <1>1, <1>2, <1>3, GotoEach, "return_stmt" # "stmt"
  <1>6. Goto(s, "error") = Single(BadStmt, 1)
    BY <1>1, <1>2, <1>3, GotoEach, "error" # "stmt"
  <1>7. Goto(s, "Return") = Single(ReturnRule, 1)
    BY <1>1, <1>2, <1>3, GotoEach, "Return" # "stmt"
  <1>8. ASSUME NEW X, X \notin {"stmt", "return_stmt", "error", "Return"} PROVE Goto(s, X) = {}
    <2>1. X # BlockRule.rhs[1 + 1] /\ Beginning(O, X) = {}
      BY <1>1, <1>3, <1>8
    <2> QED BY <1>1, <1>2, <2>1, GotoEach, Zenon
  <1> QED BY <1>4, <1>5, <1>6, <1>7, <1>8, Zenon

LEMMA FromBlockRule2 ==
    /\ Goto(Single(BlockRule, 2), "Semicolon") = Single(BlockRule, 3)
    /\ \A X : X \notin {"Semicolon"} => Goto(Single(BlockRule, 2), X) = {}
  <1> DEFINE O == {}
             s == Single(BlockRule, 2)
  <1>1. /\ 2 \in Nat /\ Len(BlockRule.rhs) \in Nat /\ 2 < Len(BlockRule.rhs) /\ 2 + 1 = 3
        /\ BlockRule.rhs[2 + 1] = "Semicolon"
    BY Lengths, RightSides
  <1>2. Opened(BlockRule.rhs[2 + 1]) = O
    BY <1>1 DEF Opened
  <1>3. /\ Beginning(O, "Semicolon") = {}
        /\ \A X : X \notin {"Semicolon"} => Beginning(O, X) = {}
    BY RightSides DEF Beginning
  <1> HIDE DEF O
  <1>4. Goto(s, "Semicolon") = Single(BlockRule, 3)
    BY <1>1, <1>2, <1>3, GotoEach
  <1>5. ASSUME NEW X, X \notin {"Semicolon"} PROVE Goto(s, X) = {}
    <2>1. X # BlockRule.rhs[2 + 1] /\ Beginning(O, X) = {}
      BY <1>1, <1>3, <1>5
    <2> QED BY <1>1, <1>2, <2>1, GotoEach, Zenon
  <1> QED BY <1>4, <1>5, Zenon

LEMMA FromBlockRule3 ==
    /\ Goto(Single(BlockRule, 3), "RightCurly") = Single(BlockRule, 4)
    /\ \A X : X \notin {"RightCurly"} => Goto(Single(BlockRule, 3), X) = {}
  <1> DEFINE O == {}
             s == Single(BlockRule, 3)
  <1>1. /\ 3 \in Nat /\ Len(BlockRule.rhs) \in Nat /\ 3 < Len(BlockRule.rhs) /\ 3 + 1 = 4
        /\ BlockRule.rhs[3 + 1] = "RightCurly"
    BY Lengths, RightSides
  <1>2. Opened(BlockRule.rhs[3 + 1]) = O
    BY <1>1 DEF Opened
  <1>3. /\ Beginning(O, "RightCurly") = {}
        /\ \A X : X \notin {"RightCurly"} => Beginning(O, X) = {}
    BY RightSides DEF Beginning
  <1> HIDE DEF O
  <1>4. Goto(s, "RightCurly") = Single(BlockRule, 4)
    BY <1>1, <1>2, <1>3, GotoEach
  <1>5. ASSUME NEW X, X \notin {"RightCurly"} PROVE Goto(s, X) = {}
    <2>1. X # BlockRule.rhs[3 + 1] /\ Beginning(O, X) = {}
      BY <1>1, <1>3, <1>5
    <2> QED BY <1>1, <1>2, <2>1, GotoEach, Zenon
  <1> QED BY <1>4, <1>5, Zenon

LEMMA FromGoal1 ==
    /\ Goto(Single(Goal, 1), "EndOfFile") = Single(Goal, 2)
    /\ \A X : X \notin {"EndOfFile"} => Goto(Single(Goal, 1), X) = {}
  <1> DEFINE O == {}
             s == Single(Goal, 1)
  <1>1. /\ 1 \in Nat /\ Len(Goal.rhs) \in Nat /\ 1 < Len(Goal.rhs) /\ 1 + 1 = 2
        /\ Goal.rhs[1 + 1] = "EndOfFile"
    BY Lengths, RightSides
  <1>2. Opened(Goal.rhs[1 + 1]) = O
    BY <1>1 DEF Opened
  <1>3. /\ Beginning(O, "EndOfFile") = {}
        /\ \A X : X \notin {"EndOfFile"} => Beginning(O, X) = {}
    BY RightSides DEF Beginning
  <1> HIDE DEF O
  <1>4. Goto(s, "EndOfFile") = Single(Goal, 2)
    BY <1>1, <1>2, <1>3, GotoEach
  <1>5. ASSUME NEW X, X \notin {"EndOfFile"} PROVE Goto(s, X) = {}
    <2>1. X # Goal.rhs[1 + 1] /\ Beginning(O, X) = {}
      BY <1>1, <1>3, <1>5
    <2> QED BY <1>1, <1>2, <2>1, GotoEach, Zenon
  <1> QED BY <1>4, <1>5, Zenon

-----------------------------------------------------------------------------
(* Sequences of anything.                                                  *)
IsSeq(s) == s \in Seq(Range(s))

LEMMA SeqDomain ==
    ASSUME NEW s, IsSeq(s)
    PROVE  /\ Len(s) \in Nat /\ DOMAIN s = 1 .. Len(s)
           /\ s = [k \in 1 .. Len(s) |-> s[k]]
  BY DEF IsSeq

LEMMA SeqIsSeq ==
    ASSUME NEW S, NEW s \in Seq(S)
    PROVE  IsSeq(s)
  <1>1. s \in [1 .. Len(s) -> S] /\ Len(s) \in Nat /\ DOMAIN s = 1 .. Len(s)
    OBVIOUS
  <1> DEFINE R == Range(s)
  <1>2. s \in [1 .. Len(s) -> R]
    BY <1>1 DEF Range
  <1> HIDE DEF R
  <1>3. s \in Seq(R)
    BY <1>1, <1>2
  <1> QED BY <1>3 DEF IsSeq, R

LEMMA SeqAppend ==
    ASSUME NEW s, IsSeq(s), NEW e
    PROVE  LET t == Append(s, e)
           IN /\ IsSeq(t) /\ Len(t) = Len(s) + 1 /\ t[Len(s) + 1] = e
              /\ \A k \in 1 .. Len(s) : t[k] = s[k]
  <1> DEFINE S == Range(s) \cup {e}
  <1>1. s \in Seq(S) /\ e \in S
    <2>1. s \in Seq(Range(s)) /\ Range(s) \subseteq S
      BY DEF IsSeq
    <2> HIDE DEF S
    <2>2. s \in Seq(S)
      <3>1. s \in [1 .. Len(s) -> Range(s)] /\ Len(s) \in Nat
        BY <2>1
      <3> QED BY <2>1, <3>1
    <2> QED BY <2>2 DEF S
  <1> HIDE DEF S
  <1>2. /\ Append(s, e) \in Seq(S) /\ Len(Append(s, e)) = Len(s) + 1
        /\ Append(s, e)[Len(s) + 1] = e
        /\ \A k \in 1 .. Len(s) : Append(s, e)[k] = s[k]
    BY <1>1
  <1> QED BY <1>2, SeqIsSeq

LEMMA SeqPrefix ==
    ASSUME NEW s, IsSeq(s), NEW m \in 0 .. Len(s)
    PROVE  LET t == SubSeq(s, 1, m)
           IN /\ IsSeq(t) /\ Len(t) = m
              /\ \A k \in 1 .. m : t[k] = s[k]
  <1> DEFINE S == Range(s)
  <1>1. s \in Seq(S) /\ Len(s) \in Nat
    BY DEF IsSeq
  <1> HIDE DEF S
  <1>2. /\ SubSeq(s, 1, m) \in Seq(S) /\ Len(SubSeq(s, 1, m)) = m
        /\ \A k \in 1 .. m : SubSeq(s, 1, m)[k] = s[k]
    BY <1>1
  <1> QED BY <1>2, SeqIsSeq

LEMMA SeqEnds ==
    ASSUME NEW s, IsSeq(s), Len(s) >= 1
    PROVE  /\ Last(s) = s[Len(s)]
           /\ Front(s) = SubSeq(s, 1, Len(s) - 1)
  BY DEF Last, Front

LEMMA EntryFields ==
    ASSUME NEW s, NEW l, NEW v
    PROVE  Entry(s, l, v).state = s /\ Entry(s, l, v).value = v
  BY DEF Entry

-----------------------------------------------------------------------------
(* The steps of a parser whose uppermost state is Single(r, d).            *)
ReadsOne(k, v) ==
    LET to == Goto(State, k)
    IN \/ /\ k # "EndOfFile" /\ Len(stack) # YYMAXDEPTH /\ to # {}
          /\ stack' = Append(stack, Entry(to, token_index, v))
          /\ parse_result' = parse_result /\ parse_pc' = "parsing"
       \/ /\ k = "EndOfFile" /\ to # {}
          /\ stack' = stack
          /\ parse_result' = parse_result /\ parse_pc' = "done"
       \/ /\ to = {}
          /\ stack' = stack
          /\ parse_result'.kind = "YaccError" /\ parse_pc' = "recovering"
       \/ /\ k # "EndOfFile" /\ Len(stack) = YYMAXDEPTH /\ to # {}
          /\ stack' = stack
          /\ parse_result'.kind = "YaccError" /\ parse_pc' = "done"

LEMMA YaccKind ==
    ASSUME NEW message, yyerror(message)
    PROVE  parse_result'.kind = "YaccError"
  BY DEF yyerror

LEMMA ReadingStep ==
    ASSUME ParserNext, parse_pc = "parsing",
           NEW r, NEW d \in Nat, Len(r.rhs) \in Nat, d < Len(r.rhs), State = Single(r, d)
    PROVE  /\ token_index < Len(tokens) /\ tokens' = tokens /\ token_index' = token_index + 1
           /\ ReadsOne(tokens[token_index + 1].kind, tokens[token_index + 1].value)
  <1>1. ASSUME NEW rule, Reducing(rule) PROVE FALSE
    <2>1. Dotted(rule, Len(rule.rhs)) = Dotted(r, d)
      BY <1>1 DEF Reducing, Single
    <2> QED BY <2>1, DottedSame
  <1>2. Shift \/ Accept \/ SyntaxError \/ Overflow
    BY <1>1 DEF ParserNext, ReduceError, Reduce, PopState, ShiftError
  <1>3. Reading => token_index < Len(tokens)
    BY DEF Reading
  <1>4. CASE Shift
    BY <1>3, <1>4 DEF Shift, ReadsOne, yylex, Token, Full
  <1>5. CASE Accept
    BY <1>3, <1>5 DEF Accept, ReadsOne, yylex, Token
  <1>6. CASE SyntaxError
    BY <1>3, <1>6, YaccKind DEF SyntaxError, ReadsOne, yylex, Token
  <1>7. CASE Overflow
    BY <1>3, <1>7, YaccKind DEF Overflow, ReadsOne, yylex, Token, Full
  <1> QED BY <1>2, <1>4, <1>5, <1>6, <1>7

LEMMA ReducingStep ==
    ASSUME ParserNext, parse_pc = "parsing", IsSeq(stack),
           NEW r \in GoodRules, NEW n \in Nat, n = Len(r.rhs), n >= 1, n < Len(stack),
           State = Single(r, n)
    PROVE  LET m == Len(stack) - n
               value == Value(r, [k \in 1 .. n |-> stack[m + k].value])
           IN /\ tokens' = tokens /\ token_index' = token_index /\ parse_pc' = "parsing"
              /\ IsSeq(stack') /\ Len(stack') = m + 1
              /\ \A k \in 1 .. m : stack'[k] = stack[k]
              /\ stack'[m + 1].state = Goto(stack[m].state, r.lhs)
              /\ stack'[m + 1].value = value
              /\ parse_result' = IF r.lhs = "file" THEN [kind |-> "Success", item |-> value]
                                                   ELSE parse_result
  <1>1. ASSUME NEW rule, Reducing(rule) PROVE rule = r
    <2>1. Dotted(rule, Len(rule.rhs)) = Dotted(r, n)
      BY <1>1 DEF Reducing, Single
    <2> QED BY <2>1, DottedSame
  <1>2. ~Reading
    <2>1. Dotted(r, n) \in State /\ IsComplete(Dotted(r, n))
      BY DottedSame DEF Single, IsComplete
    <2> QED BY <2>1 DEF Reading
  <1>3. ~Shift /\ ~Accept /\ ~SyntaxError /\ ~PopState /\ ~ShiftError /\ ~Overflow
    BY <1>2 DEF Shift, Accept, SyntaxError, PopState, ShiftError, Overflow
  <1>4. ReduceError(r) \/ Reduce(r)
    BY <1>1, <1>3 DEF ParserNext, ReduceError, Reduce
  <1>5. Reduce(r)
    BY <1>4, BadOnly DEF ReduceError
  <1> DEFINE m == Len(stack) - n
             handle == [k \in 1 .. n |-> stack[m + k]]
             values == [k \in 1 .. n |-> stack[m + k].value]
             rest == SubSeq(stack, 1, m)
             top == Entry(Goto(Last(rest).state, r.lhs), Head(handle).loc, Value(r, values))
  <1>6. Handle(r) = handle /\ Below(r) = m
    BY DEF Handle, Below
  <1>7. [k \in DOMAIN handle |-> handle[k].value] = values
    OBVIOUS
  <1>8. /\ stack' = Append(rest, top)
        /\ parse_result' = IF r.lhs = "file" THEN [kind |-> "Success", item |-> Value(r, values)]
                                             ELSE parse_result
        /\ tokens' = tokens /\ token_index' = token_index /\ parse_pc' = parse_pc
    <2> HIDE DEF handle, values, m
    <2> QED BY <1>5, <1>6, <1>7 DEF Reduce
  <1>9. m \in 1 .. Len(stack)
    BY SeqDomain
  <1>10. IsSeq(rest) /\ Len(rest) = m /\ \A k \in 1 .. m : rest[k] = stack[k]
    <2> HIDE DEF m
    <2> QED BY <1>9, SeqPrefix
  <1>11. Last(rest).state = stack[m].state
    <2> HIDE DEF rest, m
    <2> QED BY <1>9, <1>10, SeqEnds
  <1>12. top.state = Goto(stack[m].state, r.lhs) /\ top.value = Value(r, values)
    BY <1>11, EntryFields
  <1> HIDE DEF rest, top, m, values, handle
  <1>13. /\ IsSeq(stack') /\ Len(stack') = m + 1 /\ stack'[m + 1] = top
         /\ \A k \in 1 .. m : stack'[k] = rest[k]
    BY <1>8, <1>10, SeqAppend
  <1> QED BY <1>8, <1>10, <1>12, <1>13 DEF m, values

(* After the error token there is only the rule of that error.             *)
LEMMA BadStep ==
    ASSUME ParserNext, parse_pc = "parsing",
           NEW r \in BadRules, State = Single(r, 1)
    PROVE  /\ tokens' = tokens /\ token_index' = token_index /\ stack' = stack
           /\ parse_pc' = "done" /\ parse_result'.kind = "ParseError"
  <1>1. Len(r.rhs) = 1
    BY Lengths DEF BadRules
  <1>2. ASSUME NEW rule, Reducing(rule) PROVE rule = r
    <2>1. Dotted(rule, Len(rule.rhs)) = Dotted(r, 1)
      BY <1>2 DEF Reducing, Single
    <2> QED BY <2>1, DottedSame
  <1>3. ~Reading
    <2>1. Dotted(r, 1) \in State /\ IsComplete(Dotted(r, 1))
      BY <1>1, DottedSame DEF Single, IsComplete
    <2> QED BY <2>1 DEF Reading
  <1>4. ~Shift /\ ~Accept /\ ~SyntaxError /\ ~PopState /\ ~ShiftError /\ ~Overflow
    BY <1>3 DEF Shift, Accept, SyntaxError, PopState, ShiftError, Overflow
  <1>5. ReduceError(r) \/ Reduce(r)
    BY <1>2, <1>4 DEF ParserNext, ReduceError, Reduce
  <1>6. ReduceError(r)
    BY <1>5, BadOnly DEF Reduce
  <1> QED BY <1>6 DEF ReduceError

-----------------------------------------------------------------------------
(* The sentences: N parentheses are around the return type, M around the   *)
(* value.  These are the kinds that can stand at the k-th place.           *)
LeafKinds == {"Identifier", "IntLiteral"}

KindsAt(N, M, k) ==
    CASE k = 1 -> {"Def"}
      [] k = 2 -> {"Identifier"}
      [] k \in {3} \cup 6 .. 5 + N \cup 9 + 2 * N .. 8 + 2 * N + M -> {"LeftParen"}
      [] k \in {4} \cup 7 + N .. 6 + 2 * N \cup 10 + 2 * N + M .. 9 + 2 * N + 2 * M ->
           {"RightParen"}
      [] k = 5 -> {"ThinArrow"}
      [] k \in {6 + N, 9 + 2 * N + M} -> LeafKinds
      [] k = 7 + 2 * N -> {"LeftCurly"}
      [] k = 8 + 2 * N -> {"Return"}
      [] k = 10 + 2 * N + 2 * M -> {"Semicolon"}
      [] k = 11 + 2 * N + 2 * M -> {"RightCurly"}
      [] k = 12 + 2 * N + 2 * M -> {"EndOfFile"}
      [] OTHER -> {}

LEMMA KindsAtIs ==
    ASSUME NEW N \in Nat, NEW M \in Nat, NEW k \in Nat, k >= 1
    PROVE  /\ k = 1 => KindsAt(N, M, k) = {"Def"}
           /\ k = 2 => KindsAt(N, M, k) = {"Identifier"}
           /\ k = 3 => KindsAt(N, M, k) = {"LeftParen"}
           /\ k = 4 => KindsAt(N, M, k) = {"RightParen"}
           /\ k = 5 => KindsAt(N, M, k) = {"ThinArrow"}
           /\ k \in 6 .. 5 + N => KindsAt(N, M, k) = {"LeftParen"}
           /\ k = 6 + N => KindsAt(N, M, k) = LeafKinds
           /\ k \in 7 + N .. 6 + 2 * N => KindsAt(N, M, k) = {"RightParen"}
           /\ k = 7 + 2 * N => KindsAt(N, M, k) = {"LeftCurly"}
           /\ k = 8 + 2 * N => KindsAt(N, M, k) = {"Return"}
           /\ k \in 9 + 2 * N .. 8 + 2 * N + M => KindsAt(N, M, k) = {"LeftParen"}
           /\ k = 9 + 2 * N + M => KindsAt(N, M, k) = LeafKinds
           /\ k \in 10 + 2 * N + M .. 9 + 2 * N + 2 * M => KindsAt(N, M, k) = {"RightParen"}
           /\ k = 10 + 2 * N + 2 * M => KindsAt(N, M, k) = {"Semicolon"}
           /\ k = 11 + 2 * N + 2 * M => KindsAt(N, M, k) = {"RightCurly"}
           /\ k = 12 + 2 * N + 2 * M => KindsAt(N, M, k) = {"EndOfFile"}
           /\ k > 12 + 2 * N + 2 * M => KindsAt(N, M, k) = {}
  BY DEF KindsAt

LEMMA KindsAtOnly ==
    ASSUME NEW N \in Nat, NEW M \in Nat, NEW k \in Nat, k >= 1
    PROVE  /\ "EndOfFile" \in KindsAt(N, M, k) => k = 12 + 2 * N + 2 * M
           /\ "LeftCurly" \in KindsAt(N, M, k) => k = 7 + 2 * N
  <1>1. "EndOfFile" \in KindsAt(N, M, k) => k = 12 + 2 * N + 2 * M
    BY DEF KindsAt, LeafKinds
  <1>2. "LeftCurly" \in KindsAt(N, M, k) => k = 7 + 2 * N
    BY DEF KindsAt, LeafKinds
  <1> QED BY <1>1, <1>2

LEMMA KindsAtSome ==
    ASSUME NEW N \in Nat, NEW M \in Nat, NEW k \in 1 .. 12 + 2 * N + 2 * M
    PROVE  \E x : x \in KindsAt(N, M, k)
  <1> DEFINE K == KindsAt(N, M, k)
  <1>1. /\ k = 1 => K = {"Def"}
        /\ k = 2 => K = {"Identifier"}
        /\ k = 3 => K = {"LeftParen"}
        /\ k = 4 => K = {"RightParen"}
        /\ k = 5 => K = {"ThinArrow"}
        /\ k \in 6 .. 5 + N => K = {"LeftParen"}
        /\ k = 6 + N => K = LeafKinds
        /\ k \in 7 + N .. 6 + 2 * N => K = {"RightParen"}
        /\ k = 7 + 2 * N => K = {"LeftCurly"}
        /\ k = 8 + 2 * N => K = {"Return"}
        /\ k \in 9 + 2 * N .. 8 + 2 * N + M => K = {"LeftParen"}
        /\ k = 9 + 2 * N + M => K = LeafKinds
        /\ k \in 10 + 2 * N + M .. 9 + 2 * N + 2 * M => K = {"RightParen"}
        /\ k = 10 + 2 * N + 2 * M => K = {"Semicolon"}
        /\ k = 11 + 2 * N + 2 * M => K = {"RightCurly"}
        /\ k = 12 + 2 * N + 2 * M => K = {"EndOfFile"}
        /\ k > 12 + 2 * N + 2 * M => K = {}
    BY KindsAtIs
  <1>2. \/ k = 1 \/ k = 2 \/ k = 3 \/ k = 4 \/ k = 5 \/ k \in 6 .. 5 + N \/ k = 6 + N
        \/ k \in 7 + N .. 6 + 2 * N \/ k = 7 + 2 * N \/ k = 8 + 2 * N
        \/ k \in 9 + 2 * N .. 8 + 2 * N + M \/ k = 9 + 2 * N + M
        \/ k \in 10 + 2 * N + M .. 9 + 2 * N + 2 * M
        \/ k = 10 + 2 * N + 2 * M \/ k = 11 + 2 * N + 2 * M \/ k = 12 + 2 * N + 2 * M
    OBVIOUS
  <1> HIDE DEF K
  <1>3. K = LeafKinds \/ \E x : K = {x}
    BY <1>1, <1>2, Zenon
  <1>4. "Identifier" \in LeafKinds
    BY DEF LeafKinds
  <1> QED BY <1>3, <1>4 DEF K

Follows(n, N, M) == \A k \in 1 .. n : tokens[k].kind \in KindsAt(N, M, k)

LEMMA LessInside ==
    ASSUME NEW N \in Nat, NEW N2 \in Nat, NEW i \in Nat, N2 < N, i >= 5 + N
    PROVE  6 + N2 \in 1 .. i /\ 6 + N2 \in 6 .. 5 + N /\ 6 + N2 >= 1 /\ 6 + N2 \in Nat
  OBVIOUS

LEMMA SameType ==
    ASSUME NEW N \in Nat, NEW M \in Nat, NEW N2 \in Nat, NEW M2 \in Nat, NEW i \in Nat,
           Follows(i, N, M), Follows(i, N2, M2), i >= 5 + N
    PROVE  N2 >= N /\ (i >= 6 + N => N2 = N)
  <1>1. ASSUME N2 < N PROVE FALSE
    <2>1. 6 + N2 \in 1 .. i /\ 6 + N2 \in 6 .. 5 + N /\ 6 + N2 >= 1 /\ 6 + N2 \in Nat
      BY <1>1, LessInside
    <2>2. KindsAt(N2, M2, 6 + N2) = LeafKinds /\ KindsAt(N, M, 6 + N2) = {"LeftParen"}
      BY <2>1, KindsAtIs
    <2>3. tokens[6 + N2].kind \in {"LeftParen"} /\ tokens[6 + N2].kind \in LeafKinds
      BY <2>1, <2>2 DEF Follows
    <2> QED BY <2>3 DEF LeafKinds
  <1>2. ASSUME N2 > N, i >= 6 + N PROVE FALSE
    <2>1. 6 + N \in 1 .. i /\ 6 + N \in 6 .. 5 + N2 /\ 6 + N >= 1 /\ 6 + N \in Nat
      BY <1>2
    <2>2. KindsAt(N, M, 6 + N) = LeafKinds /\ KindsAt(N2, M2, 6 + N) = {"LeftParen"}
      BY <2>1, KindsAtIs
    <2>3. tokens[6 + N].kind \in {"LeftParen"} /\ tokens[6 + N].kind \in LeafKinds
      BY <2>1, <2>2 DEF Follows
    <2> QED BY <2>3 DEF LeafKinds
  <1> QED BY <1>1, <1>2

LEMMA SameValue ==
    ASSUME NEW N \in Nat, NEW M \in Nat, NEW N2 \in Nat, NEW M2 \in Nat, NEW i \in Nat,
           Follows(i, N, M), Follows(i, N2, M2), i >= 8 + 2 * N + M
    PROVE  N2 = N /\ M2 >= M /\ (i >= 9 + 2 * N + M => M2 = M)
  <1>1. N2 = N
    BY SameType
  <1> DEFINE place(m) == 9 + 2 * N + m
  <1>2. ASSUME M2 < M PROVE FALSE
    <2>1. /\ place(M2) \in 1 .. i /\ place(M2) \in 9 + 2 * N .. 8 + 2 * N + M /\ place(M2) \in Nat
          /\ place(M2) >= 1 /\ place(M2) = 9 + 2 * N2 + M2
      BY <1>1, <1>2
    <2> HIDE DEF place
    <2>2. KindsAt(N2, M2, place(M2)) = LeafKinds /\ KindsAt(N, M, place(M2)) = {"LeftParen"}
      BY <2>1, KindsAtIs
    <2>3. tokens[place(M2)].kind \in {"LeftParen"} /\ tokens[place(M2)].kind \in LeafKinds
      BY <2>1, <2>2 DEF Follows
    <2> QED BY <2>3 DEF LeafKinds
  <1>3. ASSUME M2 > M, i >= 9 + 2 * N + M PROVE FALSE
    <2>1. /\ place(M) \in 1 .. i /\ place(M) \in 9 + 2 * N2 .. 8 + 2 * N2 + M2 /\ place(M) \in Nat
          /\ place(M) >= 1 /\ place(M) = 9 + 2 * N + M
      BY <1>1, <1>3
    <2> HIDE DEF place
    <2>2. KindsAt(N, M, place(M)) = LeafKinds /\ KindsAt(N2, M2, place(M)) = {"LeftParen"}
      BY <2>1, KindsAtIs
    <2>3. tokens[place(M)].kind \in {"LeftParen"} /\ tokens[place(M)].kind \in LeafKinds
      BY <2>1, <2>2 DEF Follows
    <2> QED BY <2>3 DEF LeafKinds
  <1> QED BY <1>1, <1>2, <1>3

LEMMA FollowersAgree ==
    ASSUME NEW N \in Nat, NEW M \in Nat, NEW i \in Nat, Follows(i, N, M)
    PROVE  \A N2, M2 \in Nat : Follows(i, N2, M2) =>
              /\ i >= 5 + N => N2 >= N
              /\ i >= 6 + N => N2 = N
              /\ i >= 8 + 2 * N + M => N2 = N /\ M2 >= M
              /\ i >= 9 + 2 * N + M => N2 = N /\ M2 = M
  <1> SUFFICES ASSUME NEW N2 \in Nat, NEW M2 \in Nat, Follows(i, N2, M2)
               PROVE  /\ i >= 5 + N => N2 >= N
                      /\ i >= 6 + N => N2 = N
                      /\ i >= 8 + 2 * N + M => N2 = N /\ M2 >= M
                      /\ i >= 9 + 2 * N + M => N2 = N /\ M2 = M
    OBVIOUS
  <1>1. i >= 5 + N => N2 >= N /\ (i >= 6 + N => N2 = N)
    BY SameType
  <1>2. i >= 8 + 2 * N + M => N2 = N /\ M2 >= M /\ (i >= 9 + 2 * N + M => M2 = M)
    BY SameValue
  <1>3. /\ i >= 6 + N => i >= 5 + N
        /\ i >= 9 + 2 * N + M => i >= 8 + 2 * N + M
    OBVIOUS
  <1> QED BY <1>1, <1>2, <1>3

(* What is open before a token and after it.                               *)
LEMMA CountOneMore ==
    ASSUME NEW k \in Nat, k >= 1, NEW T
    PROVE  LET before == {j \in 1 .. k - 1 : j \in T}
               after == {j \in 1 .. k : j \in T}
           IN /\ IsFiniteSet(before) /\ Cardinality(before) \in Nat
              /\ Cardinality(after) = IF k \in T THEN Cardinality(before) + 1
                                                 ELSE Cardinality(before)
  <1> DEFINE before == {j \in 1 .. k - 1 : j \in T}
             after == {j \in 1 .. k : j \in T}
  <1>1. IsFiniteSet(before) /\ Cardinality(before) \in Nat
    <2>1. IsFiniteSet(1 .. k - 1) /\ before \subseteq 1 .. k - 1
      BY FS_Interval
    <2> HIDE DEF before
    <2> QED BY <2>1, FS_Subset, FS_CardinalityType
  <1>2. k \in T => after = before \cup {k}
    OBVIOUS
  <1>3. k \notin T => after = before
    OBVIOUS
  <1>4. k \notin before
    OBVIOUS
  <1> HIDE DEF before, after
  <1>5. k \in T => Cardinality(after) = Cardinality(before) + 1
    BY <1>1, <1>2, <1>4, FS_AddElement
  <1> QED BY <1>1, <1>3, <1>5 DEF before, after

LEMMA OpenStep ==
    ASSUME NEW k \in Nat, k >= 1
    PROVE  /\ Open(k) \in Int
           /\ tokens[k].kind = "LeftParen" => Open(k + 1) = Open(k) + 1
           /\ tokens[k].kind = "RightParen" => Open(k + 1) = Open(k) - 1
           /\ tokens[k].kind \notin {"LeftParen", "RightParen"} => Open(k + 1) = Open(k)
  <1> DEFINE L == {j \in Nat : tokens[j].kind = "LeftParen"}
             R == {j \in Nat : tokens[j].kind = "RightParen"}
             B(T, n) == {j \in 1 .. n : j \in T}
  <1>1. /\ {j \in 1 .. k - 1 : tokens[j].kind = "LeftParen"} = B(L, k - 1)
        /\ {j \in 1 .. k - 1 : tokens[j].kind = "RightParen"} = B(R, k - 1)
        /\ {j \in 1 .. k : tokens[j].kind = "LeftParen"} = B(L, k)
        /\ {j \in 1 .. k : tokens[j].kind = "RightParen"} = B(R, k)
    OBVIOUS
  <1>2. k + 1 - 1 = k
    OBVIOUS
  <1>3. /\ Open(k) = Cardinality(B(L, k - 1)) - Cardinality(B(R, k - 1))
        /\ Open(k + 1) = Cardinality(B(L, k)) - Cardinality(B(R, k))
    <2> DEFINE n == k + 1
    <2>1. n - 1 = k
      OBVIOUS
    <2>2. Open(n) = Cardinality({j \in 1 .. n - 1 : tokens[j].kind = "LeftParen"})
                    - Cardinality({j \in 1 .. n - 1 : tokens[j].kind = "RightParen"})
      BY DEF Open
    <2>3. Open(k) = Cardinality(B(L, k - 1)) - Cardinality(B(R, k - 1))
      BY <1>1 DEF Open
    <2> HIDE DEF n
    <2>4. Open(n) = Cardinality(B(L, k)) - Cardinality(B(R, k))
      BY <1>1, <2>1, <2>2
    <2> QED BY <2>3, <2>4 DEF n
  <1>4. /\ k \in L <=> tokens[k].kind = "LeftParen"
        /\ k \in R <=> tokens[k].kind = "RightParen"
    OBVIOUS
  <1>5. \A T : /\ Cardinality(B(T, k - 1)) \in Nat
               /\ Cardinality(B(T, k)) = IF k \in T THEN Cardinality(B(T, k - 1)) + 1
                                                    ELSE Cardinality(B(T, k - 1))
    BY CountOneMore
  <1> HIDE DEF L, R, B
  <1> QED BY <1>3, <1>4, <1>5

LEMMA OpenFirst == Open(1) = 0
  <1>1. /\ {j \in 1 .. 1 - 1 : tokens[j].kind = "LeftParen"} = {}
        /\ {j \in 1 .. 1 - 1 : tokens[j].kind = "RightParen"} = {}
    OBVIOUS
  <1> QED BY <1>1, FS_EmptySet DEF Open

(* How much stack the next token needs.                                    *)
LEMMA NeedsNone ==
    ASSUME NEW k, tokens[k - 1].kind \notin {"ThinArrow", "Return", "LeftParen"},
           tokens[k].kind # "RightParen" \/ tokens[k - 1].kind = "LeftParen" \/ ~(Open(k) > 0)
    PROVE  StackNeeded(k) = 0
  BY DEF StackNeeded

LEMMA NeedsUnder ==
    ASSUME NEW N \in Nat, NEW M \in Nat, NEW k \in Nat, k >= 1, Follows(k - 1, N, M)
    PROVE  (\E j \in 1 .. k - 1 : tokens[j].kind = "LeftCurly") <=> k > 7 + 2 * N
  <1>1. ASSUME NEW j \in 1 .. k - 1, tokens[j].kind = "LeftCurly" PROVE j = 7 + 2 * N
    BY <1>1, KindsAtOnly DEF Follows
  <1>2. ASSUME k > 7 + 2 * N PROVE tokens[7 + 2 * N].kind = "LeftCurly" /\ 7 + 2 * N \in 1 .. k - 1
    BY <1>2, KindsAtIs DEF Follows
  <1> QED BY <1>1, <1>2

-----------------------------------------------------------------------------
(* The invariant of the parser.  While it reads, the tokens so far begin a *)
(* sentence and the stack is that of one of the places below.              *)
Stands(k, r, d) == stack[k].state = Single(r, d)

Plain == \A k \in 1 .. Len(stack) :
            \E r \in GoodRules \cup {Goal}, d \in 0 .. 4 : d <= Len(r.rhs) /\ Stands(k, r, d)

Deepest == 0 .. YYMAXDEPTH - 5

Sound(N, M) ==
    /\ parse_pc = "parsing" /\ IsTokenList(tokens) /\ token_index \in 0 .. Len(tokens)
    /\ IsSeq(stack) /\ Len(stack) \in 1 .. YYMAXDEPTH /\ Plain /\ Stands(1, Goal, 0)
    /\ N \in Deepest /\ M \in Deepest
    /\ Follows(token_index, N, M) /\ Fits(token_index)

(* The nodes that have been built: literals and names are as written.      *)
TypeNode(N) == [kind |-> "FunctionType", return_type |-> LeafExpr(tokens[6 + N])]
BodyNode(N, M) == [kind |-> "Return", value |-> LeafExpr(tokens[9 + 2 * N + M])]
ItemNode(N, M) == [name |-> tokens[2].value.string, type |-> TypeNode(N), body |-> BodyNode(N, M)]

(* What the places stand on.                                               *)
AfterDef == Stands(2, ItemRule, 1)
AfterName == AfterDef /\ Stands(3, ItemRule, 2) /\ stack[3].value = tokens[2].value
InSignature == AfterName /\ Stands(4, SignatureRule, 1)
InType == InSignature /\ Stands(5, ReturnTypeRule, 1)
InItem(N) == AfterName /\ Stands(4, ItemRule, 3) /\ stack[4].value = TypeNode(N)
InBody(N) == InItem(N) /\ Stands(5, BlockRule, 1)
InValue(N) == InBody(N) /\ Stands(6, ReturnRule, 1)

At(i, size, open) == token_index = i /\ Len(stack) = size /\ Open(token_index + 1) = open

(* The two places of an expression.                                        *)
Under(z) == IF z = "type" THEN 5 ELSE 6
Base(z, N) == IF z = "type" THEN 5 ELSE 8 + 2 * N
Nest(z, N, M) == IF z = "type" THEN N ELSE M
ExprToken(z, N, M) == tokens[Base(z, N) + Nest(z, N, M) + 1]

Zone(z, N, M, c) ==
    /\ IF z = "type" THEN M = 0 /\ InType ELSE InValue(N)
    /\ \A k \in Under(z) + 1 .. Under(z) + Nest(z, N, M) - c : Stands(k, ParenRule, 1)

ExprOpen(z, N, M) ==
    /\ Zone(z, N, M, 0)
    /\ At(Base(z, N) + Nest(z, N, M), Under(z) + Nest(z, N, M), Nest(z, N, M))

LeafRead(z, N, M) ==
    LET size == Under(z) + Nest(z, N, M) + 1 IN
    /\ Zone(z, N, M, 0)
    /\ At(Base(z, N) + Nest(z, N, M) + 1, size, Nest(z, N, M))
    /\ stack[size].value = ExprToken(z, N, M).value
    /\ \/ Stands(size, NameRule, 1) /\ ExprToken(z, N, M).kind = "Identifier"
       \/ Stands(size, LiteralRule, 1) /\ ExprToken(z, N, M).kind = "IntLiteral"

(* After c of the parentheses have been closed.                            *)
ExprAt(z, N, M, c, r, d) ==
    LET size == Under(z) + Nest(z, N, M) - c + 1 IN
    /\ Zone(z, N, M, c)
    /\ At(Base(z, N) + Nest(z, N, M) + 1 + c, size, Nest(z, N, M) - c)
    /\ Stands(size, r, d) /\ stack[size].value = LeafExpr(ExprToken(z, N, M))

ExprClosing(z, N, M, c) ==
    LET size == Under(z) + Nest(z, N, M) - c + 2 IN
    /\ Zone(z, N, M, c)
    /\ At(Base(z, N) + Nest(z, N, M) + 2 + c, size, Nest(z, N, M) - c - 1)
    /\ Stands(size - 1, ParenRule, 2) /\ stack[size - 1].value = LeafExpr(ExprToken(z, N, M))
    /\ Stands(size, ParenRule, 3)

InExpr(z, N, M) ==
    \/ ExprOpen(z, N, M)
    \/ LeafRead(z, N, M)
    \/ \E c \in 0 .. Nest(z, N, M) : ExprAt(z, N, M, c, ExprRule, 1)
    \/ \E c \in 0 .. Nest(z, N, M) - 1 :
          ExprAt(z, N, M, c, ParenRule, 2) \/ ExprClosing(z, N, M, c)
    \/ /\ ExprAt(z, N, M, Nest(z, N, M), IF z = "type" THEN TypeRule ELSE ReturnRule,
                                         IF z = "type" THEN 1 ELSE 2)

(* The places before the return type, between the two and after the value. *)
InHead(N, M) ==
    /\ N = 0 /\ M = 0
    /\ \/ At(0, 1, 0)
       \/ At(1, 2, 0) /\ AfterDef
       \/ At(2, 3, 0) /\ AfterName
       \/ At(3, 4, 1) /\ AfterName /\ Stands(4, ParamsRule, 1)
       \/ At(4, 5, 0) /\ AfterName /\ Stands(4, ParamsRule, 1) /\ Stands(5, ParamsRule, 2)
       \/ At(4, 4, 0) /\ InSignature

InMiddle(N, M) ==
    /\ M = 0
    /\ \/ /\ At(6 + 2 * N, 6, 0) /\ InType
          /\ Stands(6, ReturnTypeRule, 2) /\ stack[6].value = LeafExpr(tokens[6 + N])
       \/ /\ At(6 + 2 * N, 5, 0) /\ InSignature
          /\ Stands(5, SignatureRule, 2) /\ stack[5].value = LeafExpr(tokens[6 + N])
       \/ At(6 + 2 * N, 4, 0) /\ InItem(N)
       \/ At(7 + 2 * N, 5, 0) /\ InBody(N)

InTail(N, M) ==
    LET end == 9 + 2 * N + 2 * M IN
    \/ At(end, 6, 0) /\ InBody(N) /\ Stands(6, StmtRule, 1) /\ stack[6].value = BodyNode(N, M)
    \/ At(end, 6, 0) /\ InBody(N) /\ Stands(6, BlockRule, 2) /\ stack[6].value = BodyNode(N, M)
    \/ /\ At(end + 1, 7, 0) /\ InBody(N) /\ Stands(6, BlockRule, 2) /\ Stands(7, BlockRule, 3)
       /\ stack[6].value = BodyNode(N, M)
    \/ /\ At(end + 2, 8, 0) /\ InBody(N) /\ Stands(6, BlockRule, 2) /\ Stands(7, BlockRule, 3)
       /\ Stands(8, BlockRule, 4) /\ stack[6].value = BodyNode(N, M)
    \/ At(end + 2, 5, 0) /\ InItem(N) /\ Stands(5, ItemRule, 4) /\ stack[5].value = BodyNode(N, M)
    \/ At(end + 2, 2, 0) /\ Stands(2, FunctionRule, 1) /\ stack[2].value = ItemNode(N, M)
    \/ At(end + 2, 2, 0) /\ Stands(2, FileRule, 1) /\ stack[2].value = ItemNode(N, M)
    \/ /\ At(end + 2, 2, 0) /\ Stands(2, Goal, 1)
       /\ parse_result = [kind |-> "Success", item |-> ItemNode(N, M)]

Placed(N, M) ==
    Sound(N, M) /\ (\/ InHead(N, M) \/ InExpr("type", N, M) \/ InMiddle(N, M)
                    \/ InExpr("value", N, M) \/ InTail(N, M))

(* The last token that was read is the first wrong one.                    *)
Wrong == /\ IsTokenList(tokens) /\ token_index \in 1 .. Len(tokens)
         /\ \E N, M \in Deepest : Follows(token_index - 1, N, M)
         /\ \A N, M \in Nat : ~Follows(token_index, N, M)

Recovering ==
    /\ parse_pc = "recovering" /\ Wrong
    /\ IsSeq(stack) /\ Len(stack) \in 1 .. YYMAXDEPTH /\ Plain /\ Stands(1, Goal, 0)
    /\ (Len(stack) = YYMAXDEPTH /\ Goto(State, "error") # {}) => ~Fits(token_index)

Reporting == /\ parse_pc = "parsing" /\ Wrong
             /\ \E r \in BadRules : State = Single(r, 1)

Finished ==
    /\ parse_pc = "done" /\ IsTokenList(tokens) /\ token_index \in 0 .. Len(tokens)
    /\ \/ /\ \E N, M \in Deepest : /\ Len(tokens) = 12 + 2 * N + 2 * M
                                   /\ Follows(Len(tokens), N, M)
                                   /\ parse_result = [kind |-> "Success", item |-> ItemNode(N, M)]
          /\ Fits(Len(tokens))
       \/ parse_result.kind = "ParseError" /\ Wrong
       \/ parse_result.kind = "YaccError" /\ ~Fits(token_index)

PInv == Finished \/ Recovering \/ Reporting \/ \E N, M \in Nat : Placed(N, M)

-----------------------------------------------------------------------------
(* What is said of the tokens alone stays so.                              *)
LEMMA SameTokens ==
    ASSUME tokens' = tokens
    PROVE  /\ IsTokenList(tokens)' = IsTokenList(tokens)
           /\ \A k : (Open(k)' = Open(k)) /\ (StackNeeded(k)' = StackNeeded(k))
              /\ (Fits(k)' = Fits(k))
           /\ \A n, N, M : Follows(n, N, M)' = Follows(n, N, M)
           /\ \A N, M : /\ TypeNode(N)' = TypeNode(N) /\ BodyNode(N, M)' = BodyNode(N, M)
                        /\ ItemNode(N, M)' = ItemNode(N, M)
           /\ \A z, N, M : ExprToken(z, N, M)' = ExprToken(z, N, M)
           /\ \A k : (tokens[k])' = tokens[k]
  <1>1. \A k : Open(k)' = Open(k)
    BY DEF Open
  <1>2. \A k : StackNeeded(k)' = StackNeeded(k)
    BY <1>1 DEF StackNeeded
  <1>3. \A k : Fits(k)' = Fits(k)
    BY <1>2 DEF Fits
  <1>4. \A n, N, M : Follows(n, N, M)' = Follows(n, N, M)
    BY DEF Follows
  <1>5. \A N, M : /\ TypeNode(N)' = TypeNode(N) /\ BodyNode(N, M)' = BodyNode(N, M)
                  /\ ItemNode(N, M)' = ItemNode(N, M)
    BY DEF TypeNode, BodyNode, ItemNode
  <1>6. \A z, N, M : ExprToken(z, N, M)' = ExprToken(z, N, M)
    BY DEF ExprToken
  <1>7. IsTokenList(tokens)' = IsTokenList(tokens)
    BY DEF IsTokenList
  <1> QED BY <1>1, <1>2, <1>3, <1>4, <1>5, <1>6, <1>7

LEMMA FollowsNext ==
    ASSUME NEW N \in Nat, NEW M \in Nat, NEW i \in Nat, Follows(i, N, M),
           tokens[i + 1].kind \in KindsAt(N, M, i + 1)
    PROVE  Follows(i + 1, N, M)
  <1>1. \A k \in 1 .. i + 1 : k \in 1 .. i \/ k = i + 1
    OBVIOUS
  <1> QED BY <1>1, Zenon DEF Follows

LEMMA FollowsDeeper ==
    ASSUME NEW N \in Nat, NEW M \in Nat, NEW i \in Nat, Follows(i, N, M)
    PROVE  /\ i <= 5 + N => Follows(i, N + 1, M)
           /\ i <= 8 + 2 * N + M => Follows(i, N, M + 1)
  <1>1. ASSUME i <= 5 + N PROVE Follows(i, N + 1, M)
    <2>1. \A k \in 1 .. i : KindsAt(N + 1, M, k) = KindsAt(N, M, k)
      BY <1>1 DEF KindsAt
    <2> QED BY <2>1, Zenon DEF Follows
  <1>2. ASSUME i <= 8 + 2 * N + M PROVE Follows(i, N, M + 1)
    <2>1. \A k \in 1 .. i : KindsAt(N, M + 1, k) = KindsAt(N, M, k)
      BY <1>2 DEF KindsAt
    <2> QED BY <2>1, Zenon DEF Follows
  <1> QED BY <1>1, <1>2

LEMMA FitsNext ==
    ASSUME NEW i \in Nat, Fits(i), i + 1 >= 6 => StackNeeded(i + 1) <= YYMAXDEPTH
    PROVE  Fits(i + 1)
  <1>1. \A k \in 6 .. i + 1 : k \in 6 .. i \/ (k = i + 1 /\ i + 1 >= 6)
    OBVIOUS
  <1> QED BY <1>1 DEF Fits

LEMMA FitsLess ==
    ASSUME NEW i \in Nat, NEW n \in Nat, i <= n, Fits(n)
    PROVE  Fits(i)
  <1>1. \A k \in 6 .. i : k \in 6 .. n
    OBVIOUS
  <1> QED BY <1>1, Zenon DEF Fits

-----------------------------------------------------------------------------
(* The error token leads to the rules that end the parse.                  *)
LEMMA NoError ==
    ASSUME NEW r \in GoodRules \cup {Goal}, NEW k \in 1 .. Len(r.rhs)
    PROVE  r.rhs[k] # "error"
  <1>1. r \in {FileRule, FunctionRule, StmtRule, ExprRule, NameRule, LiteralRule, TypeRule} =>
           Len(r.rhs) = 1 /\ r.rhs[1] # "error"
    BY Lengths, RightSides
  <1>2. r \in {ReturnRule, ReturnTypeRule, SignatureRule, ParamsRule, Goal} =>
           Len(r.rhs) = 2 /\ r.rhs[1] # "error" /\ r.rhs[2] # "error"
    BY Lengths, RightSides
  <1>3. r = ParenRule =>
           Len(r.rhs) = 3 /\ r.rhs[1] # "error" /\ r.rhs[2] # "error" /\ r.rhs[3] # "error"
    BY Lengths, RightSides
  <1>4. r \in {BlockRule, ItemRule} =>
           /\ Len(r.rhs) = 4 /\ r.rhs[1] # "error" /\ r.rhs[2] # "error" /\ r.rhs[3] # "error"
           /\ r.rhs[4] # "error"
    BY Lengths, RightSides
  <1>5. \/ r \in {FileRule, FunctionRule, StmtRule, ExprRule, NameRule, LiteralRule, TypeRule}
        \/ r \in {ReturnRule, ReturnTypeRule, SignatureRule, ParamsRule, Goal}
        \/ r = ParenRule
        \/ r \in {BlockRule, ItemRule}
    BY DEF GoodRules
  <1> QED BY <1>1, <1>2, <1>3, <1>4, <1>5

LEMMA ErrorOpened ==
    ASSUME NEW X
    PROVE  Beginning(Opened(X), "error") = {} \/ \E q \in BadRules :
               Beginning(Opened(X), "error") = {q}
  <1> DEFINE B == Beginning(Opened(X), "error")
  <1>1. CASE X \in {"file", "item"}
    <2>1. Opened(X) \in {{FileRule, FunctionRule, BadItem, ItemRule},
              {FunctionRule, BadItem, ItemRule}}
      BY <1>1 DEF Opened
    <2>2. B = {BadItem}
      BY <2>1, RightSides DEF Beginning
    <2> QED BY <2>2 DEF BadRules
  <1>2. CASE X = "stmt"
    <2>1. Opened(X) = {StmtRule, BadStmt, ReturnRule}
      BY <1>2 DEF Opened
    <2>2. B = {BadStmt}
      BY <2>1, RightSides DEF Beginning
    <2> QED BY <2>2 DEF BadRules
  <1>3. CASE X \in {"type", "expr"}
    <2>1. Opened(X) \in {{TypeRule, ExprRule, BadExpr, NameRule, LiteralRule, ParenRule},
                         {ExprRule, BadExpr, NameRule, LiteralRule, ParenRule}}
      BY <1>3 DEF Opened
    <2>2. B = {BadExpr}
      BY <2>1, RightSides DEF Beginning
    <2> QED BY <2>2 DEF BadRules
  <1>4. CASE X \notin {"file", "item", "stmt", "type", "expr"}
    <2>1. Opened(X) \subseteq {ItemRule, BlockRule, ReturnRule, NameRule, LiteralRule, ParenRule,
                               ReturnTypeRule, SignatureRule, ParamsRule}
      BY <1>4 DEF Opened
    <2>2. B = {}
      BY <2>1, RightSides DEF Beginning
    <2> QED BY <2>2
  <1> QED BY <1>1, <1>2, <1>3, <1>4

LEMMA GotoError ==
    ASSUME NEW r \in GoodRules \cup {Goal}, NEW d \in 0 .. 4, d <= Len(r.rhs)
    PROVE  \/ Goto(Single(r, d), "error") = {}
           \/ \E q \in BadRules : Goto(Single(r, d), "error") = Single(q, 1)
  <1>1. Len(r.rhs) \in Nat
    BY Lengths DEF GoodRules
  <1>2. CASE d = Len(r.rhs)
    BY <1>1, <1>2, GotoIs
  <1>3. CASE d < Len(r.rhs)
    <2> DEFINE O == Opened(r.rhs[d + 1])
    <2>1. d + 1 \in 1 .. Len(r.rhs) /\ d \in Nat
      BY <1>1, <1>3
    <2>2. "error" # r.rhs[d + 1]
      BY <2>1, NoError
    <2>3. Beginning(O, "error") = {} \/ \E q \in BadRules : Beginning(O, "error") = {q}
      BY ErrorOpened
    <2> DEFINE s == Single(r, d)
    <2>4. Beginning(O, "error") = {} => Goto(s, "error") = {}
      BY <1>1, <1>3, <2>1, <2>2, GotoEach
    <2>5. \A q : Beginning(O, "error") = {q} => Goto(s, "error") = Single(q, 1)
      BY <1>1, <1>3, <2>1, <2>2, GotoEach
    <2> HIDE DEF O, s
    <2>6. Goto(s, "error") = {} \/ \E q \in BadRules : Goto(s, "error") = Single(q, 1)
      BY <2>3, <2>4, <2>5
    <2> QED BY <2>6 DEF s
  <1> QED BY <1>1, <1>2, <1>3

-----------------------------------------------------------------------------
LEMMA PlainPush ==
    ASSUME Plain, Len(stack) \in Nat, NEW m \in 0 .. Len(stack), Len(stack') = m + 1,
           \A k \in 1 .. m : stack'[k] = stack[k],
           NEW r \in GoodRules \cup {Goal}, NEW d \in 0 .. 4, d <= Len(r.rhs),
           stack'[m + 1].state = Single(r, d)
    PROVE  Plain'
  <1>1. ASSUME NEW k \in 1 .. m + 1
        PROVE  \E q \in GoodRules \cup {Goal}, e \in 0 .. 4 :
                  e <= Len(q.rhs) /\ stack'[k].state = Single(q, e)
    <2>1. CASE k = m + 1
      BY <2>1
    <2>2. CASE k \in 1 .. m
      <3>1. k \in 1 .. Len(stack) /\ stack'[k] = stack[k]
        BY <2>2
      <3> QED BY <3>1 DEF Plain, Stands
    <2> QED BY <2>1, <2>2
  <1> QED BY <1>1 DEF Plain, Stands

LEMMA StateIs ==
    ASSUME IsSeq(stack), Len(stack) \in Nat, Len(stack) >= 1
    PROVE  State = stack[Len(stack)].state
  BY SeqEnds DEF State

LEMMA TokenListIs ==
    ASSUME NEW list, IsTokenList(list)
    PROVE  /\ Len(list) \in Nat /\ DOMAIN list = 1 .. Len(list) /\ IsSeq(list)
           /\ \A k \in 1 .. Len(list) : /\ IsToken(list[k])
                                        /\ list[k].kind = "EndOfFile" <=> k = Len(list)
  <1>1. IsSeq(list)
    BY DEF IsTokenList, IsSeq
  <1> QED BY <1>1, SeqDomain DEF IsTokenList

(* The token after those read: wrong, too deep, or shifted.                *)
Takes(k, v) == /\ k # "EndOfFile" /\ Len(stack) < YYMAXDEPTH /\ Goto(State, k) # {}
               /\ stack' = Append(stack, Entry(Goto(State, k), token_index, v))
               /\ parse_pc' = "parsing"

LEMMA ReadOutcome ==
    ASSUME NEW N \in Nat, NEW M \in Nat, Sound(N, M), ParserNext,
           NEW r \in GoodRules \cup {Goal}, NEW d \in Nat, d < Len(r.rhs), State = Single(r, d),
           NEW W, \A X \in W : Goto(State, X) # {},
           \A N2, M2 \in Nat :
              Follows(token_index, N2, M2) => KindsAt(N2, M2, token_index + 1) \subseteq W,
           (/\ Len(stack) = YYMAXDEPTH
            /\ \/ Goto(State, "error") # {}
               \/ Goto(State, tokens[token_index + 1].kind) # {}) =>
              token_index + 1 >= 6 /\ ~(StackNeeded(token_index + 1) <= YYMAXDEPTH)
    PROVE  LET k == tokens[token_index + 1].kind
           IN /\ token_index < Len(tokens) /\ tokens' = tokens /\ token_index' = token_index + 1
              /\ \/ PInv'
                 \/ Takes(k, tokens[token_index + 1].value)
                 \/ /\ k = "EndOfFile" /\ Goto(State, k) # {}
                    /\ parse_result' = parse_result /\ parse_pc' = "done"
  <1>0. PICK i \in Nat : i = token_index
    BY TokenListIs DEF Sound
  <1> DEFINE k == tokens[i + 1].kind
             v == tokens[i + 1].value
  <1>1. Len(r.rhs) \in Nat /\ parse_pc = "parsing"
    BY Lengths DEF GoodRules, Sound
  <1>2. /\ i < Len(tokens) /\ tokens' = tokens /\ token_index' = i + 1 /\ ReadsOne(k, v)
    BY <1>0, <1>1, ReadingStep
  <1>3. /\ i \in Nat /\ Len(tokens) \in Nat /\ i + 1 \in 1 .. Len(tokens) /\ i + 1 - 1 = i
        /\ Len(stack) \in Nat /\ Len(stack) >= 1 /\ Len(stack) <= YYMAXDEPTH /\ YYMAXDEPTH \in Nat
    BY <1>0, <1>2, TokenListIs, FrontendAssumption DEF Sound
  <1>4. ASSUME Len(stack) = YYMAXDEPTH, Goto(State, "error") # {} \/ Goto(State, k) # {}
        PROVE  ~Fits(i + 1)
    BY <1>0, <1>3, <1>4 DEF Fits
  <1>5. /\ IsTokenList(tokens)' /\ token_index' \in 1 .. Len(tokens')
        /\ Fits(token_index)' = Fits(i + 1)
        /\ \A n, N2, M2 : Follows(n, N2, M2)' = Follows(n, N2, M2)
        /\ token_index' - 1 = i
    <2>1. \A n : Fits(n)' = Fits(n)
      BY <1>2, SameTokens
    <2>2. Fits(token_index)' = Fits(i + 1)
      BY <1>2, <2>1
    <2> QED BY <1>2, <1>3, <2>2, SameTokens DEF Sound
  <1>6. CASE Goto(State, k) = {}
    <2>1. k \notin W
      BY <1>6
    <2>2. ASSUME NEW N2 \in Nat, NEW M2 \in Nat, Follows(i + 1, N2, M2) PROVE FALSE
      <3>1. Follows(i, N2, M2) /\ k \in KindsAt(N2, M2, i + 1)
        BY <1>3, <2>2 DEF Follows
      <3> QED BY <1>0, <2>1, <3>1
    <2>3. Wrong'
      <3>1. N \in Deepest /\ M \in Deepest /\ Follows(i, N, M)
        BY <1>0 DEF Sound
      <3>2. Deepest' = Deepest
        BY DEF Deepest
      <3>3. \A N2, M2 \in Nat : ~Follows(i + 1, N2, M2)
        BY <2>2
      <3>4. /\ \E N2, M2 \in Deepest : Follows(i, N2, M2)'
            /\ \A N2, M2 \in Nat : ~Follows(i + 1, N2, M2)'
        BY <1>5, <3>1, <3>3
      <3>5. \E N2, M2 \in Deepest : Follows(token_index - 1, N2, M2)'
        BY <1>2, <1>5, <3>2, <3>4
      <3>6. \A N2, M2 \in Nat : ~Follows(token_index, N2, M2)'
        BY <1>2, <1>5, <3>4
      <3> QED BY <1>2, <1>5, <3>5, <3>6 DEF Wrong
    <2>4. stack' = stack /\ parse_pc' = "recovering"
      BY <1>2, <1>6 DEF ReadsOne
    <2>5. Recovering'
      <3>1. State' = State
        BY <2>4 DEF State
      <3>2. (Len(stack) = YYMAXDEPTH /\ Goto(State, "error") # {}) => ~Fits(token_index)'
        BY <1>4, <1>5
      <3>3. Goto(State, "error")' = Goto(State, "error")
        BY <3>1
      <3> QED BY <2>3, <2>4, <3>2, <3>3 DEF Recovering, Sound, Plain, Stands
    <2> QED BY <1>0, <1>2, <2>5 DEF PInv
  <1>7. CASE Goto(State, k) # {} /\ k # "EndOfFile" /\ Len(stack) = YYMAXDEPTH
    <2>1. parse_pc' = "done" /\ parse_result'.kind = "YaccError"
      BY <1>2, <1>7 DEF ReadsOne
    <2>2. Finished'
      BY <1>2, <1>3, <1>4, <1>5, <1>7, <2>1 DEF Finished
    <2> QED BY <1>0, <1>2, <2>2 DEF PInv
  <1>8. CASE Goto(State, k) # {} /\ k # "EndOfFile" /\ Len(stack) # YYMAXDEPTH
    <2>1. Takes(k, v)
      BY <1>2, <1>3, <1>8 DEF ReadsOne, Takes
    <2> QED BY <1>0, <1>2, <2>1
  <1>9. CASE Goto(State, k) # {} /\ k = "EndOfFile"
    BY <1>0, <1>2, <1>9 DEF ReadsOne
  <1> QED BY <1>0, <1>2, <1>6, <1>7, <1>8, <1>9

-----------------------------------------------------------------------------
(* What a shift and what a reduction leave.                                *)
Grown(m, r, d) ==
    /\ Len(stack') = m + 1
    /\ \A k \in 1 .. m : stack'[k] = stack[k]
    /\ stack'[m + 1].state = Single(r, d)

LEMMA AtNext ==
    ASSUME NEW i, tokens' = tokens, token_index' = i, NEW size, NEW open,
           Len(stack') = size, Open(i + 1) = open
    PROVE  At(i, size, open)'
  <1>1. Open(token_index + 1)' = Open(i + 1)
    <2>1. \A k : Open(k)' = Open(k)
      BY SameTokens
    <2>2. Open(token_index + 1)' = Open(i + 1)'
      BY DEF Open
    <2> QED BY <2>1, <2>2
  <1> QED BY <1>1 DEF At

LEMMA Shifted ==
    ASSUME NEW N \in Nat, NEW M \in Nat, Sound(N, M), NEW i \in Nat, i = token_index,
           i < Len(tokens), tokens' = tokens, token_index' = i + 1,
           Takes(tokens[i + 1].kind, tokens[i + 1].value),
           NEW r \in GoodRules \cup {Goal}, NEW d \in 0 .. 4, d <= Len(r.rhs),
           Goto(State, tokens[i + 1].kind) = Single(r, d),
           NEW N2 \in Deepest, NEW M2 \in Deepest, Follows(i + 1, N2, M2),
           i + 1 >= 6 => StackNeeded(i + 1) <= YYMAXDEPTH
    PROVE  /\ Sound(N2, M2)' /\ Grown(Len(stack), r, d)
           /\ stack'[Len(stack) + 1].value = tokens[i + 1].value
  <1> DEFINE v == tokens[i + 1].value
             e == Entry(Single(r, d), token_index, v)
  <1>1. /\ IsSeq(stack) /\ Len(stack) \in 1 .. YYMAXDEPTH /\ Len(stack) \in Nat
        /\ Len(stack) + 1 <= YYMAXDEPTH /\ stack' = Append(stack, e) /\ parse_pc' = "parsing"
        /\ Plain /\ Stands(1, Goal, 0) /\ IsTokenList(tokens) /\ Fits(i)
        /\ Len(tokens) \in Nat
    BY SeqDomain, FrontendAssumption, TokenListIs DEF Sound, Takes
  <1>2. e.state = Single(r, d) /\ e.value = v
    BY EntryFields
  <1> HIDE DEF e
  <1>3. /\ IsSeq(stack') /\ Len(stack') = Len(stack) + 1 /\ stack'[Len(stack) + 1] = e
        /\ \A k \in 1 .. Len(stack) : stack'[k] = stack[k]
    BY <1>1, SeqAppend
  <1>4. Grown(Len(stack), r, d)
    BY <1>2, <1>3 DEF Grown
  <1>5. Plain'
    <2>1. Len(stack) \in 0 .. Len(stack) /\ stack'[Len(stack) + 1].state = Single(r, d)
      BY <1>1, <1>2, <1>3
    <2> QED BY <1>1, <1>3, <2>1, PlainPush
  <1>6. Fits(i + 1)
    BY <1>1, FitsNext
  <1>7. /\ IsTokenList(tokens)' /\ Fits(i + 1)' /\ Follows(i + 1, N2, M2)'
        /\ Deepest' = Deepest
    BY <1>1, <1>6, SameTokens DEF Deepest
  <1>8. Fits(token_index)' /\ Follows(token_index, N2, M2)'
    BY <1>7 DEF Fits, Follows, StackNeeded, Open
  <1>9. Stands(1, Goal, 0)'
    BY <1>1, <1>3 DEF Stands
  <1>10. Len(stack)' \in 1 .. YYMAXDEPTH /\ token_index' \in 0 .. Len(tokens')
    BY <1>1, <1>3
  <1>11. Sound(N2, M2)'
    BY <1>1, <1>3, <1>5, <1>7, <1>8, <1>9, <1>10 DEF Sound
  <1> QED BY <1>2, <1>3, <1>4, <1>11

(* A place where one token can follow.                                     *)
LEMMA ReadFixed ==
    ASSUME NEW N \in Nat, NEW M \in Nat, Sound(N, M), ParserNext,
           NEW i \in Nat, i = token_index,
           NEW r \in GoodRules \cup {Goal}, NEW d \in Nat, d < Len(r.rhs), State = Single(r, d),
           NEW X, X # "EndOfFile",
           \A N2, M2 \in Nat : Follows(i, N2, M2) => KindsAt(N2, M2, i + 1) = {X},
           \A Y : (Y \notin Nonterminals \cup {"error", X}) => Goto(State, Y) = {},
           NEW r2 \in GoodRules \cup {Goal}, NEW d2 \in 0 .. 4, d2 <= Len(r2.rhs),
           Goto(State, X) = Single(r2, d2),
           Len(stack) = YYMAXDEPTH => Goto(State, "error") = {},
           tokens[i + 1].kind = X =>
              IF Len(stack) = YYMAXDEPTH
              THEN i + 1 >= 6 /\ ~(StackNeeded(i + 1) <= YYMAXDEPTH)
              ELSE i + 1 >= 6 => StackNeeded(i + 1) <= YYMAXDEPTH
    PROVE  \/ PInv'
           \/ /\ tokens[i + 1].kind = X /\ Sound(N, M)' /\ Grown(Len(stack), r2, d2)
              /\ stack'[Len(stack) + 1].value = tokens[i + 1].value
              /\ tokens' = tokens /\ token_index' = i + 1
  <1> DEFINE k == tokens[i + 1].kind
  <1>1. Goto(State, X) # {}
    BY DEF Single
  <1>2. Follows(i, N, M) /\ N \in Deepest /\ M \in Deepest
    BY DEF Sound
  <1>3. /\ i < Len(tokens) /\ k \notin Nonterminals \cup {"error"}
    <2>1. Len(r.rhs) \in Nat /\ parse_pc = "parsing"
      BY Lengths DEF GoodRules, Sound
    <2>2. i < Len(tokens)
      BY <2>1, ReadingStep
    <2>3. IsToken(tokens[i + 1])
      BY <2>2, TokenListIs DEF Sound
    <2> QED BY <2>2, <2>3, NonterminalsAre DEF IsToken
  <1>4. Goto(State, k) # {} => k = X
    BY <1>3
  <1>5. (Len(stack) = YYMAXDEPTH /\ (Goto(State, "error") # {} \/ Goto(State, k) # {})) =>
           i + 1 >= 6 /\ ~(StackNeeded(i + 1) <= YYMAXDEPTH)
    BY <1>4
  <1>6. /\ tokens' = tokens /\ token_index' = i + 1
        /\ \/ PInv' \/ Takes(k, tokens[i + 1].value) \/ (k = "EndOfFile" /\ Goto(State, k) # {})
    <2> DEFINE W == {X}
    <2>1. \A Y \in W : Goto(State, Y) # {}
      BY <1>1
    <2>2. \A N2, M2 \in Nat :
             Follows(token_index, N2, M2) => KindsAt(N2, M2, token_index + 1) \subseteq W
      OBVIOUS
    <2> HIDE DEF W
    <2> QED BY <1>5, <2>1, <2>2, ReadOutcome
  <1>7. ASSUME Takes(k, tokens[i + 1].value)
        PROVE  /\ k = X /\ Sound(N, M)' /\ Grown(Len(stack), r2, d2)
               /\ stack'[Len(stack) + 1].value = tokens[i + 1].value
    <2>1. k = X /\ Len(stack) # YYMAXDEPTH
      BY <1>4, <1>7, FrontendAssumption DEF Takes
    <2>2. Follows(i + 1, N, M)
      BY <1>2, <2>1, FollowsNext
    <2>3. Goto(State, tokens[i + 1].kind) = Single(r2, d2)
      BY <2>1
    <2>4. i + 1 >= 6 => StackNeeded(i + 1) <= YYMAXDEPTH
      BY <2>1
    <2> QED BY <1>2, <1>3, <1>6, <1>7, <2>1, <2>2, <2>3, <2>4, Shifted
  <1> QED BY <1>4, <1>6, <1>7

(* What a rule makes of the n entries above the m-th.                      *)
Made(r, m, n) == Value(r, [k \in 1 .. n |-> stack[m + k].value])

(* Rule r has its n symbols above the m-th entry, and what is before the   *)
(* dot of r2 after the reduction is d2 symbols.                            *)
Reduces(r, n, m, r2, d2) ==
    /\ r \in GoodRules /\ n \in Nat /\ n = Len(r.rhs) /\ n >= 1
    /\ m \in Nat /\ m >= 1
    /\ r2 \in GoodRules \cup {Goal} /\ d2 \in 0 .. 4 /\ d2 <= Len(r2.rhs)
    /\ Goto(stack[m].state, r.lhs) = Single(r2, d2)

LEMMA ReduceFixed ==
    ASSUME NEW N \in Nat, NEW M \in Nat, Sound(N, M), ParserNext,
           NEW i \in Nat, i = token_index,
           NEW r, NEW n, NEW m, NEW r2, NEW d2, Reduces(r, n, m, r2, d2),
           Len(stack) = m + n, State = Single(r, n)
    PROVE  /\ Sound(N, M)' /\ Grown(m, r2, d2) /\ tokens' = tokens /\ token_index' = i
           /\ stack'[m + 1].value = Made(r, m, n)
           /\ r.lhs = "file" => parse_result' = [kind |-> "Success", item |-> Made(r, m, n)]
  <1> USE DEF Reduces
  <1>1. /\ parse_pc = "parsing" /\ IsSeq(stack) /\ n < Len(stack) /\ Len(stack) - n = m
        /\ Len(stack) <= YYMAXDEPTH /\ YYMAXDEPTH \in Nat
    BY FrontendAssumption DEF Sound
  <1> DEFINE value == Value(r, [k \in 1 .. n |-> stack[m + k].value])
  <1>2. /\ tokens' = tokens /\ token_index' = token_index /\ parse_pc' = "parsing"
        /\ IsSeq(stack') /\ Len(stack') = m + 1
        /\ \A k \in 1 .. m : stack'[k] = stack[k]
        /\ stack'[m + 1].state = Goto(stack[m].state, r.lhs)
        /\ stack'[m + 1].value = value
        /\ parse_result' = IF r.lhs = "file" THEN [kind |-> "Success", item |-> value]
                                             ELSE parse_result
    <2> HIDE DEF value
    <2> DEFINE m0 == Len(stack) - n
    <2>1. /\ tokens' = tokens /\ token_index' = token_index /\ parse_pc' = "parsing"
          /\ IsSeq(stack') /\ Len(stack') = m0 + 1
          /\ \A k \in 1 .. m0 : stack'[k] = stack[k]
          /\ stack'[m0 + 1].state = Goto(stack[m0].state, r.lhs)
          /\ stack'[m0 + 1].value = Value(r, [k \in 1 .. n |-> stack[m0 + k].value])
          /\ parse_result' = IF r.lhs = "file"
                             THEN [kind |-> "Success",
                                   item |-> Value(r, [k \in 1 .. n |-> stack[m0 + k].value])]
                             ELSE parse_result
      BY <1>1, ReducingStep
    <2>2. m0 = m
      BY <1>1
    <2> HIDE DEF m0
    <2> QED BY <2>1, <2>2 DEF value
  <1> HIDE DEF value
  <1>3. Grown(m, r2, d2)
    BY <1>2 DEF Grown
  <1>4. Plain'
    <2>1. m \in 0 .. Len(stack) /\ Plain /\ stack'[m + 1].state = Single(r2, d2)
              /\ Len(stack) \in Nat
      BY <1>1, <1>2 DEF Sound
    <2> QED BY <1>2, <2>1, PlainPush
  <1>5. /\ IsTokenList(tokens)' /\ token_index' \in 0 .. Len(tokens')
        /\ Fits(token_index)' /\ Follows(token_index, N, M)'
    <2>1. IsTokenList(tokens) /\ Fits(i) /\ Follows(i, N, M) /\ token_index \in 0 .. Len(tokens)
      BY DEF Sound
    <2>2. Fits(i)' /\ Follows(i, N, M)'
      BY <1>2, <2>1, SameTokens
    <2>3. Fits(token_index)' /\ Follows(token_index, N, M)'
      BY <1>2, <2>2 DEF Fits, Follows, StackNeeded, Open
    <2> QED BY <1>2, <2>1, <2>3, SameTokens
  <1>6. /\ Len(stack') \in 1 .. YYMAXDEPTH /\ Stands(1, Goal, 0)'
        /\ N \in Deepest' /\ M \in Deepest'
    BY <1>1, <1>2 DEF Sound, Stands, Deepest
  <1>7. Sound(N, M)'
    BY <1>2, <1>4, <1>5, <1>6 DEF Sound
  <1> QED BY <1>2, <1>3, <1>7 DEF value, Made

-----------------------------------------------------------------------------
(* What the actions of the rules make.                                     *)
LEMMA OneLong ==
    ASSUME NEW x, NEW s, Len(s) # 1 \/ s[1] # x
    PROVE  s # <<x>>
  OBVIOUS

LEMMA ValueIs ==
    ASSUME NEW v
    PROVE  /\ Value(ItemRule, v) = [name |-> v[2].string, type |-> v[3], body |-> v[4]]
           /\ Value(SignatureRule, v) = [kind |-> "FunctionType", return_type |-> v[2]]
           /\ Value(ReturnRule, v) = [kind |-> "Return", value |-> v[2]]
           /\ Len(v) = 1 => Value(NameRule, v) = [kind |-> "Name", name |-> v[1].string]
           /\ Len(v) = 1 => Value(LiteralRule, v) =
                 [kind |-> "IntLiteral", base |-> v[1].base, digits |-> v[1].digits]
           /\ Value(BlockRule, v) = v[2] /\ Value(ReturnTypeRule, v) = v[2]
           /\ Len(v) = 3 => Value(ParenRule, v) = v[2]
           /\ \A r \in {FileRule, FunctionRule, StmtRule, ExprRule, TypeRule} :
                 Len(v) = 1 => Value(r, v) = v[1]
  <1>1. /\ NameRule.rhs = <<"Identifier">> /\ LiteralRule.rhs = <<"IntLiteral">>
        /\ <<"IntLiteral">> # <<"Identifier">>
    BY DEF NameRule, LiteralRule, Rule
  <1>2. /\ \A r \in {BlockRule, ReturnTypeRule, ParenRule, FileRule, FunctionRule, StmtRule,
                     ExprRule, TypeRule} :
              r.rhs # <<"Identifier">> /\ r.rhs # <<"IntLiteral">>
    BY RightSides
  <1> DEFINE Item == [name |-> v[2].string, type |-> v[3], body |-> v[4]]
             Signature == [kind |-> "FunctionType", return_type |-> v[2]]
             Return == [kind |-> "Return", value |-> v[2]]
             Name == [kind |-> "Name", name |-> v[1].string]
             Literally == [kind |-> "IntLiteral", base |-> v[1].base, digits |-> v[1].digits]
             Inner == Parentheses(v)
             V(r) == CASE r.lhs = "function_item" -> Item
                       [] r.lhs = "function_item_signature" -> Signature
                       [] r.lhs = "return_stmt" -> Return
                       [] r.rhs = <<"Identifier">> -> Name
                       [] r.rhs = <<"IntLiteral">> -> Literally
                       [] r.lhs \in {"block", "return_type"} -> v[2]
                       [] r.lhs = "primary_expr" /\ Len(v) = 3 -> Inner
                       [] OTHER -> v[1]
  <1>3. \A r : Value(r, v) = V(r)
    BY DEF Value
  <1>4. Inner = v[2]
    BY DEF Parentheses
  <1> HIDE DEF Item, Signature, Return, Name, Literally, Inner
  <1>5. ItemRule.rhs # <<"Identifier">> /\ SignatureRule.rhs # <<"Identifier">>
        /\ ItemRule.rhs # <<"IntLiteral">> /\ SignatureRule.rhs # <<"IntLiteral">>
        /\ ReturnRule.rhs # <<"Identifier">> /\ ReturnRule.rhs # <<"IntLiteral">>
    BY RightSides
  <1>6. V(ItemRule) = Item /\ V(SignatureRule) = Signature /\ V(ReturnRule) = Return
    BY <1>5, LeftSides
  <1>7. Len(v) = 1 => V(NameRule) = Name
    BY <1>1, LeftSides
  <1>8. Len(v) = 1 => V(LiteralRule) = Literally
    BY <1>1, LeftSides
  <1>9. /\ V(BlockRule) = v[2] /\ V(ReturnTypeRule) = v[2]
        /\ Len(v) = 3 => V(ParenRule) = v[2]
    BY <1>2, <1>4, LeftSides
  <1>10. ASSUME NEW r \in {FileRule, FunctionRule, StmtRule, ExprRule, TypeRule}, Len(v) = 1
         PROVE  Value(r, v) = v[1]
    <2>1. r.lhs \in {"file", "item", "stmt", "expr", "type"}
      BY LeftSides
    <2> QED BY <1>2, <1>3, <1>10, <2>1
  <1> HIDE DEF V
  <1> QED BY <1>3, <1>6, <1>7, <1>8, <1>9, <1>10
             DEF Item, Signature, Return, Name, Literally

LEMMA EachRule ==
    /\ Len(FileRule.rhs) = 1 /\ FileRule \in GoodRules
    /\ Len(FunctionRule.rhs) = 1 /\ FunctionRule \in GoodRules
    /\ Len(StmtRule.rhs) = 1 /\ StmtRule \in GoodRules
    /\ Len(ExprRule.rhs) = 1 /\ ExprRule \in GoodRules
    /\ Len(NameRule.rhs) = 1 /\ NameRule \in GoodRules
    /\ Len(LiteralRule.rhs) = 1 /\ LiteralRule \in GoodRules
    /\ Len(TypeRule.rhs) = 1 /\ TypeRule \in GoodRules
    /\ Len(ReturnRule.rhs) = 2 /\ ReturnRule \in GoodRules
    /\ Len(ReturnTypeRule.rhs) = 2 /\ ReturnTypeRule \in GoodRules
    /\ Len(SignatureRule.rhs) = 2 /\ SignatureRule \in GoodRules
    /\ Len(ParamsRule.rhs) = 2 /\ ParamsRule \in GoodRules
    /\ Len(ParenRule.rhs) = 3 /\ ParenRule \in GoodRules
    /\ Len(BlockRule.rhs) = 4 /\ BlockRule \in GoodRules
    /\ Len(ItemRule.rhs) = 4 /\ ItemRule \in GoodRules
    /\ Len(Goal.rhs) = 2 /\ Goal \in {Goal}
  BY Lengths DEF GoodRules

LEMMA GoodAre ==
    /\ \A r \in {FileRule, FunctionRule, BlockRule, StmtRule, ReturnRule, ExprRule, NameRule,
                 LiteralRule, ParenRule, TypeRule, ReturnTypeRule, ItemRule, SignatureRule,
                 ParamsRule} : r \in GoodRules
    /\ Deepest \subseteq Nat /\ 0 \in Deepest
  BY FrontendAssumption DEF GoodRules, Deepest

(* The uppermost entry, and the token that is next.                        *)
LEMMA TopIs ==
    ASSUME NEW N, NEW M, Sound(N, M), NEW i, NEW size, NEW open, At(i, size, open)
    PROVE  /\ State = stack[size].state /\ i = token_index /\ Len(stack) = size /\ size \in Nat
           /\ i \in Nat /\ Open(i + 1) = open /\ YYMAXDEPTH \in Nat /\ YYMAXDEPTH >= 8
           /\ size >= 1
  BY StateIs, TokenListIs, FrontendAssumption DEF Sound, At

LEMMA NextOpen ==
    ASSUME NEW i \in Nat
    PROVE  /\ tokens[i + 1].kind = "LeftParen" => Open(i + 2) = Open(i + 1) + 1
           /\ tokens[i + 1].kind = "RightParen" => Open(i + 2) = Open(i + 1) - 1
           /\ tokens[i + 1].kind \notin {"LeftParen", "RightParen"} => Open(i + 2) = Open(i + 1)
  BY OpenStep

LEMMA HeadKinds ==
    ASSUME NEW N \in Nat, NEW M \in Nat
    PROVE  /\ KindsAt(N, M, 0 + 1) = {"Def"} /\ KindsAt(N, M, 1 + 1) = {"Identifier"}
           /\ KindsAt(N, M, 2 + 1) = {"LeftParen"} /\ KindsAt(N, M, 3 + 1) = {"RightParen"}
           /\ KindsAt(N, M, 4 + 1) = {"ThinArrow"}
  BY KindsAtIs

LEMMA HeadPlaced ==
    ASSUME Sound(0, 0)', InHead(0, 0)'
    PROVE  PInv'
  BY DEF Placed, PInv

LEMMA StepAtStart ==
    ASSUME Sound(0, 0), ParserNext, At(0, 1, 0)
    PROVE  PInv'
  <1>1. State = Single(Goal, 0) /\ token_index = 0 /\ Len(stack) = 1 /\ Len(stack) < YYMAXDEPTH
    <2>1. State = stack[1].state /\ token_index = 0 /\ Len(stack) = 1 /\ YYMAXDEPTH >= 8
      BY TopIs
    <2>2. stack[1].state = Single(Goal, 0)
      BY DEF Sound, Stands
    <2> QED BY <2>1, <2>2, FrontendAssumption
  <1>2. 0 < Len(Goal.rhs) /\ 1 <= Len(ItemRule.rhs) /\ ItemRule \in GoodRules
    BY Lengths, GoodAre
  <1> DEFINE Next1 == /\ tokens[0 + 1].kind = "Def" /\ Sound(0, 0)'
                         /\ Grown(Len(stack), ItemRule, 1)
                      /\ stack'[Len(stack) + 1].value = tokens[0 + 1].value
                      /\ tokens' = tokens /\ token_index' = 0 + 1
  <1>3. PInv' \/ Next1
    BY <1>1, <1>2, FromGoal0, HeadKinds, ReadFixed DEF Nonterminals
  <1>4. ASSUME Next1 PROVE PInv'
    <2>1. At(1, 2, 0)'
      BY <1>1, <1>4, TopIs, NextOpen, AtNext DEF Grown
    <2>2. AfterDef'
      BY <1>1, <1>4 DEF Grown, AfterDef, Stands
    <2>3. InHead(0, 0)'
      BY <2>1, <2>2 DEF InHead
    <2> QED BY <1>4, <2>3, HeadPlaced
  <1> QED BY <1>3, <1>4

LEMMA StepAtAfterDef ==
    ASSUME Sound(0, 0), ParserNext, At(1, 2, 0), AfterDef
    PROVE  PInv'
  <1>1. State = Single(ItemRule, 1) /\ token_index = 1 /\ Len(stack) = 2 /\ Len(stack) < YYMAXDEPTH
    <2>1. State = stack[2].state /\ token_index = 1 /\ Len(stack) = 2 /\ YYMAXDEPTH >= 8
      BY TopIs
    <2>2. stack[2].state = Single(ItemRule, 1)
      BY DEF Stands, AfterDef
    <2> QED BY <2>1, <2>2, FrontendAssumption
  <1>2. /\ 1 < Len(ItemRule.rhs) /\ 2 <= Len(ItemRule.rhs)
        /\ ItemRule \in GoodRules /\ ItemRule \in GoodRules
    BY EachRule
  <1> DEFINE Next1 == /\ tokens[1 + 1].kind = "Identifier" /\ Sound(0, 0)'
                         /\ Grown(Len(stack), ItemRule, 2)
                      /\ stack'[Len(stack) + 1].value = tokens[1 + 1].value
                      /\ tokens' = tokens /\ token_index' = 1 + 1
  <1>3. PInv' \/ Next1
    BY <1>1, <1>2, FromItemRule1, HeadKinds, ReadFixed DEF Nonterminals
  <1>4. ASSUME Next1 PROVE PInv'
    <2>1. At(2, 3, 0)'
      BY <1>1, <1>4, TopIs, NextOpen, AtNext DEF Grown
    <2>2. AfterName'
      BY <1>1, <1>4 DEF Grown, Stands, AfterDef, AfterName
    <2>3. InHead(0, 0)'
      BY <2>1, <2>2 DEF InHead
    <2> QED BY <1>4, <2>3, HeadPlaced
  <1> QED BY <1>3, <1>4

LEMMA StepAtAfterName ==
    ASSUME Sound(0, 0), ParserNext, At(2, 3, 0), AfterName
    PROVE  PInv'
  <1>1. State = Single(ItemRule, 2) /\ token_index = 2 /\ Len(stack) = 3 /\ Len(stack) < YYMAXDEPTH
    <2>1. State = stack[3].state /\ token_index = 2 /\ Len(stack) = 3 /\ YYMAXDEPTH >= 8
      BY TopIs
    <2>2. stack[3].state = Single(ItemRule, 2)
      BY DEF Stands, AfterName, AfterDef
    <2> QED BY <2>1, <2>2, FrontendAssumption
  <1>2. /\ 2 < Len(ItemRule.rhs) /\ 1 <= Len(ParamsRule.rhs)
        /\ ItemRule \in GoodRules /\ ParamsRule \in GoodRules
    BY EachRule
  <1> DEFINE Next1 == /\ tokens[2 + 1].kind = "LeftParen" /\ Sound(0, 0)'
                         /\ Grown(Len(stack), ParamsRule, 1)
                      /\ stack'[Len(stack) + 1].value = tokens[2 + 1].value
                      /\ tokens' = tokens /\ token_index' = 2 + 1
  <1>3. PInv' \/ Next1
    BY <1>1, <1>2, FromItemRule2, HeadKinds, ReadFixed DEF Nonterminals
  <1>4. ASSUME Next1 PROVE PInv'
    <2>1. At(3, 4, 1)'
      BY <1>1, <1>4, TopIs, NextOpen, AtNext DEF Grown
    <2>2. AfterName' /\ Stands(4, ParamsRule, 1)'
      BY <1>1, <1>4 DEF Grown, Stands, AfterDef, AfterName
    <2>3. InHead(0, 0)'
      BY <2>1, <2>2 DEF InHead
    <2> QED BY <1>4, <2>3, HeadPlaced
  <1> QED BY <1>3, <1>4

LEMMA StepAtParams ==
    ASSUME Sound(0, 0), ParserNext, At(3, 4, 1), AfterName, Stands(4, ParamsRule, 1)
    PROVE  PInv'
  <1>1. State = Single(ParamsRule, 1) /\ token_index = 3 /\ Len(stack) = 4
            /\ Len(stack) < YYMAXDEPTH
    <2>1. State = stack[4].state /\ token_index = 3 /\ Len(stack) = 4 /\ YYMAXDEPTH >= 8
      BY TopIs
    <2>2. stack[4].state = Single(ParamsRule, 1)
      BY DEF Stands
    <2> QED BY <2>1, <2>2, FrontendAssumption
  <1>2. /\ 1 < Len(ParamsRule.rhs) /\ 2 <= Len(ParamsRule.rhs)
        /\ ParamsRule \in GoodRules /\ ParamsRule \in GoodRules
    BY EachRule
  <1> DEFINE Next1 == /\ tokens[3 + 1].kind = "RightParen" /\ Sound(0, 0)'
                         /\ Grown(Len(stack), ParamsRule, 2)
                      /\ stack'[Len(stack) + 1].value = tokens[3 + 1].value
                      /\ tokens' = tokens /\ token_index' = 3 + 1
  <1>3. PInv' \/ Next1
    BY <1>1, <1>2, FromParamsRule1, HeadKinds, ReadFixed DEF Nonterminals
  <1>4. ASSUME Next1 PROVE PInv'
    <2>1. At(4, 5, 0)'
      BY <1>1, <1>4, TopIs, NextOpen, AtNext DEF Grown
    <2>2. AfterName' /\ Stands(4, ParamsRule, 1)' /\ Stands(5, ParamsRule, 2)'
      BY <1>1, <1>4 DEF Grown, Stands, AfterDef, AfterName
    <2>3. InHead(0, 0)'
      BY <2>1, <2>2 DEF InHead
    <2> QED BY <1>4, <2>3, HeadPlaced
  <1> QED BY <1>3, <1>4

LEMMA StepAtParams2 ==
    ASSUME Sound(0, 0), ParserNext, At(4, 5, 0), AfterName, Stands(4, ParamsRule, 1),
           Stands(5, ParamsRule, 2)
    PROVE  PInv'
  <1>1. State = Single(ParamsRule, 2) /\ token_index = 4 /\ Len(stack) = 3 + 2 /\ Open(4 + 1) = 0
    <2>1. State = stack[5].state /\ token_index = 4 /\ Len(stack) = 5 /\ Open(4 + 1) = 0
      BY TopIs
    <2> QED BY <2>1 DEF Stands
  <1>2. /\ Len(ParamsRule.rhs) = 2 /\ 1 <= Len(SignatureRule.rhs)
        /\ ParamsRule \in GoodRules /\ SignatureRule \in GoodRules
    BY EachRule
  <1>3. Goto(stack[3].state, ParamsRule.lhs) = Single(SignatureRule, 1)
    BY FromItemRule2, LeftSides DEF AfterName, Stands
  <1>4. Sound(0, 0)' /\ Grown(3, SignatureRule, 1) /\ tokens' = tokens /\ token_index' = 4
    <2>1. PICK m \in Nat, n \in Nat, d2 \in 0 .. 4, i \in Nat : m = 3 /\ n = 2 /\ d2 = 1 /\ i = 4
      OBVIOUS
    <2>2. /\ i = token_index /\ n = Len(ParamsRule.rhs) /\ n >= 1 /\ m >= 1 /\ Len(stack) = m + n
          /\ State = Single(ParamsRule, n) /\ d2 <= Len(SignatureRule.rhs)
          /\ Goto(stack[m].state, ParamsRule.lhs) = Single(SignatureRule, d2)
      BY <1>1, <1>2, <1>3, <2>1
    <2>3. SignatureRule \in GoodRules \cup {Goal} /\ ParamsRule \in GoodRules /\ 0 \in Nat
      BY <1>2
    <2>4. Sound(0, 0)' /\ Grown(m, SignatureRule, d2) /\ tokens' = tokens /\ token_index' = i
      <3>1. Reduces(ParamsRule, n, m, SignatureRule, d2)
        BY <2>2, <2>3 DEF Reduces
      <3> QED BY <2>2, <2>3, <3>1, ReduceFixed
    <2> QED BY <2>1, <2>4
  <1>5. At(4, 4, 0)'
    BY <1>1, <1>4, AtNext DEF Grown
  <1>6. InSignature'
    BY <1>4 DEF Grown, Stands, AfterDef, AfterName, InSignature
  <1>7. InHead(0, 0)'
    BY <1>5, <1>6 DEF InHead
  <1> QED BY <1>4, <1>7, HeadPlaced

LEMMA StepAtSignature ==
    ASSUME Sound(0, 0), ParserNext, At(4, 4, 0), InSignature
    PROVE  PInv'
  <1>1. State = Single(SignatureRule, 1) /\ token_index = 4 /\ Len(stack) = 4
            /\ Len(stack) < YYMAXDEPTH
    <2>1. State = stack[4].state /\ token_index = 4 /\ Len(stack) = 4 /\ YYMAXDEPTH >= 8
      BY TopIs
    <2>2. stack[4].state = Single(SignatureRule, 1)
      BY DEF Stands, InSignature
    <2> QED BY <2>1, <2>2, FrontendAssumption
  <1>2. /\ 1 < Len(SignatureRule.rhs) /\ 1 <= Len(ReturnTypeRule.rhs)
        /\ SignatureRule \in GoodRules /\ ReturnTypeRule \in GoodRules
    BY EachRule
  <1> DEFINE Next1 == /\ tokens[4 + 1].kind = "ThinArrow" /\ Sound(0, 0)'
                         /\ Grown(Len(stack), ReturnTypeRule, 1)
                      /\ stack'[Len(stack) + 1].value = tokens[4 + 1].value
                      /\ tokens' = tokens /\ token_index' = 4 + 1
  <1>3. PInv' \/ Next1
    BY <1>1, <1>2, FromSignatureRule1, HeadKinds, ReadFixed DEF Nonterminals
  <1>4. ASSUME Next1 PROVE PInv'
    <2>1. At(5, 5, 0)'
      BY <1>1, <1>4, TopIs, NextOpen, AtNext DEF Grown
    <2>2. InType'
      BY <1>1, <1>4 DEF Grown, Stands, AfterDef, AfterName, InSignature, InType
    <2>3. Zone("type", 0, 0, 0)'
      BY <2>2 DEF Zone, Under, Nest
    <2>4. ExprOpen("type", 0, 0)'
      BY <2>1, <2>3 DEF ExprOpen, Base, Under, Nest
    <2> QED BY <1>4, <2>4 DEF InExpr, Placed, PInv
  <1> QED BY <1>3, <1>4

LEMMA HeadSteps ==
    ASSUME NEW N \in Nat, NEW M \in Nat, Sound(N, M), InHead(N, M), ParserNext
    PROVE  PInv'
  BY StepAtStart, StepAtAfterDef, StepAtAfterName, StepAtParams, StepAtParams2, StepAtSignature
     DEF InHead

-----------------------------------------------------------------------------
(* What a rule makes of the entries that it takes off.                     *)
LEMMA MadeIs ==
    ASSUME NEW m \in Nat
    PROVE  /\ Made(ItemRule, m, 4) = [name |-> stack[m + 2].value.string,
                                      type |-> stack[m + 3].value, body |-> stack[m + 4].value]
           /\ Made(SignatureRule, m, 2) =
                 [kind |-> "FunctionType", return_type |-> stack[m + 2].value]
           /\ Made(ReturnRule, m, 2) = [kind |-> "Return", value |-> stack[m + 2].value]
           /\ Made(NameRule, m, 1) = [kind |-> "Name", name |-> stack[m + 1].value.string]
           /\ Made(LiteralRule, m, 1) = [kind |-> "IntLiteral", base |-> stack[m + 1].value.base,
                                         digits |-> stack[m + 1].value.digits]
           /\ Made(BlockRule, m, 4) = stack[m + 2].value
           /\ Made(ReturnTypeRule, m, 2) = stack[m + 2].value
           /\ Made(ParenRule, m, 3) = stack[m + 2].value
           /\ \A r \in {FileRule, FunctionRule, StmtRule, ExprRule, TypeRule} :
                 Made(r, m, 1) = stack[m + 1].value
  <1> DEFINE v(n) == [k \in 1 .. n |-> stack[m + k].value]
  <1>1. /\ Len(v(1)) = 1 /\ v(1)[1] = stack[m + 1].value
        /\ v(2)[2] = stack[m + 2].value
        /\ Len(v(3)) = 3 /\ v(3)[2] = stack[m + 2].value
        /\ v(4)[2] = stack[m + 2].value /\ v(4)[3] = stack[m + 3].value
        /\ v(4)[4] = stack[m + 4].value
    OBVIOUS
  <1>2. \A r, n : Made(r, m, n) = Value(r, v(n))
    BY DEF Made
  <1> HIDE DEF v
  <1>3. /\ Value(ItemRule, v(4)) = [name |-> v(4)[2].string, type |-> v(4)[3], body |-> v(4)[4]]
        /\ Value(BlockRule, v(4)) = v(4)[2]
    BY ValueIs
  <1>4. /\ Value(SignatureRule, v(2)) = [kind |-> "FunctionType", return_type |-> v(2)[2]]
        /\ Value(ReturnRule, v(2)) = [kind |-> "Return", value |-> v(2)[2]]
        /\ Value(ReturnTypeRule, v(2)) = v(2)[2]
    BY ValueIs
  <1>5. Value(ParenRule, v(3)) = v(3)[2]
    BY <1>1, ValueIs
  <1>6. /\ Value(NameRule, v(1)) = [kind |-> "Name", name |-> v(1)[1].string]
        /\ Value(LiteralRule, v(1)) =
              [kind |-> "IntLiteral", base |-> v(1)[1].base, digits |-> v(1)[1].digits]
        /\ \A r \in {FileRule, FunctionRule, StmtRule, ExprRule, TypeRule} :
              Value(r, v(1)) = v(1)[1]
    BY <1>1, ValueIs
  <1>7. /\ Made(ItemRule, m, 4) = Value(ItemRule, v(4))
           /\ Made(BlockRule, m, 4) = Value(BlockRule, v(4))
        /\ Made(SignatureRule, m, 2) = Value(SignatureRule, v(2))
        /\ Made(ReturnRule, m, 2) = Value(ReturnRule, v(2))
        /\ Made(ReturnTypeRule, m, 2) = Value(ReturnTypeRule, v(2))
        /\ Made(ParenRule, m, 3) = Value(ParenRule, v(3))
        /\ Made(NameRule, m, 1) = Value(NameRule, v(1))
        /\ Made(LiteralRule, m, 1) = Value(LiteralRule, v(1))
        /\ \A r : Made(r, m, 1) = Value(r, v(1))
    BY <1>2
  <1> QED BY <1>1, <1>3, <1>4, <1>5, <1>6, <1>7

(* The step that reduces, where the stack and the next token are known.    *)
ReducesHere(N, M, i, size, open, r, n, m, r2, d2) ==
    /\ N \in Nat /\ M \in Nat /\ Sound(N, M) /\ At(i, size, open)
    /\ Reduces(r, n, m, r2, d2) /\ size = m + n /\ Stands(size, r, n)

LEMMA Reduced ==
    ASSUME ParserNext, NEW N, NEW M, NEW i, NEW size, NEW open,
           NEW r, NEW n, NEW m, NEW r2, NEW d2, ReducesHere(N, M, i, size, open, r, n, m, r2, d2)
    PROVE  /\ Sound(N, M)' /\ Grown(m, r2, d2) /\ tokens' = tokens /\ token_index' = i
           /\ stack'[m + 1].value = Made(r, m, n) /\ At(i, m + 1, open)'
           /\ r.lhs = "file" => parse_result' = [kind |-> "Success", item |-> Made(r, m, n)]
  <1> USE DEF ReducesHere
  <1>1. /\ State = Single(r, n) /\ i = token_index /\ i \in Nat /\ Len(stack) = m + n
        /\ Open(i + 1) = open
    BY TopIs DEF Stands
  <1>2. /\ Sound(N, M)' /\ Grown(m, r2, d2) /\ tokens' = tokens /\ token_index' = i
        /\ stack'[m + 1].value = Made(r, m, n)
        /\ r.lhs = "file" => parse_result' = [kind |-> "Success", item |-> Made(r, m, n)]
    BY <1>1, ReduceFixed
  <1>3. At(i, m + 1, open)'
    BY <1>1, <1>2, AtNext DEF Grown, Reduces
  <1> QED BY <1>2, <1>3

(* X is the one token that can be read with d symbols of rule r before the *)
(* dot, and then d2 symbols of r2 are.                                     *)
Reads(r, d, X, r2, d2) ==
    /\ r \in GoodRules /\ d \in Nat /\ d < Len(r.rhs) /\ X # "EndOfFile"
    /\ \A Y : (Y \notin Nonterminals \cup {"error", X}) => Goto(Single(r, d), Y) = {}
    /\ r2 \in GoodRules /\ d2 \in 0 .. 4 /\ d2 <= Len(r2.rhs)
    /\ Goto(Single(r, d), X) = Single(r2, d2)

LEMMA ReadOne ==
    ASSUME NEW N \in Nat, NEW M \in Nat, Sound(N, M), ParserNext,
           NEW i \in Nat, i = token_index,
           NEW r, NEW d, NEW X, NEW r2, NEW d2, Reads(r, d, X, r2, d2), State = Single(r, d),
           \A N2, M2 \in Nat : Follows(i, N2, M2) => KindsAt(N2, M2, i + 1) = {X},
           Len(stack) = YYMAXDEPTH => Goto(State, "error") = {},
           tokens[i + 1].kind = X =>
              IF Len(stack) = YYMAXDEPTH
              THEN i + 1 >= 6 /\ ~(StackNeeded(i + 1) <= YYMAXDEPTH)
              ELSE i + 1 >= 6 => StackNeeded(i + 1) <= YYMAXDEPTH
    PROVE  \/ PInv'
           \/ /\ tokens[i + 1].kind = X /\ Sound(N, M)' /\ Grown(Len(stack), r2, d2)
              /\ stack'[Len(stack) + 1].value = tokens[i + 1].value
              /\ tokens' = tokens /\ token_index' = i + 1
  <1>1. /\ r \in GoodRules \cup {Goal} /\ d \in Nat /\ d < Len(r.rhs) /\ X # "EndOfFile"
        /\ \A Y : (Y \notin Nonterminals \cup {"error", X}) => Goto(State, Y) = {}
        /\ r2 \in GoodRules \cup {Goal} /\ d2 \in 0 .. 4 /\ d2 <= Len(r2.rhs)
        /\ Goto(State, X) = Single(r2, d2)
    BY DEF Reads
  <1> QED BY <1>1, ReadFixed, SMTT(60)

(* After token i only a token of kind X can come, outside of parentheses.  *)
Only(i, j, X) ==
    /\ j = i + 1 /\ i >= 6 /\ tokens[i].kind \notin {"ThinArrow", "Return", "LeftParen"}
    /\ \A N2, M2 \in Nat : Follows(i, N2, M2) => KindsAt(N2, M2, j) = {X}

(* The step that reads the one token that can come, outside of parentheses. *)
ReadsHere(N, M, i, size, j, X, r, d, r2, d2) ==
    /\ N \in Nat /\ M \in Nat /\ Sound(N, M) /\ At(i, size, 0) /\ size < YYMAXDEPTH
    /\ Only(i, j, X) /\ X \notin {"LeftParen", "RightParen"}
    /\ Reads(r, d, X, r2, d2) /\ Stands(size, r, d)

LEMMA ReadOutside ==
    ASSUME ParserNext, NEW N, NEW M, NEW i, NEW size, NEW j, NEW X,
           NEW r, NEW d, NEW r2, NEW d2, ReadsHere(N, M, i, size, j, X, r, d, r2, d2)
    PROVE  \/ PInv'
           \/ /\ tokens[j].kind = X /\ Sound(N, M)' /\ Grown(size, r2, d2)
              /\ tokens' = tokens /\ token_index' = j /\ At(j, size + 1, 0)'
  <1> USE DEF ReadsHere
  <1>1. /\ State = Single(r, d) /\ i = token_index /\ i \in Nat /\ Len(stack) = size
        /\ Open(j) = 0 /\ j - 1 = i /\ j \in Nat /\ Len(stack) # YYMAXDEPTH /\ YYMAXDEPTH \in Nat
    BY TopIs DEF Stands, Only
  <1> DEFINE Next1 == /\ tokens[i + 1].kind = X /\ Sound(N, M)' /\ Grown(Len(stack), r2, d2)
                      /\ stack'[Len(stack) + 1].value = tokens[i + 1].value
                      /\ tokens' = tokens /\ token_index' = i + 1
  <1>2. tokens[j].kind = X => StackNeeded(j) = 0
    BY <1>1, NeedsNone DEF Reads, Only
  <1>3. PInv' \/ Next1
    <2>1. \A N2, M2 \in Nat : Follows(i, N2, M2) => KindsAt(N2, M2, i + 1) = {X}
      BY <1>1 DEF Only
    <2>2. /\ Len(stack) = YYMAXDEPTH => Goto(State, "error") = {}
          /\ tokens[i + 1].kind = X =>
                IF Len(stack) = YYMAXDEPTH
                THEN i + 1 >= 6 /\ ~(StackNeeded(i + 1) <= YYMAXDEPTH)
                ELSE i + 1 >= 6 => StackNeeded(i + 1) <= YYMAXDEPTH
      BY <1>1, <1>2
    <2>3. State = Single(r, d) /\ i = token_index /\ i \in Nat
      BY <1>1
    <2> QED BY <2>1, <2>2, <2>3, ReadOne
  <1>4. ASSUME Next1 PROVE Open(j + 1) = 0
    BY <1>1, <1>4, OpenStep DEF Reads
  <1>5. ASSUME Next1 PROVE At(j, size + 1, 0)'
    BY <1>1, <1>4, <1>5, AtNext DEF Grown
  <1> QED BY <1>1, <1>3, <1>5

(* The kinds around the places outside of the expressions.                 *)
LEMMA OutsideKinds ==
    ASSUME NEW N \in Nat, NEW M \in Nat, NEW i \in Nat, Follows(i, N, M), NEW j, j = i + 1
    PROVE  /\ i = 6 + 2 * N => /\ tokens[i].kind \in {"Identifier", "IntLiteral", "RightParen"}
                               /\ \A N2, M2 \in Nat : Follows(i, N2, M2) =>
                                     KindsAt(N2, M2, j) = {"LeftCurly"}
           /\ i = 7 + 2 * N => /\ tokens[i].kind = "LeftCurly"
                               /\ \A N2, M2 \in Nat : Follows(i, N2, M2) =>
                                     KindsAt(N2, M2, j) = {"Return"}
           /\ i = 9 + 2 * N + 2 * M =>
                 /\ tokens[i].kind \in {"Identifier", "IntLiteral", "RightParen"}
                 /\ \A N2, M2 \in Nat : Follows(i, N2, M2) => KindsAt(N2, M2, j) = {"Semicolon"}
           /\ i = 10 + 2 * N + 2 * M =>
                 /\ tokens[i].kind = "Semicolon"
                 /\ \A N2, M2 \in Nat : Follows(i, N2, M2) => KindsAt(N2, M2, j) = {"RightCurly"}
           /\ i = 11 + 2 * N + 2 * M =>
                 /\ tokens[i].kind = "RightCurly"
                 /\ \A N2, M2 \in Nat : Follows(i, N2, M2) => KindsAt(N2, M2, j) = {"EndOfFile"}
  <1>1. i >= 1 => tokens[i].kind \in KindsAt(N, M, i)
    BY DEF Follows
  <1>2. i >= 6 + 2 * N => \A N2, M2 \in Nat : Follows(i, N2, M2) => N2 = N
    BY SameType
  <1>3. i >= 9 + 2 * N + M => \A N2, M2 \in Nat : Follows(i, N2, M2) => N2 = N /\ M2 = M
    BY SameValue
  <1>4. i >= 1 =>
           /\ i = 6 + 2 * N => KindsAt(N, M, i) \subseteq {"Identifier", "IntLiteral", "RightParen"}
           /\ i = 7 + 2 * N => KindsAt(N, M, i) = {"LeftCurly"}
           /\ i = 9 + 2 * N + 2 * M =>
                 KindsAt(N, M, i) \subseteq {"Identifier", "IntLiteral", "RightParen"}
           /\ i = 10 + 2 * N + 2 * M => KindsAt(N, M, i) = {"Semicolon"}
           /\ i = 11 + 2 * N + 2 * M => KindsAt(N, M, i) = {"RightCurly"}
    BY DEF KindsAt, LeafKinds
  <1>5. j \in Nat /\ j >= 1
    OBVIOUS
  <1>6. /\ i = 6 + 2 * N => \A M2 \in Nat : KindsAt(N, M2, j) = {"LeftCurly"}
        /\ i = 7 + 2 * N => \A M2 \in Nat : KindsAt(N, M2, j) = {"Return"}
    BY <1>5, KindsAtIs
  <1>7. /\ i = 9 + 2 * N + 2 * M => KindsAt(N, M, j) = {"Semicolon"}
        /\ i = 10 + 2 * N + 2 * M => KindsAt(N, M, j) = {"RightCurly"}
        /\ i = 11 + 2 * N + 2 * M => KindsAt(N, M, j) = {"EndOfFile"}
    BY <1>5, KindsAtIs
  <1>8. /\ i = 6 + 2 * N => i >= 1 /\ i >= 6 + 2 * N
        /\ i = 7 + 2 * N => i >= 1 /\ i >= 6 + 2 * N
        /\ i = 9 + 2 * N + 2 * M => i >= 1 /\ i >= 9 + 2 * N + M
        /\ i = 10 + 2 * N + 2 * M => i >= 1 /\ i >= 9 + 2 * N + M
        /\ i = 11 + 2 * N + 2 * M => i >= 1 /\ i >= 9 + 2 * N + M
    OBVIOUS
  <1>9. CASE i = 6 + 2 * N \/ i = 7 + 2 * N
    BY <1>1, <1>2, <1>4, <1>6, <1>8, <1>9
  <1>10. CASE \/ i = 9 + 2 * N + 2 * M \/ i = 10 + 2 * N + 2 * M \/ i = 11 + 2 * N + 2 * M
    BY <1>1, <1>3, <1>4, <1>7, <1>8, <1>10
  <1> QED BY <1>9, <1>10

LEMMA OnlyOutside ==
    ASSUME NEW N \in Nat, NEW M \in Nat, NEW i \in Nat, Follows(i, N, M), NEW j, j = i + 1
    PROVE  /\ i = 6 + 2 * N => Only(i, j, "LeftCurly")
           /\ i = 7 + 2 * N => Only(i, j, "Return")
           /\ i = 9 + 2 * N + 2 * M => Only(i, j, "Semicolon")
           /\ i = 10 + 2 * N + 2 * M => Only(i, j, "RightCurly")
           /\ i = 11 + 2 * N + 2 * M => tokens[i].kind = "RightCurly" /\ Only(i, j, "EndOfFile")
  <1>1. /\ i = 6 + 2 * N => i >= 6
        /\ i = 7 + 2 * N => i >= 6
        /\ i = 9 + 2 * N + 2 * M => i >= 6
        /\ i = 10 + 2 * N + 2 * M => i >= 6
        /\ i = 11 + 2 * N + 2 * M => i >= 6
    OBVIOUS
  <1>2. ASSUME i = 6 + 2 * N PROVE Only(i, j, "LeftCurly")
    <2>1. /\ tokens[i].kind \in {"Identifier", "IntLiteral", "RightParen"}
          /\ \A N2, M2 \in Nat : Follows(i, N2, M2) => KindsAt(N2, M2, j) = {"LeftCurly"}
      BY <1>2, OutsideKinds
    <2> QED BY <1>1, <1>2, <2>1 DEF Only
  <1>3. ASSUME i = 7 + 2 * N PROVE Only(i, j, "Return")
    <2>1. /\ tokens[i].kind = "LeftCurly"
          /\ \A N2, M2 \in Nat : Follows(i, N2, M2) => KindsAt(N2, M2, j) = {"Return"}
      BY <1>3, OutsideKinds
    <2> QED BY <1>1, <1>3, <2>1 DEF Only
  <1>4. ASSUME i = 9 + 2 * N + 2 * M PROVE Only(i, j, "Semicolon")
    <2>1. /\ tokens[i].kind \in {"Identifier", "IntLiteral", "RightParen"}
          /\ \A N2, M2 \in Nat : Follows(i, N2, M2) => KindsAt(N2, M2, j) = {"Semicolon"}
      BY <1>4, OutsideKinds
    <2> QED BY <1>1, <1>4, <2>1 DEF Only
  <1>5. ASSUME i = 10 + 2 * N + 2 * M PROVE Only(i, j, "RightCurly")
    <2>1. /\ tokens[i].kind = "Semicolon"
          /\ \A N2, M2 \in Nat : Follows(i, N2, M2) => KindsAt(N2, M2, j) = {"RightCurly"}
      BY <1>5, OutsideKinds
    <2> QED BY <1>1, <1>5, <2>1 DEF Only
  <1>6. ASSUME i = 11 + 2 * N + 2 * M
        PROVE  tokens[i].kind = "RightCurly" /\ Only(i, j, "EndOfFile")
    <2>1. /\ tokens[i].kind = "RightCurly"
          /\ \A N2, M2 \in Nat : Follows(i, N2, M2) => KindsAt(N2, M2, j) = {"EndOfFile"}
      BY <1>6, OutsideKinds
    <2> QED BY <1>1, <1>6, <2>1 DEF Only
  <1> QED BY <1>2, <1>3, <1>4, <1>5, <1>6

LEMMA StepReturnType ==
    ASSUME NEW N \in Nat, Sound(N, 0), ParserNext,
           At(6 + 2 * N, 6, 0), InType, Stands(6, ReturnTypeRule, 2),
               stack[6].value = LeafExpr(tokens[6 + N])
    PROVE  PInv'
  <1>1. /\ 2 = Len(ReturnTypeRule.rhs) /\ 2 <= Len(SignatureRule.rhs)
           /\ ReturnTypeRule \in GoodRules
        /\ SignatureRule \in GoodRules \cup {Goal}
    BY EachRule
  <1>2. Goto(stack[4].state, ReturnTypeRule.lhs) = Single(SignatureRule, 2)
    BY FromSignatureRule1, LeftSides
       DEF Sound, Stands, AfterDef, AfterName, InSignature, InType, InItem, InBody, InValue
  <1>3. PICK i, size, m \in Nat, n \in Nat, d2 \in 0 .. 4 :
           i = 6 + 2 * N /\ size = 6 /\ m = 4 /\ n = 2 /\ d2 = 2
    OBVIOUS
  <1>4. /\ At(i, size, 0) /\ Stands(size, ReturnTypeRule, n) /\ n = Len(ReturnTypeRule.rhs)
           /\ n >= 1 /\ m >= 1
        /\ size = m + n /\ d2 <= Len(SignatureRule.rhs) /\ 0 \in Nat
        /\ Goto(stack[m].state, ReturnTypeRule.lhs) = Single(SignatureRule, d2)
    BY <1>1, <1>2, <1>3
  <1>5. /\ Sound(N, 0)' /\ Grown(m, SignatureRule, d2) /\ tokens' = tokens
        /\ stack'[m + 1].value = Made(ReturnTypeRule, m, n) /\ At(i, m + 1, 0)'
        /\ ReturnTypeRule.lhs = "file"
           => parse_result' = [kind |-> "Success", item |-> Made(ReturnTypeRule, m, n)]
    <2>1. ReducesHere(N, 0, i, size, 0, ReturnTypeRule, n, m, SignatureRule, d2)
      BY <1>1, <1>4 DEF ReducesHere, Reduces
    <2> QED BY <2>1, Reduced
  <1>6. Made(ReturnTypeRule, 4, 2) = stack[4 + 2].value
    BY MadeIs
  <1>7. stack[4 + 2].value = LeafExpr(tokens[6 + N])
    BY DEF TypeNode, BodyNode, ItemNode, Stands, AfterDef, AfterName, InSignature, InType, InItem,
       InBody, InValue
  <1>8. At(6 + 2 * N, 5, 0)' /\ stack'[5].value = LeafExpr(tokens[6 + N])
        /\ stack'[5].state = Single(SignatureRule, 2)
        /\ \A k \in 1 .. 4 : stack'[k] = stack[k]
    BY <1>3, <1>5, <1>6, <1>7 DEF Grown, At
  <1>9. /\ TypeNode(N)' = TypeNode(N) /\ BodyNode(N, 0)' = BodyNode(N, 0)
        /\ ItemNode(N, 0)' = ItemNode(N, 0) /\ (tokens[6 + N])' = tokens[6 + N]
        /\ (tokens[2])' = tokens[2]
    BY <1>5, SameTokens
  <1>10. InSignature' /\ Stands(5, SignatureRule, 2)'
    BY <1>5, <1>8, <1>9
       DEF Stands, AfterDef, AfterName, InSignature, InType, InItem, InBody, InValue
  <1>11. InMiddle(N, 0)'
    BY <1>3, <1>8, <1>9, <1>10 DEF InMiddle
  <1> QED BY <1>5, <1>11 DEF Placed, PInv

LEMMA StepSignature ==
    ASSUME NEW N \in Nat, Sound(N, 0), ParserNext,
           At(6 + 2 * N, 5, 0), InSignature, Stands(5, SignatureRule, 2),
               stack[5].value = LeafExpr(tokens[6 + N])
    PROVE  PInv'
  <1>1. /\ 2 = Len(SignatureRule.rhs) /\ 3 <= Len(ItemRule.rhs) /\ SignatureRule \in GoodRules
        /\ ItemRule \in GoodRules \cup {Goal}
    BY EachRule
  <1>2. Goto(stack[3].state, SignatureRule.lhs) = Single(ItemRule, 3)
    BY FromItemRule2, LeftSides
       DEF Sound, Stands, AfterDef, AfterName, InSignature, InType, InItem, InBody, InValue
  <1>3. PICK i, size, m \in Nat, n \in Nat, d2 \in 0 .. 4 :
           i = 6 + 2 * N /\ size = 5 /\ m = 3 /\ n = 2 /\ d2 = 3
    OBVIOUS
  <1>4. /\ At(i, size, 0) /\ Stands(size, SignatureRule, n) /\ n = Len(SignatureRule.rhs)
           /\ n >= 1 /\ m >= 1
        /\ size = m + n /\ d2 <= Len(ItemRule.rhs) /\ 0 \in Nat
        /\ Goto(stack[m].state, SignatureRule.lhs) = Single(ItemRule, d2)
    BY <1>1, <1>2, <1>3
  <1>5. /\ Sound(N, 0)' /\ Grown(m, ItemRule, d2) /\ tokens' = tokens
        /\ stack'[m + 1].value = Made(SignatureRule, m, n) /\ At(i, m + 1, 0)'
        /\ SignatureRule.lhs = "file"
           => parse_result' = [kind |-> "Success", item |-> Made(SignatureRule, m, n)]
    <2>1. ReducesHere(N, 0, i, size, 0, SignatureRule, n, m, ItemRule, d2)
      BY <1>1, <1>4 DEF ReducesHere, Reduces
    <2> QED BY <2>1, Reduced
  <1>6. Made(SignatureRule, 3, 2) = [kind |-> "FunctionType", return_type |-> stack[3 + 2].value]
    BY MadeIs
  <1>7. [kind |-> "FunctionType", return_type |-> stack[3 + 2].value] = TypeNode(N)
    BY DEF TypeNode, BodyNode, ItemNode, Stands, AfterDef, AfterName, InSignature, InType, InItem,
       InBody, InValue
  <1>8. At(6 + 2 * N, 4, 0)' /\ stack'[4].value = TypeNode(N)
        /\ stack'[4].state = Single(ItemRule, 3)
        /\ \A k \in 1 .. 3 : stack'[k] = stack[k]
    BY <1>3, <1>5, <1>6, <1>7 DEF Grown, At
  <1>9. /\ TypeNode(N)' = TypeNode(N) /\ BodyNode(N, 0)' = BodyNode(N, 0)
        /\ ItemNode(N, 0)' = ItemNode(N, 0) /\ (tokens[6 + N])' = tokens[6 + N]
        /\ (tokens[2])' = tokens[2]
    BY <1>5, SameTokens
  <1>10. InItem(N)'
    BY <1>5, <1>8, <1>9
       DEF Stands, AfterDef, AfterName, InSignature, InType, InItem, InBody, InValue
  <1>11. InMiddle(N, 0)'
    BY <1>3, <1>8, <1>9, <1>10 DEF InMiddle
  <1> QED BY <1>5, <1>11 DEF Placed, PInv

LEMMA StepBlock ==
    ASSUME NEW N \in Nat, Sound(N, 0), ParserNext,
           At(6 + 2 * N, 4, 0), InItem(N)
    PROVE  PInv'
  <1>1. /\ 3 < Len(ItemRule.rhs) /\ 1 <= Len(BlockRule.rhs) /\ ItemRule \in GoodRules
           /\ BlockRule \in GoodRules
    BY EachRule
  <1>2. /\ \A Y : (Y \notin Nonterminals \cup {"error", "LeftCurly"})
           => Goto(Single(ItemRule, 3), Y) = {}
        /\ Goto(Single(ItemRule, 3), "LeftCurly") = Single(BlockRule, 1)
    BY FromItemRule3 DEF Nonterminals
  <1>3. PICK i \in Nat, j \in Nat, size, d \in Nat, d2 \in 0 .. 4 :
           /\ i = 6 + 2 * N /\ j = 7 + 2 * N /\ size = 4 /\ d = 3 /\ d2 = 1
    OBVIOUS
  <1>4. Follows(i, N, 0) /\ At(i, size, 0) /\ Stands(size, ItemRule, d)
    BY <1>3, TopIs
       DEF Sound, Stands, AfterDef, AfterName, InSignature, InType, InItem, InBody, InValue
  <1>5. Only(i, j, "LeftCurly")
    <2>1. j = i + 1
      BY <1>3
    <2> QED BY <1>3, <1>4, <2>1, OnlyOutside
  <1> DEFINE Next1 == /\ Sound(N, 0)' /\ Grown(size, BlockRule, d2) /\ tokens' = tokens
                      /\ At(j, size + 1, 0)'
  <1>6. PInv' \/ Next1
    <2>1. /\ size < YYMAXDEPTH /\ d < Len(ItemRule.rhs) /\ 0 \in Nat
          /\ d2 <= Len(BlockRule.rhs)
      BY <1>1, <1>3, FrontendAssumption
    <2>2. /\ \A Y : (Y \notin Nonterminals \cup {"error", "LeftCurly"})
             => Goto(Single(ItemRule, d), Y) = {}
          /\ Goto(Single(ItemRule, d), "LeftCurly") = Single(BlockRule, d2)
      BY <1>2, <1>3
    <2> DEFINE X == "LeftCurly"
    <2>3. X # "EndOfFile" /\ X \notin {"LeftParen", "RightParen"}
      OBVIOUS
    <2>4. Reads(ItemRule, d, X, BlockRule, d2)
      BY <1>1, <2>1, <2>2, <2>3 DEF Reads
    <2>5. ReadsHere(N, 0, i, size, j, X, ItemRule, d, BlockRule, d2)
      BY <1>4, <1>5, <2>1, <2>3, <2>4 DEF ReadsHere
    <2> QED BY <2>5, ReadOutside
  <1>7. ASSUME Next1 PROVE PInv'
    <2>1. At(7 + 2 * N, 5, 0)' /\ stack'[5].state = Single(BlockRule, 1)
          /\ \A k \in 1 .. 4 : stack'[k] = stack[k]
      BY <1>3, <1>7 DEF Grown
    <2>2. /\ TypeNode(N)' = TypeNode(N) /\ BodyNode(N, 0)' = BodyNode(N, 0)
          /\ (tokens[2])' = tokens[2]
      BY <1>7, SameTokens
    <2>3. InBody(N)'
      BY <2>1, <2>2 DEF Stands, AfterDef, AfterName, InSignature, InType, InItem, InBody, InValue
    <2>4. InMiddle(N, 0)'
      BY <2>1, <2>2, <2>3 DEF InMiddle
    <2> QED BY <1>7, <2>4 DEF Placed, PInv
  <1> QED BY <1>6, <1>7

LEMMA StepReturn ==
    ASSUME NEW N \in Nat, Sound(N, 0), ParserNext,
           At(7 + 2 * N, 5, 0), InBody(N)
    PROVE  PInv'
  <1>1. /\ 1 < Len(BlockRule.rhs) /\ 1 <= Len(ReturnRule.rhs) /\ BlockRule \in GoodRules
           /\ ReturnRule \in GoodRules
    BY EachRule
  <1>2. /\ \A Y : (Y \notin Nonterminals \cup {"error", "Return"})
           => Goto(Single(BlockRule, 1), Y) = {}
        /\ Goto(Single(BlockRule, 1), "Return") = Single(ReturnRule, 1)
    BY FromBlockRule1 DEF Nonterminals
  <1>3. PICK i \in Nat, j \in Nat, size, d \in Nat, d2 \in 0 .. 4 :
           /\ i = 7 + 2 * N /\ j = 8 + 2 * N /\ size = 5 /\ d = 1 /\ d2 = 1
    OBVIOUS
  <1>4. Follows(i, N, 0) /\ At(i, size, 0) /\ Stands(size, BlockRule, d)
    BY <1>3, TopIs
       DEF Sound, Stands, AfterDef, AfterName, InSignature, InType, InItem, InBody, InValue
  <1>5. Only(i, j, "Return")
    <2>1. j = i + 1
      BY <1>3
    <2> QED BY <1>3, <1>4, <2>1, OnlyOutside
  <1> DEFINE Next1 == /\ Sound(N, 0)' /\ Grown(size, ReturnRule, d2) /\ tokens' = tokens
                      /\ At(j, size + 1, 0)'
  <1>6. PInv' \/ Next1
    <2>1. /\ size < YYMAXDEPTH /\ d < Len(BlockRule.rhs) /\ 0 \in Nat
          /\ d2 <= Len(ReturnRule.rhs)
      BY <1>1, <1>3, FrontendAssumption
    <2>2. /\ \A Y : (Y \notin Nonterminals \cup {"error", "Return"})
             => Goto(Single(BlockRule, d), Y) = {}
          /\ Goto(Single(BlockRule, d), "Return") = Single(ReturnRule, d2)
      BY <1>2, <1>3
    <2> DEFINE X == "Return"
    <2>3. X # "EndOfFile" /\ X \notin {"LeftParen", "RightParen"}
      OBVIOUS
    <2>4. Reads(BlockRule, d, X, ReturnRule, d2)
      BY <1>1, <2>1, <2>2, <2>3 DEF Reads
    <2>5. ReadsHere(N, 0, i, size, j, X, BlockRule, d, ReturnRule, d2)
      BY <1>4, <1>5, <2>1, <2>3, <2>4 DEF ReadsHere
    <2> QED BY <2>5, ReadOutside
  <1>7. ASSUME Next1 PROVE PInv'
    <2>1. At(8 + 2 * N, 6, 0)' /\ stack'[6].state = Single(ReturnRule, 1)
          /\ \A k \in 1 .. 5 : stack'[k] = stack[k]
      BY <1>3, <1>7 DEF Grown
    <2>2. /\ TypeNode(N)' = TypeNode(N) /\ BodyNode(N, 0)' = BodyNode(N, 0)
          /\ (tokens[2])' = tokens[2]
      BY <1>7, SameTokens
    <2>3. InValue(N)'
      BY <2>1, <2>2 DEF Stands, AfterDef, AfterName, InSignature, InType, InItem, InBody, InValue
    <2>4. ExprOpen("value", N, 0)'
      BY <2>1, <2>2, <2>3 DEF ExprOpen, Zone, Base, Under, Nest
    <2> QED BY <1>7, <2>4 DEF InExpr, Placed, PInv
  <1> QED BY <1>6, <1>7

LEMMA MiddleSteps ==
    ASSUME NEW N \in Nat, NEW M \in Nat, Sound(N, M), InMiddle(N, M), ParserNext
    PROVE  PInv'
  BY StepReturnType, StepSignature, StepBlock, StepReturn DEF InMiddle

LEMMA StepStmt ==
    ASSUME NEW N \in Nat, NEW M \in Nat, Sound(N, M), ParserNext,
           At(9 + 2 * N + 2 * M, 6, 0), InBody(N), Stands(6, StmtRule, 1),
               stack[6].value = BodyNode(N, M)
    PROVE  PInv'
  <1>1. /\ 1 = Len(StmtRule.rhs) /\ 2 <= Len(BlockRule.rhs) /\ StmtRule \in GoodRules
        /\ BlockRule \in GoodRules \cup {Goal}
    BY EachRule
  <1>2. Goto(stack[5].state, StmtRule.lhs) = Single(BlockRule, 2)
    BY FromBlockRule1, LeftSides
       DEF Sound, Stands, AfterDef, AfterName, InSignature, InType, InItem, InBody, InValue
  <1>3. PICK i, size, m \in Nat, n \in Nat, d2 \in 0 .. 4 :
           i = 9 + 2 * N + 2 * M /\ size = 6 /\ m = 5 /\ n = 1 /\ d2 = 2
    OBVIOUS
  <1>4. /\ At(i, size, 0) /\ Stands(size, StmtRule, n) /\ n = Len(StmtRule.rhs) /\ n >= 1 /\ m >= 1
        /\ size = m + n /\ d2 <= Len(BlockRule.rhs) /\ 0 \in Nat
        /\ Goto(stack[m].state, StmtRule.lhs) = Single(BlockRule, d2)
    BY <1>1, <1>2, <1>3
  <1>5. /\ Sound(N, M)' /\ Grown(m, BlockRule, d2) /\ tokens' = tokens
        /\ stack'[m + 1].value = Made(StmtRule, m, n) /\ At(i, m + 1, 0)'
        /\ StmtRule.lhs = "file"
           => parse_result' = [kind |-> "Success", item |-> Made(StmtRule, m, n)]
    <2>1. ReducesHere(N, M, i, size, 0, StmtRule, n, m, BlockRule, d2)
      BY <1>1, <1>4 DEF ReducesHere, Reduces
    <2> QED BY <2>1, Reduced
  <1>6. Made(StmtRule, 5, 1) = stack[5 + 1].value
    BY MadeIs
  <1>7. stack[5 + 1].value = BodyNode(N, M)
    BY DEF TypeNode, BodyNode, ItemNode, Stands, AfterDef, AfterName, InSignature, InType, InItem,
       InBody, InValue
  <1>8. At(9 + 2 * N + 2 * M, 6, 0)' /\ stack'[6].value = BodyNode(N, M)
        /\ stack'[6].state = Single(BlockRule, 2)
        /\ \A k \in 1 .. 5 : stack'[k] = stack[k]
    BY <1>3, <1>5, <1>6, <1>7 DEF Grown, At
  <1>9. /\ TypeNode(N)' = TypeNode(N) /\ BodyNode(N, M)' = BodyNode(N, M)
        /\ ItemNode(N, M)' = ItemNode(N, M) /\ (tokens[6 + N])' = tokens[6 + N]
        /\ (tokens[2])' = tokens[2]
    BY <1>5, SameTokens
  <1>10. InBody(N)' /\ Stands(6, BlockRule, 2)'
    BY <1>5, <1>8, <1>9
       DEF Stands, AfterDef, AfterName, InSignature, InType, InItem, InBody, InValue
  <1>11. InTail(N, M)'
    BY <1>3, <1>8, <1>9, <1>10 DEF InTail
  <1> QED BY <1>5, <1>11 DEF Placed, PInv

LEMMA StepSemicolon ==
    ASSUME NEW N \in Nat, NEW M \in Nat, Sound(N, M), ParserNext,
           At(9 + 2 * N + 2 * M, 6, 0), InBody(N), Stands(6, BlockRule, 2),
               stack[6].value = BodyNode(N, M)
    PROVE  PInv'
  <1>1. /\ 2 < Len(BlockRule.rhs) /\ 3 <= Len(BlockRule.rhs) /\ BlockRule \in GoodRules
           /\ BlockRule \in GoodRules
    BY EachRule
  <1>2. /\ \A Y : (Y \notin Nonterminals \cup {"error", "Semicolon"})
           => Goto(Single(BlockRule, 2), Y) = {}
        /\ Goto(Single(BlockRule, 2), "Semicolon") = Single(BlockRule, 3)
    BY FromBlockRule2 DEF Nonterminals
  <1>3. PICK i \in Nat, j \in Nat, size, d \in Nat, d2 \in 0 .. 4 :
           /\ i = 9 + 2 * N + 2 * M /\ j = 10 + 2 * N + 2 * M /\ size = 6 /\ d = 2 /\ d2 = 3
    OBVIOUS
  <1>4. Follows(i, N, M) /\ At(i, size, 0) /\ Stands(size, BlockRule, d)
    BY <1>3, TopIs
       DEF Sound, Stands, AfterDef, AfterName, InSignature, InType, InItem, InBody, InValue
  <1>5. Only(i, j, "Semicolon")
    <2>1. j = i + 1
      BY <1>3
    <2> QED BY <1>3, <1>4, <2>1, OnlyOutside
  <1> DEFINE Next1 == /\ Sound(N, M)' /\ Grown(size, BlockRule, d2) /\ tokens' = tokens
                      /\ At(j, size + 1, 0)'
  <1>6. PInv' \/ Next1
    <2>1. /\ size < YYMAXDEPTH /\ d < Len(BlockRule.rhs) /\ 0 \in Nat
          /\ d2 <= Len(BlockRule.rhs)
      BY <1>1, <1>3, FrontendAssumption
    <2>2. /\ \A Y : (Y \notin Nonterminals \cup {"error", "Semicolon"})
             => Goto(Single(BlockRule, d), Y) = {}
          /\ Goto(Single(BlockRule, d), "Semicolon") = Single(BlockRule, d2)
      BY <1>2, <1>3
    <2> DEFINE X == "Semicolon"
    <2>3. X # "EndOfFile" /\ X \notin {"LeftParen", "RightParen"}
      OBVIOUS
    <2>4. Reads(BlockRule, d, X, BlockRule, d2)
      BY <1>1, <2>1, <2>2, <2>3 DEF Reads
    <2>5. ReadsHere(N, M, i, size, j, X, BlockRule, d, BlockRule, d2)
      BY <1>4, <1>5, <2>1, <2>3, <2>4 DEF ReadsHere
    <2> QED BY <2>5, ReadOutside
  <1>7. ASSUME Next1 PROVE PInv'
    <2>1. At(10 + 2 * N + 2 * M, 7, 0)' /\ stack'[7].state = Single(BlockRule, 3)
          /\ \A k \in 1 .. 6 : stack'[k] = stack[k]
      BY <1>3, <1>7 DEF Grown
    <2>2. /\ TypeNode(N)' = TypeNode(N) /\ BodyNode(N, M)' = BodyNode(N, M)
          /\ (tokens[2])' = tokens[2]
      BY <1>7, SameTokens
    <2>3. /\ InBody(N)' /\ Stands(6, BlockRule, 2)' /\ Stands(7, BlockRule, 3)'
          /\ (stack[6].value = BodyNode(N, M))'
      BY <2>1, <2>2 DEF Stands, AfterDef, AfterName, InSignature, InType, InItem, InBody, InValue
    <2>4. InTail(N, M)'
      BY <2>1, <2>2, <2>3 DEF InTail
    <2> QED BY <1>7, <2>4 DEF Placed, PInv
  <1> QED BY <1>6, <1>7

LEMMA StepRightCurly ==
    ASSUME NEW N \in Nat, NEW M \in Nat, Sound(N, M), ParserNext,
           At(10 + 2 * N + 2 * M, 7, 0), InBody(N), Stands(6, BlockRule, 2),
               Stands(7, BlockRule, 3), stack[6].value = BodyNode(N, M)
    PROVE  PInv'
  <1>1. /\ 3 < Len(BlockRule.rhs) /\ 4 <= Len(BlockRule.rhs) /\ BlockRule \in GoodRules
           /\ BlockRule \in GoodRules
    BY EachRule
  <1>2. /\ \A Y : (Y \notin Nonterminals \cup {"error", "RightCurly"})
           => Goto(Single(BlockRule, 3), Y) = {}
        /\ Goto(Single(BlockRule, 3), "RightCurly") = Single(BlockRule, 4)
    BY FromBlockRule3 DEF Nonterminals
  <1>3. PICK i \in Nat, j \in Nat, size, d \in Nat, d2 \in 0 .. 4 :
           /\ i = 10 + 2 * N + 2 * M /\ j = 11 + 2 * N + 2 * M /\ size = 7 /\ d = 3 /\ d2 = 4
    OBVIOUS
  <1>4. Follows(i, N, M) /\ At(i, size, 0) /\ Stands(size, BlockRule, d)
    BY <1>3, TopIs
       DEF Sound, Stands, AfterDef, AfterName, InSignature, InType, InItem, InBody, InValue
  <1>5. Only(i, j, "RightCurly")
    <2>1. j = i + 1
      BY <1>3
    <2> QED BY <1>3, <1>4, <2>1, OnlyOutside
  <1> DEFINE Next1 == /\ Sound(N, M)' /\ Grown(size, BlockRule, d2) /\ tokens' = tokens
                      /\ At(j, size + 1, 0)'
  <1>6. PInv' \/ Next1
    <2>1. /\ size < YYMAXDEPTH /\ d < Len(BlockRule.rhs) /\ 0 \in Nat
          /\ d2 <= Len(BlockRule.rhs)
      BY <1>1, <1>3, FrontendAssumption
    <2>2. /\ \A Y : (Y \notin Nonterminals \cup {"error", "RightCurly"})
             => Goto(Single(BlockRule, d), Y) = {}
          /\ Goto(Single(BlockRule, d), "RightCurly") = Single(BlockRule, d2)
      BY <1>2, <1>3
    <2> DEFINE X == "RightCurly"
    <2>3. X # "EndOfFile" /\ X \notin {"LeftParen", "RightParen"}
      OBVIOUS
    <2>4. Reads(BlockRule, d, X, BlockRule, d2)
      BY <1>1, <2>1, <2>2, <2>3 DEF Reads
    <2>5. ReadsHere(N, M, i, size, j, X, BlockRule, d, BlockRule, d2)
      BY <1>4, <1>5, <2>1, <2>3, <2>4 DEF ReadsHere
    <2> QED BY <2>5, ReadOutside
  <1>7. ASSUME Next1 PROVE PInv'
    <2>1. At(11 + 2 * N + 2 * M, 8, 0)' /\ stack'[8].state = Single(BlockRule, 4)
          /\ \A k \in 1 .. 7 : stack'[k] = stack[k]
      BY <1>3, <1>7 DEF Grown
    <2>2. /\ TypeNode(N)' = TypeNode(N) /\ BodyNode(N, M)' = BodyNode(N, M)
          /\ (tokens[2])' = tokens[2]
      BY <1>7, SameTokens
    <2>3. /\ InBody(N)' /\ Stands(6, BlockRule, 2)' /\ Stands(7, BlockRule, 3)'
          /\ Stands(8, BlockRule, 4)' /\ (stack[6].value = BodyNode(N, M))'
      BY <2>1, <2>2 DEF Stands, AfterDef, AfterName, InSignature, InType, InItem, InBody, InValue
    <2>4. InTail(N, M)'
      BY <2>1, <2>2, <2>3 DEF InTail
    <2> QED BY <1>7, <2>4 DEF Placed, PInv
  <1> QED BY <1>6, <1>7

LEMMA StepBody ==
    ASSUME NEW N \in Nat, NEW M \in Nat, Sound(N, M), ParserNext,
           At(11 + 2 * N + 2 * M, 8, 0), InBody(N), Stands(6, BlockRule, 2),
               Stands(7, BlockRule, 3),
           Stands(8, BlockRule, 4), stack[6].value = BodyNode(N, M)
    PROVE  PInv'
  <1>1. /\ 4 = Len(BlockRule.rhs) /\ 4 <= Len(ItemRule.rhs) /\ BlockRule \in GoodRules
        /\ ItemRule \in GoodRules \cup {Goal}
    BY EachRule
  <1>2. Goto(stack[4].state, BlockRule.lhs) = Single(ItemRule, 4)
    BY FromItemRule3, LeftSides
       DEF Sound, Stands, AfterDef, AfterName, InSignature, InType, InItem, InBody, InValue
  <1>3. PICK i, size, m \in Nat, n \in Nat, d2 \in 0 .. 4 :
           i = 11 + 2 * N + 2 * M /\ size = 8 /\ m = 4 /\ n = 4 /\ d2 = 4
    OBVIOUS
  <1>4. /\ At(i, size, 0) /\ Stands(size, BlockRule, n) /\ n = Len(BlockRule.rhs) /\ n >= 1
           /\ m >= 1
        /\ size = m + n /\ d2 <= Len(ItemRule.rhs) /\ 0 \in Nat
        /\ Goto(stack[m].state, BlockRule.lhs) = Single(ItemRule, d2)
    BY <1>1, <1>2, <1>3
  <1>5. /\ Sound(N, M)' /\ Grown(m, ItemRule, d2) /\ tokens' = tokens
        /\ stack'[m + 1].value = Made(BlockRule, m, n) /\ At(i, m + 1, 0)'
        /\ BlockRule.lhs = "file"
           => parse_result' = [kind |-> "Success", item |-> Made(BlockRule, m, n)]
    <2>1. ReducesHere(N, M, i, size, 0, BlockRule, n, m, ItemRule, d2)
      BY <1>1, <1>4 DEF ReducesHere, Reduces
    <2> QED BY <2>1, Reduced
  <1>6. Made(BlockRule, 4, 4) = stack[4 + 2].value
    BY MadeIs
  <1>7. stack[4 + 2].value = BodyNode(N, M)
    BY DEF TypeNode, BodyNode, ItemNode, Stands, AfterDef, AfterName, InSignature, InType, InItem,
       InBody, InValue
  <1>8. At(11 + 2 * N + 2 * M, 5, 0)' /\ stack'[5].value = BodyNode(N, M)
        /\ stack'[5].state = Single(ItemRule, 4)
        /\ \A k \in 1 .. 4 : stack'[k] = stack[k]
    BY <1>3, <1>5, <1>6, <1>7 DEF Grown, At
  <1>9. /\ TypeNode(N)' = TypeNode(N) /\ BodyNode(N, M)' = BodyNode(N, M)
        /\ ItemNode(N, M)' = ItemNode(N, M) /\ (tokens[6 + N])' = tokens[6 + N]
        /\ (tokens[2])' = tokens[2]
    BY <1>5, SameTokens
  <1>10. InItem(N)' /\ Stands(5, ItemRule, 4)'
    BY <1>5, <1>8, <1>9
       DEF Stands, AfterDef, AfterName, InSignature, InType, InItem, InBody, InValue
  <1>11. InTail(N, M)'
    BY <1>3, <1>8, <1>9, <1>10 DEF InTail
  <1> QED BY <1>5, <1>11 DEF Placed, PInv

LEMMA StepFunctionItem ==
    ASSUME NEW N \in Nat, NEW M \in Nat, Sound(N, M), ParserNext,
           At(11 + 2 * N + 2 * M, 5, 0), InItem(N), Stands(5, ItemRule, 4),
               stack[5].value = BodyNode(N, M)
    PROVE  PInv'
  <1>1. /\ 4 = Len(ItemRule.rhs) /\ 1 <= Len(FunctionRule.rhs) /\ ItemRule \in GoodRules
        /\ FunctionRule \in GoodRules \cup {Goal}
    BY EachRule
  <1>2. Goto(stack[1].state, ItemRule.lhs) = Single(FunctionRule, 1)
    BY FromGoal0, LeftSides
       DEF Sound, Stands, AfterDef, AfterName, InSignature, InType, InItem, InBody, InValue
  <1>3. PICK i, size, m \in Nat, n \in Nat, d2 \in 0 .. 4 :
           i = 11 + 2 * N + 2 * M /\ size = 5 /\ m = 1 /\ n = 4 /\ d2 = 1
    OBVIOUS
  <1>4. /\ At(i, size, 0) /\ Stands(size, ItemRule, n) /\ n = Len(ItemRule.rhs) /\ n >= 1 /\ m >= 1
        /\ size = m + n /\ d2 <= Len(FunctionRule.rhs) /\ 0 \in Nat
        /\ Goto(stack[m].state, ItemRule.lhs) = Single(FunctionRule, d2)
    BY <1>1, <1>2, <1>3
  <1>5. /\ Sound(N, M)' /\ Grown(m, FunctionRule, d2) /\ tokens' = tokens
        /\ stack'[m + 1].value = Made(ItemRule, m, n) /\ At(i, m + 1, 0)'
        /\ ItemRule.lhs = "file"
           => parse_result' = [kind |-> "Success", item |-> Made(ItemRule, m, n)]
    <2>1. ReducesHere(N, M, i, size, 0, ItemRule, n, m, FunctionRule, d2)
      BY <1>1, <1>4 DEF ReducesHere, Reduces
    <2> QED BY <2>1, Reduced
  <1>6. Made(ItemRule, 1, 4)
            = [name |-> stack[1 + 2].value.string, type |-> stack[1 + 3].value,
                body |-> stack[1 + 4].value]
    BY MadeIs
  <1>7. [name |-> stack[1 + 2].value.string, type |-> stack[1 + 3].value,
            body |-> stack[1 + 4].value] = ItemNode(N, M)
    BY DEF TypeNode, BodyNode, ItemNode, Stands, AfterDef, AfterName, InSignature, InType, InItem,
       InBody, InValue
  <1>8. At(11 + 2 * N + 2 * M, 2, 0)' /\ stack'[2].value = ItemNode(N, M)
        /\ stack'[2].state = Single(FunctionRule, 1)
        /\ \A k \in 1 .. 1 : stack'[k] = stack[k]
    BY <1>3, <1>5, <1>6, <1>7 DEF Grown, At
  <1>9. /\ TypeNode(N)' = TypeNode(N) /\ BodyNode(N, M)' = BodyNode(N, M)
        /\ ItemNode(N, M)' = ItemNode(N, M) /\ (tokens[6 + N])' = tokens[6 + N]
        /\ (tokens[2])' = tokens[2]
    BY <1>5, SameTokens
  <1>10. Stands(2, FunctionRule, 1)'
    BY <1>5, <1>8, <1>9
       DEF Stands, AfterDef, AfterName, InSignature, InType, InItem, InBody, InValue
  <1>11. InTail(N, M)'
    BY <1>3, <1>8, <1>9, <1>10 DEF InTail
  <1> QED BY <1>5, <1>11 DEF Placed, PInv

LEMMA StepItem ==
    ASSUME NEW N \in Nat, NEW M \in Nat, Sound(N, M), ParserNext,
           At(11 + 2 * N + 2 * M, 2, 0), Stands(2, FunctionRule, 1), stack[2].value = ItemNode(N, M)
    PROVE  PInv'
  <1>1. /\ 1 = Len(FunctionRule.rhs) /\ 1 <= Len(FileRule.rhs) /\ FunctionRule \in GoodRules
        /\ FileRule \in GoodRules \cup {Goal}
    BY EachRule
  <1>2. Goto(stack[1].state, FunctionRule.lhs) = Single(FileRule, 1)
    BY FromGoal0, LeftSides
       DEF Sound, Stands, AfterDef, AfterName, InSignature, InType, InItem, InBody, InValue
  <1>3. PICK i, size, m \in Nat, n \in Nat, d2 \in 0 .. 4 :
           i = 11 + 2 * N + 2 * M /\ size = 2 /\ m = 1 /\ n = 1 /\ d2 = 1
    OBVIOUS
  <1>4. /\ At(i, size, 0) /\ Stands(size, FunctionRule, n) /\ n = Len(FunctionRule.rhs) /\ n >= 1
           /\ m >= 1
        /\ size = m + n /\ d2 <= Len(FileRule.rhs) /\ 0 \in Nat
        /\ Goto(stack[m].state, FunctionRule.lhs) = Single(FileRule, d2)
    BY <1>1, <1>2, <1>3
  <1>5. /\ Sound(N, M)' /\ Grown(m, FileRule, d2) /\ tokens' = tokens
        /\ stack'[m + 1].value = Made(FunctionRule, m, n) /\ At(i, m + 1, 0)'
        /\ FunctionRule.lhs = "file"
           => parse_result' = [kind |-> "Success", item |-> Made(FunctionRule, m, n)]
    <2>1. ReducesHere(N, M, i, size, 0, FunctionRule, n, m, FileRule, d2)
      BY <1>1, <1>4 DEF ReducesHere, Reduces
    <2> QED BY <2>1, Reduced
  <1>6. Made(FunctionRule, 1, 1) = stack[1 + 1].value
    BY MadeIs
  <1>7. stack[1 + 1].value = ItemNode(N, M)
    BY DEF TypeNode, BodyNode, ItemNode, Stands, AfterDef, AfterName, InSignature, InType, InItem,
       InBody, InValue
  <1>8. At(11 + 2 * N + 2 * M, 2, 0)' /\ stack'[2].value = ItemNode(N, M)
        /\ stack'[2].state = Single(FileRule, 1)
        /\ \A k \in 1 .. 1 : stack'[k] = stack[k]
    BY <1>3, <1>5, <1>6, <1>7 DEF Grown, At
  <1>9. /\ TypeNode(N)' = TypeNode(N) /\ BodyNode(N, M)' = BodyNode(N, M)
        /\ ItemNode(N, M)' = ItemNode(N, M) /\ (tokens[6 + N])' = tokens[6 + N]
        /\ (tokens[2])' = tokens[2]
    BY <1>5, SameTokens
  <1>10. Stands(2, FileRule, 1)'
    BY <1>5, <1>8, <1>9
       DEF Stands, AfterDef, AfterName, InSignature, InType, InItem, InBody, InValue
  <1>11. InTail(N, M)'
    BY <1>3, <1>8, <1>9, <1>10 DEF InTail
  <1> QED BY <1>5, <1>11 DEF Placed, PInv

LEMMA StepFile ==
    ASSUME NEW N \in Nat, NEW M \in Nat, Sound(N, M), ParserNext,
           At(11 + 2 * N + 2 * M, 2, 0), Stands(2, FileRule, 1), stack[2].value = ItemNode(N, M)
    PROVE  PInv'
  <1>1. /\ 1 = Len(FileRule.rhs) /\ 1 <= Len(Goal.rhs) /\ FileRule \in GoodRules
        /\ Goal \in GoodRules \cup {Goal}
    BY EachRule
  <1>2. Goto(stack[1].state, FileRule.lhs) = Single(Goal, 1)
    BY FromGoal0, LeftSides
       DEF Sound, Stands, AfterDef, AfterName, InSignature, InType, InItem, InBody, InValue
  <1>3. PICK i, size, m \in Nat, n \in Nat, d2 \in 0 .. 4 :
           i = 11 + 2 * N + 2 * M /\ size = 2 /\ m = 1 /\ n = 1 /\ d2 = 1
    OBVIOUS
  <1>4. /\ At(i, size, 0) /\ Stands(size, FileRule, n) /\ n = Len(FileRule.rhs) /\ n >= 1 /\ m >= 1
        /\ size = m + n /\ d2 <= Len(Goal.rhs) /\ 0 \in Nat
        /\ Goto(stack[m].state, FileRule.lhs) = Single(Goal, d2)
    BY <1>1, <1>2, <1>3
  <1>5. /\ Sound(N, M)' /\ Grown(m, Goal, d2) /\ tokens' = tokens
        /\ stack'[m + 1].value = Made(FileRule, m, n) /\ At(i, m + 1, 0)'
        /\ FileRule.lhs = "file"
           => parse_result' = [kind |-> "Success", item |-> Made(FileRule, m, n)]
    <2>1. ReducesHere(N, M, i, size, 0, FileRule, n, m, Goal, d2)
      BY <1>1, <1>4 DEF ReducesHere, Reduces
    <2> QED BY <2>1, Reduced
  <1>6. Made(FileRule, 1, 1) = stack[1 + 1].value
    BY MadeIs
  <1>7. stack[1 + 1].value = ItemNode(N, M)
    BY DEF TypeNode, BodyNode, ItemNode, Stands, AfterDef, AfterName, InSignature, InType, InItem,
       InBody, InValue
  <1>8. At(11 + 2 * N + 2 * M, 2, 0)' /\ stack'[2].value = ItemNode(N, M)
        /\ stack'[2].state = Single(Goal, 1)
        /\ \A k \in 1 .. 1 : stack'[k] = stack[k]
    BY <1>3, <1>5, <1>6, <1>7 DEF Grown, At
  <1>9. /\ TypeNode(N)' = TypeNode(N) /\ BodyNode(N, M)' = BodyNode(N, M)
        /\ ItemNode(N, M)' = ItemNode(N, M) /\ (tokens[6 + N])' = tokens[6 + N]
        /\ (tokens[2])' = tokens[2]
    BY <1>5, SameTokens
  <1>10. /\ Stands(2, Goal, 1)'
         /\ parse_result' = [kind |-> "Success", item |-> ItemNode(N, M)]
    BY <1>3, <1>5, <1>6, <1>7, <1>8, LeftSides
       DEF Stands, AfterDef, AfterName, InSignature, InType, InItem, InBody, InValue
  <1>11. InTail(N, M)'
    BY <1>3, <1>8, <1>9, <1>10 DEF InTail
  <1> QED BY <1>5, <1>11 DEF Placed, PInv

LEMMA StepGoal ==
    ASSUME NEW N \in Nat, NEW M \in Nat, Sound(N, M), ParserNext,
           At(11 + 2 * N + 2 * M, 2, 0), Stands(2, Goal, 1),
           parse_result = [kind |-> "Success", item |-> ItemNode(N, M)]
    PROVE  PInv'
  <1>1. PICK i \in Nat, j \in Nat, d \in Nat : i = 11 + 2 * N + 2 * M /\ j = 12 + 2 * N + 2 * M
            /\ d = 1
    OBVIOUS
  <1>2. /\ State = Single(Goal, d) /\ token_index = i /\ Len(stack) < YYMAXDEPTH
           /\ d < Len(Goal.rhs)
        /\ Goal \in GoodRules \cup {Goal}
    BY <1>1, TopIs, EachRule DEF Stands
  <1>3. Follows(i, N, M) /\ Fits(i) /\ IsTokenList(tokens) /\ N \in Deepest /\ M \in Deepest
    BY <1>2 DEF Sound
  <1>4. /\ tokens[i].kind = "RightCurly"
        /\ \A N2, M2 \in Nat : Follows(i, N2, M2) => KindsAt(N2, M2, i + 1) = {"EndOfFile"}
    <2>1. /\ tokens[i].kind = "RightCurly"
          /\ \A N2, M2 \in Nat : Follows(i, N2, M2) => KindsAt(N2, M2, j) = {"EndOfFile"}
      <3>1. i = 11 + 2 * N + 2 * M /\ j = i + 1
        BY <1>1
      <3>2. tokens[i].kind = "RightCurly" /\ Only(i, j, "EndOfFile")
        BY <1>3, <3>1, OnlyOutside
      <3> QED BY <3>2 DEF Only
    <2> QED BY <1>1, <2>1
  <1> DEFINE W == {"EndOfFile"}
             k == tokens[i + 1].kind
  <1>5. /\ \A X \in W : Goto(State, X) # {}
        /\ \A X : X \notin W => Goto(State, X) = {}
    BY <1>1, <1>2, FromGoal1 DEF Single
  <1>6. /\ i < Len(tokens) /\ tokens' = tokens /\ token_index' = i + 1
        /\ \/ PInv'
           \/ Takes(k, tokens[i + 1].value)
           \/ /\ k = "EndOfFile" /\ Goto(State, k) # {}
              /\ parse_result' = parse_result /\ parse_pc' = "done"
    <2>1. \A N2, M2 \in Nat :
             Follows(token_index, N2, M2) => KindsAt(N2, M2, token_index + 1) \subseteq W
      BY <1>2, <1>4
    <2>2. Len(stack) # YYMAXDEPTH
      BY <1>2, FrontendAssumption
    <2> HIDE DEF W
    <2> QED BY <1>2, <1>5, <2>1, <2>2, ReadOutcome
  <1>7. ~Takes(k, tokens[i + 1].value)
    BY <1>5 DEF Takes
  <1>8. ASSUME k = "EndOfFile", parse_result' = parse_result, parse_pc' = "done"
        PROVE  PInv'
    <2>1. /\ j = Len(tokens) /\ Len(tokens) \in Nat /\ Len(tokens) = 12 + 2 * N + 2 * M
          /\ tokens[j].kind = "EndOfFile"
      BY <1>1, <1>3, <1>6, <1>8, TokenListIs
    <2>2. Follows(j, N, M)
      BY <1>1, <1>3, <1>4, <1>8, FollowsNext
    <2>3. StackNeeded(j) = 0
      <3>1. j - 1 = i
        BY <1>1
      <3> QED BY <1>4, <2>1, <3>1, NeedsNone
    <2>4. Fits(j)
      BY <1>1, <1>3, <2>3, FitsNext, FrontendAssumption
    <2>5. /\ IsTokenList(tokens)' /\ Follows(j, N, M)' /\ Fits(j)'
             /\ ItemNode(N, M)' = ItemNode(N, M)
      BY <1>3, <1>6, <2>2, <2>4, SameTokens
    <2>6. /\ Follows(Len(tokens), N, M)' /\ Fits(Len(tokens))'
      BY <1>6, <2>1, <2>5 DEF Follows, Fits, StackNeeded, Open
    <2>7. token_index' \in 0 .. Len(tokens') /\ Len(tokens') = 12 + 2 * N + 2 * M
      BY <1>1, <1>6, <2>1
    <2>8. N \in Deepest' /\ M \in Deepest'
      BY <1>3 DEF Deepest
    <2>9. parse_result' = [kind |-> "Success", item |-> ItemNode(N, M)']
      BY <1>8, <2>5
    <2> QED BY <1>8, <2>5, <2>6, <2>7, <2>8, <2>9 DEF Finished, PInv
  <1> QED BY <1>6, <1>7, <1>8

LEMMA TailSteps ==
    ASSUME NEW N \in Nat, NEW M \in Nat, Sound(N, M), InTail(N, M), ParserNext
    PROVE  PInv'
  BY StepStmt, StepSemicolon, StepRightCurly, StepBody, StepFunctionItem, StepItem, StepFile,
     StepGoal DEF InTail

-----------------------------------------------------------------------------
(* The states that an expression begins in.                                *)
ExprStates == {Single(ReturnTypeRule, 1), Single(ParenRule, 1), Single(ReturnRule, 1)}

LEMMA ExprGoto ==
    ASSUME NEW s \in ExprStates
    PROVE  /\ Goto(s, "primary_expr") = Single(ExprRule, 1)
           /\ Goto(s, "Identifier") = Single(NameRule, 1)
           /\ Goto(s, "IntLiteral") = Single(LiteralRule, 1)
           /\ Goto(s, "LeftParen") = Single(ParenRule, 1)
           /\ Goto(s, "error") = Single(BadExpr, 1)
           /\ \A Y : (Y \notin Nonterminals \cup {"error", "Identifier", "IntLiteral", "LeftParen"})
                        => Goto(s, Y) = {}
  <1>1. CASE s = Single(ReturnTypeRule, 1)
    BY <1>1, FromReturnTypeRule1 DEF Nonterminals
  <1>2. CASE s = Single(ParenRule, 1)
    BY <1>2, FromParenRule1 DEF Nonterminals
  <1>3. CASE s = Single(ReturnRule, 1)
    BY <1>3, FromReturnRule1 DEF Nonterminals
  <1> QED BY <1>1, <1>2, <1>3 DEF ExprStates

Zones == {"type", "value"}

LEMMA ZoneIs ==
    ASSUME NEW N \in Nat, NEW M \in Nat, NEW z \in Zones
    PROVE  /\ Under(z) \in {5, 6} /\ Base(z, N) \in Nat /\ Nest(z, N, M) \in Nat
           /\ z = "type" => Under(z) = 5 /\ Base(z, N) = 5 /\ Nest(z, N, M) = N
           /\ z = "value" => Under(z) = 6 /\ Base(z, N) = 8 + 2 * N /\ Nest(z, N, M) = M
  BY DEF Zones, Under, Base, Nest

LEMMA ZoneTop ==
    ASSUME NEW N \in Nat, NEW M \in Nat, NEW z \in Zones, NEW c \in 0 .. Nest(z, N, M),
           Zone(z, N, M, c), NEW k, k = Under(z) + Nest(z, N, M) - c
    PROVE  /\ stack[k].state \in ExprStates /\ k \in Nat /\ k >= 5
           /\ c < Nest(z, N, M) => stack[k].state = Single(ParenRule, 1)
           /\ (c = Nest(z, N, M) /\ z = "type") => stack[k].state = Single(ReturnTypeRule, 1)
           /\ (c = Nest(z, N, M) /\ z = "value") => stack[k].state = Single(ReturnRule, 1)
  <1>1. /\ Under(z) \in {5, 6} /\ Nest(z, N, M) \in Nat
        /\ z = "type" => Under(z) = 5
        /\ z = "value" => Under(z) = 6
    BY ZoneIs
  <1>2. k \in Nat /\ k >= 5
    BY <1>1
  <1>3. CASE c < Nest(z, N, M)
    <2>1. k \in Under(z) + 1 .. Under(z) + Nest(z, N, M) - c
      BY <1>1, <1>3
    <2>2. stack[k].state = Single(ParenRule, 1)
      BY <2>1, Zenon DEF Zone, Stands
    <2> QED BY <1>2, <1>3, <2>2 DEF ExprStates
  <1>4. CASE c = Nest(z, N, M)
    <2>1. k = Under(z)
      BY <1>1, <1>4
    <2>2. /\ z = "type" => Stands(5, ReturnTypeRule, 1)
          /\ z = "value" => Stands(6, ReturnRule, 1)
      BY DEF Zone, InType, InValue
    <2> QED BY <1>1, <1>2, <1>4, <2>1, <2>2 DEF ExprStates, Stands, Zones
  <1> QED BY <1>1, <1>3, <1>4

LEMMA ZoneKept ==
    ASSUME NEW N \in Nat, NEW M \in Nat, NEW z \in Zones, NEW c \in 0 .. Nest(z, N, M),
           Zone(z, N, M, c), tokens' = tokens,
           NEW m \in Nat, m >= Under(z) + Nest(z, N, M) - c,
           \A k \in 1 .. m : stack'[k] = stack[k]
    PROVE  Zone(z, N, M, c)'
  <1>1. /\ Under(z) \in {5, 6} /\ Nest(z, N, M) \in Nat
        /\ z = "type" => Under(z) = 5
        /\ z = "value" => Under(z) = 6
    BY ZoneIs
  <1>2. \A k \in 1 .. Under(z) : stack'[k] = stack[k]
    BY <1>1
  <1>3. TypeNode(N)' = TypeNode(N) /\ (tokens[2])' = tokens[2]
    BY SameTokens
  <1>4. CASE z = "type"
    <2>1. M = 0 /\ InType /\ \A k \in 1 .. 5 : stack'[k] = stack[k]
      BY <1>1, <1>2, <1>4 DEF Zone
    <2>2. M = 0 /\ InType'
      BY <1>3, <2>1 DEF InType, InSignature, AfterName, AfterDef, Stands
    <2> QED BY <1>1, <1>4, <2>2 DEF Zone, Stands
  <1>5. CASE z = "value"
    <2>1. InValue(N) /\ \A k \in 1 .. 6 : stack'[k] = stack[k]
      BY <1>1, <1>2, <1>5 DEF Zone
    <2>2. InValue(N)'
      BY <1>3, <2>1 DEF InValue, InBody, InItem, AfterName, AfterDef, Stands
    <2> QED BY <1>1, <1>5, <2>2 DEF Zone, Stands
  <1> QED BY <1>4, <1>5 DEF Zones

(* A leaf or a parenthesis is next, and how much stack it needs.           *)
BeforeInner(z, N, M, i, j) ==
    /\ z \in Zones /\ N \in Nat /\ M \in Nat
    /\ z = "type" => M = 0
    /\ i = Base(z, N) + Nest(z, N, M) /\ Follows(i, N, M) /\ j = i + 1

LEMMA BeforeLeaf ==
    ASSUME NEW N, NEW M, NEW z, NEW i, NEW j, BeforeInner(z, N, M, i, j)
    PROVE  /\ i \in Nat /\ j \in Nat /\ j >= 6
           /\ \A N2, M2 \in Nat : Follows(i, N2, M2) =>
                 KindsAt(N2, M2, j) \subseteq {"LeftParen", "Identifier", "IntLiteral"}
           /\ Open(j) = Nest(z, N, M) => StackNeeded(j) = Under(z) + Nest(z, N, M) + 1
           /\ {"Identifier", "IntLiteral"} \subseteq KindsAt(N, M, j)
           /\ z = "type" => Follows(i, N + 1, M) /\ "LeftParen" \in KindsAt(N + 1, M, j)
           /\ z = "value" => Follows(i, N, M + 1) /\ "LeftParen" \in KindsAt(N, M + 1, j)
  <1> USE DEF BeforeInner
  <1>1. /\ z = "type" => Under(z) = 5 /\ i = 5 + N /\ Nest(z, N, M) = N
        /\ z = "value" => Under(z) = 6 /\ i = 8 + 2 * N + M /\ Nest(z, N, M) = M
    BY DEF Under, Base, Nest
  <1>2. z = "type" \/ z = "value"
    BY DEF Zones
  <1>3. i \in Nat /\ i >= 5 /\ j \in Nat /\ j >= 6 /\ j - 1 = i
    BY <1>1, <1>2
  <1>4. ASSUME NEW N2 \in Nat, NEW M2 \in Nat, Follows(i, N2, M2)
        PROVE  KindsAt(N2, M2, j) \subseteq {"LeftParen", "Identifier", "IntLiteral"}
    <2>1. CASE z = "type"
      <3>1. N2 >= N
        <4>1. i >= 5 + N
          BY <1>1, <2>1
        <4> QED BY <1>3, <1>4, <4>1, FollowersAgree
      <3>2. j = 6 + N2 \/ j \in 6 .. 5 + N2
        BY <1>1, <2>1, <3>1
      <3> QED BY <1>3, <3>2, KindsAtIs DEF LeafKinds
    <2>2. CASE z = "value"
      <3>1. N2 = N /\ M2 >= M
        <4>1. i >= 8 + 2 * N + M
          BY <1>1, <2>2
        <4> QED BY <1>3, <1>4, <4>1, FollowersAgree
      <3>2. j = 9 + 2 * N2 + M2 \/ j \in 9 + 2 * N2 .. 8 + 2 * N2 + M2
        BY <1>1, <2>2, <3>1
      <3> QED BY <1>3, <3>2, KindsAtIs DEF LeafKinds
    <2> QED BY <1>2, <2>1, <2>2
  <1>5. ASSUME Open(j) = Nest(z, N, M)
        PROVE  StackNeeded(j) = Under(z) + Nest(z, N, M) + 1
    <2>1. \/ tokens[j - 1].kind = "LeftParen"
          \/ tokens[j - 1].kind \in {"ThinArrow", "Return"} /\ Nest(z, N, M) = 0
      <3>1. tokens[i].kind \in KindsAt(N, M, i)
        BY <1>3 DEF Follows
      <3>2. CASE z = "type"
        <4>1. i = 5 \/ i \in 6 .. 5 + N
          BY <1>1, <3>2
        <4>2. /\ i = 5 => KindsAt(N, M, i) = {"ThinArrow"}
              /\ i \in 6 .. 5 + N => KindsAt(N, M, i) = {"LeftParen"}
          BY <1>3, KindsAtIs
        <4> QED BY <1>1, <1>3, <3>1, <3>2, <4>1, <4>2
      <3>3. CASE z = "value"
        <4>1. i = 8 + 2 * N \/ i \in 9 + 2 * N .. 8 + 2 * N + M
          BY <1>1, <3>3
        <4>2. /\ i = 8 + 2 * N => KindsAt(N, M, i) = {"Return"}
              /\ i \in 9 + 2 * N .. 8 + 2 * N + M => KindsAt(N, M, i) = {"LeftParen"}
          BY <1>3, KindsAtIs
        <4> QED BY <1>1, <1>3, <3>1, <3>3, <4>1, <4>2
      <3> QED BY <1>2, <3>2, <3>3
    <2>2. (\E k \in 1 .. j - 1 : tokens[k].kind = "LeftCurly") <=> z = "value"
      <3>1. (\E k \in 1 .. j - 1 : tokens[k].kind = "LeftCurly") <=> j > 7 + 2 * N
        BY <1>3, NeedsUnder
      <3>2. z = "type" => ~(j > 7 + 2 * N)
        BY <1>1
      <3>3. z = "value" => j > 7 + 2 * N
        BY <1>1
      <3> QED BY <1>2, <3>1, <3>2, <3>3
    <2> DEFINE E == \E k \in 1 .. j - 1 : tokens[k].kind = "LeftCurly"
    <2>3. StackNeeded(j) = (IF E THEN 6 ELSE 5) + Open(j) + 1
      BY <1>5, <2>1 DEF StackNeeded
    <2>4. E <=> z = "value"
      BY <2>2
    <2> HIDE DEF E
    <2> QED BY <1>1, <1>2, <1>5, <2>3, <2>4
  <1>6. {"Identifier", "IntLiteral"} \subseteq KindsAt(N, M, j)
    <2>1. z = "type" => j = 6 + N
      BY <1>1
    <2>2. z = "value" => j = 9 + 2 * N + M
      BY <1>1
    <2> QED BY <1>2, <1>3, <2>1, <2>2, KindsAtIs DEF LeafKinds
  <1>7. z = "type" => Follows(i, N + 1, M) /\ "LeftParen" \in KindsAt(N + 1, M, j)
    <2> HAVE z = "type"
    <2>1. Follows(i, N + 1, M)
      BY <1>1, <1>3, FollowsDeeper
    <2>2. PICK n \in Nat : n = N + 1
      OBVIOUS
    <2>3. j \in 6 .. 5 + n
      BY <1>1, <2>2
    <2> QED BY <1>3, <2>1, <2>2, <2>3, KindsAtIs
  <1>8. z = "value" => Follows(i, N, M + 1) /\ "LeftParen" \in KindsAt(N, M + 1, j)
    <2> HAVE z = "value"
    <2>1. Follows(i, N, M + 1)
      BY <1>1, <1>3, FollowsDeeper
    <2>2. PICK m \in Nat : m = M + 1
      OBVIOUS
    <2>3. j \in 9 + 2 * N .. 8 + 2 * N + m
      BY <1>1, <2>2
    <2> QED BY <1>3, <2>1, <2>2, <2>3, KindsAtIs
  <1> QED BY <1>3, <1>4, <1>5, <1>6, <1>7, <1>8

(* A parenthesis is to be closed, and how much stack that needs.           *)
AfterInner(z, N, M, c, i, j) ==
    /\ z \in Zones /\ N \in Nat /\ M \in Nat /\ c \in 0 .. Nest(z, N, M) - 1
    /\ i = Base(z, N) + Nest(z, N, M) + 1 + c /\ Follows(i, N, M) /\ j = i + 1

LEMMA BeforeClose ==
    ASSUME NEW N, NEW M, NEW z, NEW c, NEW i, NEW j, AfterInner(z, N, M, c, i, j)
    PROVE  /\ i \in Nat /\ j \in Nat /\ j >= 6
           /\ \A N2, M2 \in Nat : Follows(i, N2, M2) => KindsAt(N2, M2, j) = {"RightParen"}
           /\ (Open(j) = Nest(z, N, M) - c /\ tokens[j].kind = "RightParen") =>
                 StackNeeded(j) = Under(z) + Nest(z, N, M) - c + 2
  <1> USE DEF AfterInner
  <1>1. /\ z = "type" => Under(z) = 5 /\ i = 6 + N + c /\ Nest(z, N, M) = N
        /\ z = "value" => Under(z) = 6 /\ i = 9 + 2 * N + M + c /\ Nest(z, N, M) = M
    BY DEF Under, Base, Nest
  <1>2. z = "type" \/ z = "value"
    BY DEF Zones
  <1>3. i \in Nat /\ i >= 5 /\ j \in Nat /\ j >= 6 /\ j - 1 = i
    BY <1>1, <1>2
  <1>4. ASSUME NEW N2 \in Nat, NEW M2 \in Nat, Follows(i, N2, M2)
        PROVE  KindsAt(N2, M2, j) = {"RightParen"}
    <2>1. CASE z = "type"
      <3>1. N2 = N
        <4>1. i >= 5 + N /\ i >= 6 + N
          BY <1>1, <2>1
        <4> QED BY <1>3, <1>4, <4>1, FollowersAgree
      <3>2. j \in 7 + N2 .. 6 + 2 * N2
        BY <1>1, <2>1, <3>1
      <3> QED BY <1>3, <3>2, KindsAtIs
    <2>2. CASE z = "value"
      <3>1. N2 = N /\ M2 = M
        <4>1. i >= 8 + 2 * N + M /\ i >= 9 + 2 * N + M
          BY <1>1, <2>2
        <4> QED BY <1>3, <1>4, <4>1, FollowersAgree
      <3>2. j \in 10 + 2 * N2 + M2 .. 9 + 2 * N2 + 2 * M2
        BY <1>1, <2>2, <3>1
      <3> QED BY <1>3, <3>2, KindsAtIs
    <2> QED BY <1>2, <2>1, <2>2
  <1>5. ASSUME Open(j) = Nest(z, N, M) - c, tokens[j].kind = "RightParen"
        PROVE  StackNeeded(j) = Under(z) + Nest(z, N, M) - c + 2
    <2>1. tokens[j - 1].kind \in {"Identifier", "IntLiteral", "RightParen"}
      <3>1. tokens[i].kind \in KindsAt(N, M, i)
        BY <1>3 DEF Follows
      <3>2. CASE z = "type"
        <4>1. i = 6 + N \/ i \in 7 + N .. 6 + 2 * N
          BY <1>1, <3>2
        <4>2. KindsAt(N, M, i) \in {LeafKinds, {"RightParen"}}
          BY <1>3, <4>1, KindsAtIs
        <4> QED BY <1>3, <3>1, <4>2 DEF LeafKinds
      <3>3. CASE z = "value"
        <4>1. i = 9 + 2 * N + M \/ i \in 10 + 2 * N + M .. 9 + 2 * N + 2 * M
          BY <1>1, <3>3
        <4>2. KindsAt(N, M, i) \in {LeafKinds, {"RightParen"}}
          BY <1>3, <4>1, KindsAtIs
        <4> QED BY <1>3, <3>1, <4>2 DEF LeafKinds
      <3> QED BY <1>2, <3>2, <3>3
    <2>2. (\E k \in 1 .. j - 1 : tokens[k].kind = "LeftCurly") <=> z = "value"
      <3>1. (\E k \in 1 .. j - 1 : tokens[k].kind = "LeftCurly") <=> j > 7 + 2 * N
        BY <1>3, NeedsUnder
      <3>2. z = "type" => ~(j > 7 + 2 * N)
        BY <1>1
      <3>3. z = "value" => j > 7 + 2 * N
        BY <1>1
      <3> QED BY <1>2, <3>1, <3>2, <3>3
    <2> DEFINE E == \E k \in 1 .. j - 1 : tokens[k].kind = "LeftCurly"
    <2>3. Open(j) > 0
      BY <1>1, <1>2, <1>5
    <2>4. StackNeeded(j) = (IF E THEN 6 ELSE 5) + Open(j) + 2
      BY <1>5, <2>1, <2>3 DEF StackNeeded
    <2>5. E <=> z = "value"
      BY <2>2
    <2> HIDE DEF E
    <2> QED BY <1>1, <1>2, <1>5, <2>4, <2>5
  <1> QED BY <1>3, <1>4, <1>5

-----------------------------------------------------------------------------
LEMMA StepOpen ==
    ASSUME NEW N \in Nat, NEW M \in Nat, NEW z \in Zones, Sound(N, M), ParserNext,
           ExprOpen(z, N, M)
    PROVE  PInv'
  <1>1. PICK u \in {5, 6}, b \in Nat, p \in Nat, i \in Nat, j \in Nat, size \in Nat :
           /\ u = Under(z) /\ b = Base(z, N) /\ p = Nest(z, N, M)
           /\ i = b + p /\ j = i + 1 /\ size = u + p
    BY ZoneIs
  <1>2. Zone(z, N, M, 0) /\ At(i, size, p)
    BY <1>1 DEF ExprOpen
  <1>3. /\ State = stack[size].state /\ i = token_index /\ Len(stack) = size /\ Open(j) = p
        /\ YYMAXDEPTH \in Nat
    BY <1>1, <1>2, TopIs
  <1>4. State \in ExprStates
    <2>1. 0 \in 0 .. Nest(z, N, M) /\ size = Under(z) + Nest(z, N, M) - 0
      BY <1>1
    <2> QED BY <1>2, <1>3, <2>1, ZoneTop
  <1>5. z = "type" => M = 0
    BY <1>2 DEF Zone
  <1>6. Follows(i, N, M)
    BY <1>3 DEF Sound
  <1>7. /\ j >= 6
        /\ \A N2, M2 \in Nat : Follows(i, N2, M2) =>
              KindsAt(N2, M2, j) \subseteq {"LeftParen", "Identifier", "IntLiteral"}
        /\ StackNeeded(j) = size + 1
        /\ {"Identifier", "IntLiteral"} \subseteq KindsAt(N, M, j)
        /\ z = "type" => Follows(i, N + 1, M) /\ "LeftParen" \in KindsAt(N + 1, M, j)
        /\ z = "value" => Follows(i, N, M + 1) /\ "LeftParen" \in KindsAt(N, M + 1, j)
    <2>1. i = Base(z, N) + Nest(z, N, M)
      BY <1>1
    <2>2. j = i + 1
      BY <1>1
    <2>3. /\ j >= 6
          /\ \A N2, M2 \in Nat : Follows(i, N2, M2) =>
                KindsAt(N2, M2, j) \subseteq {"LeftParen", "Identifier", "IntLiteral"}
          /\ Open(j) = Nest(z, N, M) => StackNeeded(j) = Under(z) + Nest(z, N, M) + 1
          /\ {"Identifier", "IntLiteral"} \subseteq KindsAt(N, M, j)
          /\ z = "type" => Follows(i, N + 1, M) /\ "LeftParen" \in KindsAt(N + 1, M, j)
          /\ z = "value" => Follows(i, N, M + 1) /\ "LeftParen" \in KindsAt(N, M + 1, j)
      <3>1. BeforeInner(z, N, M, i, j)
        BY <1>5, <1>6, <2>1, <2>2 DEF BeforeInner
      <3> QED BY <3>1, BeforeLeaf
    <2>4. Open(j) = Nest(z, N, M) /\ Under(z) + Nest(z, N, M) + 1 = size + 1
      BY <1>1, <1>3
    <2> QED BY <2>3, <2>4, Zenon
  <1> DEFINE W == {"LeftParen", "Identifier", "IntLiteral"}
             k == tokens[i + 1].kind
             v == tokens[i + 1].value
  <1>8. PICK r \in GoodRules, d \in Nat : d < Len(r.rhs) /\ State = Single(r, d)
    <2>1. CASE State = Single(ReturnTypeRule, 1)
      <3>1. ReturnTypeRule \in GoodRules /\ 1 \in Nat /\ 1 < Len(ReturnTypeRule.rhs)
        BY EachRule
      <3> QED BY <2>1, <3>1, Zenon
    <2>2. CASE State = Single(ParenRule, 1)
      <3>1. ParenRule \in GoodRules /\ 1 \in Nat /\ 1 < Len(ParenRule.rhs)
        BY EachRule
      <3> QED BY <2>2, <3>1, Zenon
    <2>3. CASE State = Single(ReturnRule, 1)
      <3>1. ReturnRule \in GoodRules /\ 1 \in Nat /\ 1 < Len(ReturnRule.rhs)
        BY EachRule
      <3> QED BY <2>3, <3>1, Zenon
    <2> QED BY <1>4, <2>1, <2>2, <2>3 DEF ExprStates
  <1>9. /\ \A X \in W : Goto(State, X) # {}
        /\ \A Y : (Y \notin Nonterminals \cup {"error"} /\ Y \notin W) => Goto(State, Y) = {}
        /\ Goto(State, "Identifier") = Single(NameRule, 1)
        /\ Goto(State, "IntLiteral") = Single(LiteralRule, 1)
        /\ Goto(State, "LeftParen") = Single(ParenRule, 1)
    <2>1. /\ Goto(State, "Identifier") = Single(NameRule, 1)
          /\ Goto(State, "IntLiteral") = Single(LiteralRule, 1)
          /\ Goto(State, "LeftParen") = Single(ParenRule, 1)
          /\ \A Y : (Y \notin Nonterminals \cup {"error", "Identifier", "IntLiteral", "LeftParen"})
                       => Goto(State, Y) = {}
      BY <1>4, ExprGoto
    <2>2. \A q, e : Single(q, e) # {}
      BY DEF Single
    <2> QED BY <2>1, <2>2
  <1>10. /\ i < Len(tokens) /\ tokens' = tokens /\ token_index' = i + 1
         /\ \/ PInv'
            \/ Takes(k, v)
            \/ k = "EndOfFile" /\ Goto(State, k) # {}
    <2>1. \A N2, M2 \in Nat :
             Follows(token_index, N2, M2) => KindsAt(N2, M2, token_index + 1) \subseteq W
      BY <1>1, <1>3, <1>7
    <2>2. Len(stack) = YYMAXDEPTH =>
             token_index + 1 >= 6 /\ ~(StackNeeded(token_index + 1) <= YYMAXDEPTH)
      <3>1. token_index + 1 = j
        BY <1>1, <1>3
      <3>2. Len(stack) = YYMAXDEPTH => ~(size + 1 <= YYMAXDEPTH)
        BY <1>3
      <3> QED BY <1>7, <3>1, <3>2
    <2>3. r \in GoodRules \cup {Goal} /\ \A X \in W : Goto(State, X) # {}
      BY <1>9
    <2>4. (/\ Len(stack) = YYMAXDEPTH
           /\ \/ Goto(State, "error") # {}
              \/ Goto(State, tokens[token_index + 1].kind) # {}) =>
             token_index + 1 >= 6 /\ ~(StackNeeded(token_index + 1) <= YYMAXDEPTH)
      BY <2>2
    <2> HIDE DEF W
    <2>5. /\ token_index < Len(tokens) /\ tokens' = tokens /\ token_index' = token_index + 1
          /\ \/ PInv'
             \/ Takes(tokens[token_index + 1].kind, tokens[token_index + 1].value)
             \/ /\ tokens[token_index + 1].kind = "EndOfFile"
                /\ Goto(State, tokens[token_index + 1].kind) # {}
                /\ parse_result' = parse_result /\ parse_pc' = "done"
      BY <1>8, <2>1, <2>3, <2>4, ReadOutcome, ZenonT(60)
    <2> QED BY <1>3, <2>5
  <1>11. k \notin Nonterminals \cup {"error"}
    <2>1. IsToken(tokens[i + 1])
      BY <1>3, <1>10, TokenListIs DEF Sound
    <2> QED BY <2>1, NonterminalsAre DEF IsToken
  <1>12. (k = "EndOfFile" /\ Goto(State, k) # {}) => FALSE
    BY <1>9, <1>11
  <1>13. ASSUME Takes(k, v) PROVE k \in W /\ size < YYMAXDEPTH /\ StackNeeded(j) <= YYMAXDEPTH
    BY <1>3, <1>7, <1>9, <1>11, <1>13 DEF Takes
  <1>14. ASSUME Takes(k, v), NEW r2 \in GoodRules, Goto(State, k) = Single(r2, 1), 1 <= Len(r2.rhs),
                NEW N2 \in Deepest, NEW M2 \in Deepest, Follows(j, N2, M2)
         PROVE  /\ Sound(N2, M2)' /\ Grown(size, r2, 1)
                /\ stack'[size + 1].value = tokens[j].value
    <2>1. i + 1 >= 6 => StackNeeded(i + 1) <= YYMAXDEPTH
      BY <1>1, <1>13, <1>14
    <2>2. r2 \in GoodRules \cup {Goal} /\ 1 \in 0 .. 4
      OBVIOUS
    <2>3. Follows(i + 1, N2, M2)
      BY <1>1, <1>14
    <2> DEFINE d2 == 1
    <2>4. /\ d2 \in 0 .. 4 /\ d2 <= Len(r2.rhs) /\ Goto(State, tokens[i + 1].kind) = Single(r2, d2)
      BY <1>14
    <2> HIDE DEF d2
    <2>5. /\ Sound(N2, M2)' /\ Grown(Len(stack), r2, d2)
          /\ stack'[Len(stack) + 1].value = tokens[i + 1].value
      BY <1>3, <1>10, <1>14, <2>1, <2>2, <2>3, <2>4, Shifted, SMTT(60)
    <2> QED BY <1>1, <1>3, <2>5 DEF d2
  <1>15. Deepest \subseteq Nat /\ N \in Deepest /\ M \in Deepest
    BY GoodAre DEF Sound
  <1>16. ASSUME Takes(k, v), k = "LeftParen" PROVE PInv'
    <2>1. PICK N2 \in Nat, M2 \in Nat : N2 = (IF z = "type" THEN N + 1 ELSE N)
                                    /\ M2 = (IF z = "type" THEN M ELSE M + 1)
      <3>1. (IF z = "type" THEN N + 1 ELSE N) \in Nat /\ (IF z = "type" THEN M ELSE M + 1) \in Nat
        OBVIOUS
      <3> QED BY <3>1
    <2>2. z = "type" \/ z = "value"
      BY DEF Zones
    <2>3. N2 \in Deepest /\ M2 \in Deepest
      <3>1. size < YYMAXDEPTH
        BY <1>13, <1>16
      <3>2. z = "type" => N + 1 <= YYMAXDEPTH - 5
        BY <1>1, <1>3, <3>1 DEF Under, Nest
      <3>3. z = "value" => M + 1 <= YYMAXDEPTH - 5
        BY <1>1, <1>3, <3>1 DEF Under, Nest
      <3> QED BY <1>3, <1>15, <2>1, <2>2, <3>2, <3>3 DEF Deepest
    <2>4. Follows(j, N2, M2)
      <3>1. Follows(i, N2, M2) /\ k \in KindsAt(N2, M2, i + 1)
        BY <1>1, <1>7, <1>16, <2>1, <2>2
      <3> QED BY <1>1, <3>1, FollowsNext
    <2>5. Sound(N2, M2)' /\ Grown(size, ParenRule, 1)
      <3>1. /\ ParenRule \in GoodRules /\ 1 <= Len(ParenRule.rhs)
            /\ Goto(State, k) = Single(ParenRule, 1) /\ Takes(k, v)
        BY <1>9, <1>16, EachRule
      <3> HIDE DEF k, v
      <3> QED BY <1>14, <2>3, <2>4, <3>1
    <2>6. /\ Under(z) = u /\ Nest(z, N2, M2) = p + 1 /\ Base(z, N2) = b
          /\ z = "type" => M2 = 0
          /\ z = "value" => N2 = N
      BY <1>1, <1>5, <2>1, <2>2 DEF Under, Base, Nest
    <2>7. At(j, size + 1, p + 1)'
      <3>1. Open(j + 1) = p + 1
        BY <1>1, <1>3, <1>16, OpenStep
      <3>2. Len(stack') = size + 1
        BY <2>5 DEF Grown
      <3> QED BY <1>1, <1>10, <3>1, <3>2, AtNext
    <2>8. Zone(z, N2, M2, 0)'
      <3>1. Zone(z, N, M, 0)'
        <4>1. \A q \in 1 .. size : stack'[q] = stack[q]
          BY <2>5 DEF Grown
        <4>2. size >= Under(z) + Nest(z, N, M) - 0 /\ 0 \in 0 .. Nest(z, N, M)
          BY <1>1
        <4> QED BY <1>2, <1>10, <4>1, <4>2, ZoneKept
      <3>2. \A q \in u + 1 .. u + p : Stands(q, ParenRule, 1)'
        <4>1. \A q \in u + 1 .. u + p - 0 : Stands(q, ParenRule, 1)'
          BY <1>1, <3>1 DEF Zone
        <4> QED BY <1>1, <4>1
      <3>3. Stands(u + p + 1, ParenRule, 1)'
        BY <1>1, <2>5 DEF Stands, Grown
      <3>4. \A q \in u + 1 .. u + (p + 1) - 0 : q \in u + 1 .. u + p \/ q = u + p + 1
        BY <1>1
      <3>5. IF z = "type" THEN M2 = 0 /\ InType' ELSE InValue(N2)'
        <4>1. IF z = "type" THEN InType' ELSE InValue(N)'
          BY <3>1 DEF Zone
        <4> QED BY <2>2, <2>6, <4>1
      <3> QED BY <2>6, <3>2, <3>3, <3>4, <3>5 DEF Zone
    <2>9. ExprOpen(z, N2, M2)'
      <3>1. /\ Base(z, N2) + Nest(z, N2, M2) = j
            /\ Under(z) + Nest(z, N2, M2) = size + 1
        BY <1>1, <2>6
      <3> QED BY <2>6, <2>7, <2>8, <3>1 DEF ExprOpen
    <2>10. InExpr(z, N2, M2)'
      BY <2>9 DEF InExpr
    <2> QED BY <2>2, <2>5, <2>10 DEF Placed, PInv
  <1>17. ASSUME Takes(k, v), NEW r2 \in {NameRule, LiteralRule}, Goto(State, k) = Single(r2, 1),
                k \in {"Identifier", "IntLiteral"},
                r2 = NameRule => k = "Identifier", r2 = LiteralRule => k = "IntLiteral"
         PROVE  PInv'
    <2>1. Follows(j, N, M)
      BY <1>1, <1>6, <1>7, <1>17, FollowsNext
    <2>2. /\ Sound(N, M)' /\ Grown(size, r2, 1)
          /\ stack'[size + 1].value = tokens[j].value
      <3>1. r2 \in GoodRules /\ 1 <= Len(r2.rhs)
        <4>1. NameRule \in GoodRules /\ LiteralRule \in GoodRules /\ 1 <= Len(NameRule.rhs)
              /\ 1 <= Len(LiteralRule.rhs)
          BY EachRule
        <4>2. r2 = NameRule \/ r2 = LiteralRule
          BY <1>17
        <4> QED BY <4>1, <4>2
      <3> HIDE DEF k, v
      <3> QED BY <1>14, <1>15, <1>17, <2>1, <3>1
    <2>3. At(j, size + 1, p)'
      <3>1. Open(j + 1) = p
        <4>1. tokens[j].kind \notin {"LeftParen", "RightParen"}
          BY <1>1, <1>17
        <4> QED BY <1>1, <1>3, <4>1, OpenStep
      <3>2. Len(stack') = size + 1
        BY <2>2 DEF Grown
      <3> QED BY <1>1, <1>10, <3>1, <3>2, AtNext
    <2>4. Zone(z, N, M, 0)'
      <3>1. \A q \in 1 .. size : stack'[q] = stack[q]
        BY <2>2 DEF Grown
      <3>2. size >= Under(z) + Nest(z, N, M) - 0 /\ 0 \in 0 .. Nest(z, N, M)
        BY <1>1
      <3> QED BY <1>2, <1>10, <3>1, <3>2, ZoneKept
    <2>5. ExprToken(z, N, M) = tokens[j]
      BY <1>1 DEF ExprToken
    <2>6. ExprToken(z, N, M)' = ExprToken(z, N, M)
      BY <1>10, SameTokens
    <2>7. LeafRead(z, N, M)'
      <3>1. /\ Base(z, N) + Nest(z, N, M) + 1 = j
            /\ Under(z) + Nest(z, N, M) + 1 = size + 1
        BY <1>1
      <3>2. /\ stack'[size + 1].value = ExprToken(z, N, M)'.value
            /\ \/ Stands(size + 1, NameRule, 1)' /\ ExprToken(z, N, M)'.kind = "Identifier"
               \/ Stands(size + 1, LiteralRule, 1)' /\ ExprToken(z, N, M)'.kind = "IntLiteral"
        <4>1. k = tokens[j].kind
          BY <1>1
        <4> QED BY <1>17, <2>2, <2>5, <2>6, <4>1 DEF Grown, Stands
      <3> QED BY <1>1, <2>3, <2>4, <3>1, <3>2 DEF LeafRead
    <2>8. InExpr(z, N, M)'
      BY <2>7 DEF InExpr
    <2> QED BY <2>2, <2>8 DEF Zones, Placed, PInv
  <1>18. CASE Takes(k, v)
    <2>1. k = "LeftParen" \/ k = "Identifier" \/ k = "IntLiteral"
      BY <1>13, <1>18
    <2>2. k = "Identifier" => PInv'
      <3> HAVE k = "Identifier"
      <3>1. /\ Goto(State, k) = Single(NameRule, 1) /\ NameRule # LiteralRule
            /\ k \in {"Identifier", "IntLiteral"}
        BY <1>9, RightSides
      <3> HIDE DEF k, v
      <3> QED BY <1>17, <1>18, <3>1
    <2>3. k = "IntLiteral" => PInv'
      <3> HAVE k = "IntLiteral"
      <3>1. /\ Goto(State, k) = Single(LiteralRule, 1) /\ NameRule # LiteralRule
            /\ k \in {"Identifier", "IntLiteral"}
        BY <1>9, RightSides
      <3> HIDE DEF k, v
      <3> QED BY <1>17, <1>18, <3>1
    <2> HIDE DEF k, v
    <2> QED BY <1>16, <1>18, <2>1, <2>2, <2>3
  <1> QED BY <1>10, <1>12, <1>18

-----------------------------------------------------------------------------
(* The reductions of an expression.  The m-th entry is the one below it,   *)
(* with c parentheses closed.                                              *)
Inside(z, N, M, c, m) ==
    /\ c \in 0 .. Nest(z, N, M) /\ m = Under(z) + Nest(z, N, M) - c
    /\ Zone(z, N, M, c)

LEMMA ZoneReduced ==
    ASSUME NEW N \in Nat, NEW M \in Nat, NEW z \in Zones, Sound(N, M), ParserNext,
           NEW i, NEW size, NEW open, At(i, size, open),
           NEW r, NEW n, NEW m, NEW r2, NEW d2, Reduces(r, n, m, r2, d2),
           size = m + n, Stands(size, r, n), NEW c, Inside(z, N, M, c, m)
    PROVE  /\ Sound(N, M)' /\ tokens' = tokens /\ At(i, m + 1, open)' /\ Zone(z, N, M, c)'
           /\ Stands(m + 1, r2, d2)' /\ stack'[m + 1].value = Made(r, m, n)
           /\ ExprToken(z, N, M)' = ExprToken(z, N, M)
           /\ \A k \in 1 .. m : stack'[k] = stack[k]
  <1>1. /\ m \in Nat /\ m >= Under(z) + Nest(z, N, M) - c
        /\ c \in 0 .. Nest(z, N, M) /\ Zone(z, N, M, c)
    BY ZoneIs DEF Inside, Reduces
  <1>2. /\ Sound(N, M)' /\ Grown(m, r2, d2) /\ tokens' = tokens
        /\ stack'[m + 1].value = Made(r, m, n) /\ At(i, m + 1, open)'
    <2>1. ReducesHere(N, M, i, size, open, r, n, m, r2, d2)
      BY DEF ReducesHere
    <2> QED BY <2>1, Reduced
  <1>3. /\ Stands(m + 1, r2, d2)' /\ \A k \in 1 .. m : stack'[k] = stack[k]
    BY <1>2 DEF Grown, Stands
  <1>4. Zone(z, N, M, c)'
    BY <1>1, <1>2, <1>3, ZoneKept
  <1>5. ExprToken(z, N, M)' = ExprToken(z, N, M)
    BY <1>2, SameTokens
  <1> QED BY <1>2, <1>3, <1>4, <1>5

LEMMA ExprAtNext ==
    ASSUME NEW N \in Nat, NEW M \in Nat, NEW z \in Zones, NEW c \in 0 .. Nest(z, N, M),
           Zone(z, N, M, c)',
           NEW i, i = Base(z, N) + Nest(z, N, M) + 1 + c,
           NEW size, size = Under(z) + Nest(z, N, M) - c + 1,
           NEW open, open = Nest(z, N, M) - c, At(i, size, open)',
           NEW r, NEW d, Stands(size, r, d)', ExprToken(z, N, M)' = ExprToken(z, N, M),
           stack'[size].value = LeafExpr(ExprToken(z, N, M))
    PROVE  ExprAt(z, N, M, c, r, d)'
  <1>1. LeafExpr(ExprToken(z, N, M))' = LeafExpr(ExprToken(z, N, M))
    BY DEF LeafExpr
  <1> QED BY <1>1 DEF ExprAt

LEMMA StepLeaf ==
    ASSUME NEW N \in Nat, NEW M \in Nat, NEW z \in Zones, Sound(N, M), ParserNext,
           LeafRead(z, N, M)
    PROVE  PInv'
  <1>1. PICK u \in {5, 6}, b \in Nat, p \in Nat, i \in Nat, size \in Nat, m \in Nat, n \in Nat,
            c \in Nat :
           /\ u = Under(z) /\ b = Base(z, N) /\ p = Nest(z, N, M) /\ m = u + p
           /\ i = b + p + 1 /\ size = u + p + 1 /\ n = 1 /\ c = 0
    BY ZoneIs
  <1>2. Zone(z, N, M, c) /\ At(i, size, p) /\ stack[size].value = ExprToken(z, N, M).value
    BY <1>1 DEF LeafRead
  <1>3. /\ size = m + n /\ c \in 0 .. Nest(z, N, M) /\ m = Under(z) + Nest(z, N, M) - c
        /\ stack[m].state \in ExprStates
    <2>1. size = m + n /\ c \in 0 .. Nest(z, N, M) /\ m = Under(z) + Nest(z, N, M) - c
      BY <1>1
    <2> QED BY <1>2, <2>1, ZoneTop
  <1>4. ASSUME NEW r \in {NameRule, LiteralRule}, Stands(size, r, n),
               Made(r, m, n) = LeafExpr(ExprToken(z, N, M))
        PROVE  PInv'
    <2>1. /\ n = Len(r.rhs) /\ n >= 1 /\ r \in GoodRules /\ r.lhs = "primary_expr"
      <3>1. /\ NameRule \in GoodRules /\ LiteralRule \in GoodRules /\ 1 = Len(NameRule.rhs)
            /\ 1 = Len(LiteralRule.rhs)
            /\ NameRule.lhs = "primary_expr" /\ LiteralRule.lhs = "primary_expr"
        BY EachRule, LeftSides
      <3>2. r = NameRule \/ r = LiteralRule
        OBVIOUS
      <3> QED BY <1>1, <3>1, <3>2
    <2>2. PICK d2 \in 0 .. 4 : d2 = 1
      OBVIOUS
    <2>3. /\ ExprRule \in GoodRules /\ d2 <= Len(ExprRule.rhs)
          /\ Goto(stack[m].state, r.lhs) = Single(ExprRule, d2)
      BY <1>3, <2>1, <2>2, ExprGoto, EachRule
    <2>4. /\ Sound(N, M)' /\ At(i, m + 1, p)' /\ Zone(z, N, M, c)'
          /\ Stands(m + 1, ExprRule, d2)' /\ stack'[m + 1].value = Made(r, m, n)
          /\ ExprToken(z, N, M)' = ExprToken(z, N, M)
      <3>1. m >= 1 /\ m \in Nat /\ n \in Nat
        BY <1>1
      <3>2. Reduces(r, n, m, ExprRule, d2)
        BY <2>1, <2>3, <3>1 DEF Reduces
      <3>3. Inside(z, N, M, c, m)
        BY <1>2, <1>3 DEF Inside
      <3> QED BY <1>2, <1>3, <1>4, <3>2, <3>3, ZoneReduced
    <2>5. ExprAt(z, N, M, c, ExprRule, d2)'
      <3>1. /\ i = Base(z, N) + Nest(z, N, M) + 1 + c
            /\ size = Under(z) + Nest(z, N, M) - c + 1 /\ p = Nest(z, N, M) - c /\ size = m + 1
        BY <1>1
      <3> QED BY <1>3, <1>4, <2>4, <3>1, ExprAtNext
    <2>6. InExpr(z, N, M)'
      BY <1>3, <2>2, <2>5 DEF InExpr
    <2> QED BY <2>4, <2>6 DEF Zones, Placed, PInv
  <1>5. size = m + 1 /\ n = 1
    BY <1>1
  <1>6. CASE Stands(size, NameRule, 1) /\ ExprToken(z, N, M).kind = "Identifier"
    <2>1. Made(NameRule, m, 1) = [kind |-> "Name", name |-> stack[m + 1].value.string]
      BY MadeIs
    <2>2. Made(NameRule, m, n) = LeafExpr(ExprToken(z, N, M))
      BY <1>2, <1>5, <1>6, <2>1 DEF LeafExpr
    <2> QED BY <1>4, <1>5, <1>6, <2>2
  <1>7. CASE Stands(size, LiteralRule, 1) /\ ExprToken(z, N, M).kind = "IntLiteral"
    <2>1. Made(LiteralRule, m, 1) = [kind |-> "IntLiteral", base |-> stack[m + 1].value.base,
                                     digits |-> stack[m + 1].value.digits]
      BY MadeIs
    <2>2. Made(LiteralRule, m, n) = LeafExpr(ExprToken(z, N, M))
      BY <1>2, <1>5, <1>7, <2>1 DEF LeafExpr
    <2> QED BY <1>4, <1>5, <1>7, <2>2
  <1> QED BY <1>1, <1>6, <1>7 DEF LeafRead

LEMMA StepExpr ==
    ASSUME NEW N \in Nat, NEW M \in Nat, NEW z \in Zones, Sound(N, M), ParserNext,
           NEW c \in 0 .. Nest(z, N, M), ExprAt(z, N, M, c, ExprRule, 1)
    PROVE  PInv'
  <1>1. PICK u \in {5, 6}, b \in Nat, p \in Nat, i \in Nat, size \in Nat, m \in Nat, n \in Nat,
             open \in Nat :
           /\ u = Under(z) /\ b = Base(z, N) /\ p = Nest(z, N, M) /\ m = u + p - c
           /\ i = b + p + 1 + c /\ size = u + p - c + 1 /\ n = 1 /\ open = p - c
    BY ZoneIs
  <1>2. /\ Zone(z, N, M, c) /\ At(i, size, open) /\ stack[size].value = LeafExpr(ExprToken(z, N, M))
        /\ Stands(size, ExprRule, n)
    BY <1>1 DEF ExprAt
  <1>3. /\ size = m + n /\ size = m + 1 /\ m = Under(z) + Nest(z, N, M) - c
        /\ i = Base(z, N) + Nest(z, N, M) + 1 + c
        /\ size = Under(z) + Nest(z, N, M) - c + 1 /\ open = Nest(z, N, M) - c
    BY <1>1
  <1>4. /\ c < p => stack[m].state = Single(ParenRule, 1)
        /\ (c = p /\ z = "type") => stack[m].state = Single(ReturnTypeRule, 1)
        /\ (c = p /\ z = "value") => stack[m].state = Single(ReturnRule, 1)
    <2>1. /\ c < Nest(z, N, M) => stack[m].state = Single(ParenRule, 1)
          /\ (c = Nest(z, N, M) /\ z = "type") => stack[m].state = Single(ReturnTypeRule, 1)
          /\ (c = Nest(z, N, M) /\ z = "value") => stack[m].state = Single(ReturnRule, 1)
      BY <1>2, <1>3, ZoneTop
    <2> QED BY <1>1, <2>1
  <1>5. Made(ExprRule, m, n) = LeafExpr(ExprToken(z, N, M))
    <2>1. Made(ExprRule, m, 1) = stack[m + 1].value
      BY MadeIs
    <2> QED BY <1>1, <1>2, <1>3, <2>1
  <1>6. ASSUME NEW r2 \in GoodRules, NEW d2 \in 0 .. 4, d2 <= Len(r2.rhs),
               Goto(stack[m].state, "expr") = Single(r2, d2)
        PROVE  Sound(N, M)' /\ ExprAt(z, N, M, c, r2, d2)'
    <2>1. /\ n = Len(ExprRule.rhs) /\ n >= 1 /\ ExprRule \in GoodRules
          /\ Goto(stack[m].state, ExprRule.lhs) = Single(r2, d2)
      BY <1>1, <1>6, EachRule, LeftSides
    <2>2. /\ Sound(N, M)' /\ At(i, m + 1, open)' /\ Zone(z, N, M, c)'
          /\ Stands(m + 1, r2, d2)' /\ stack'[m + 1].value = Made(ExprRule, m, n)
          /\ ExprToken(z, N, M)' = ExprToken(z, N, M)
      <3>1. m >= 1 /\ m \in Nat /\ n \in Nat
        BY <1>1
      <3>2. Reduces(ExprRule, n, m, r2, d2)
        BY <1>6, <2>1, <3>1 DEF Reduces
      <3>3. Inside(z, N, M, c, m)
        BY <1>2, <1>3 DEF Inside
      <3> QED BY <1>2, <1>3, <3>2, <3>3, ZoneReduced
    <2>3. ExprAt(z, N, M, c, r2, d2)'
      BY <1>3, <1>5, <2>2, ExprAtNext
    <2> QED BY <2>2, <2>3
  <1>7. CASE c < p
    <2>1. PICK d2 \in 0 .. 4 : d2 = 2
      OBVIOUS
    <2>2. ParenRule \in GoodRules /\ d2 <= Len(ParenRule.rhs)
          /\ Goto(stack[m].state, "expr") = Single(ParenRule, d2)
      BY <1>4, <1>7, <2>1, FromParenRule1, EachRule
    <2>3. Sound(N, M)' /\ ExprAt(z, N, M, c, ParenRule, 2)'
      BY <1>6, <2>1, <2>2
    <2>4. c \in 0 .. Nest(z, N, M) - 1
      BY <1>1, <1>7
    <2>5. InExpr(z, N, M)'
      BY <2>3, <2>4 DEF InExpr
    <2> QED BY <2>3, <2>5 DEF Zones, Placed, PInv
  <1>8. CASE c = p /\ z = "type"
    <2>1. PICK d2 \in 0 .. 4 : d2 = 1
      OBVIOUS
    <2>2. TypeRule \in GoodRules /\ d2 <= Len(TypeRule.rhs)
          /\ Goto(stack[m].state, "expr") = Single(TypeRule, d2)
      BY <1>4, <1>8, <2>1, FromReturnTypeRule1, EachRule
    <2>3. Sound(N, M)' /\ ExprAt(z, N, M, Nest(z, N, M), TypeRule, 1)'
      BY <1>1, <1>6, <1>8, <2>1, <2>2
    <2>4. InExpr(z, N, M)'
      BY <1>8, <2>3 DEF InExpr
    <2> QED BY <2>3, <2>4 DEF Zones, Placed, PInv
  <1>9. CASE c = p /\ z = "value"
    <2>1. PICK d2 \in 0 .. 4 : d2 = 2
      OBVIOUS
    <2>2. ReturnRule \in GoodRules /\ d2 <= Len(ReturnRule.rhs)
          /\ Goto(stack[m].state, "expr") = Single(ReturnRule, d2)
      BY <1>4, <1>9, <2>1, FromReturnRule1, EachRule
    <2>3. Sound(N, M)' /\ ExprAt(z, N, M, Nest(z, N, M), ReturnRule, 2)'
      BY <1>1, <1>6, <1>9, <2>1, <2>2
    <2>4. InExpr(z, N, M)'
      BY <1>9, <2>3 DEF InExpr
    <2> QED BY <2>3, <2>4 DEF Zones, Placed, PInv
  <1> QED BY <1>1, <1>7, <1>8, <1>9 DEF Zones

-----------------------------------------------------------------------------
LEMMA StepRightParen ==
    ASSUME NEW N \in Nat, NEW M \in Nat, NEW z \in Zones, Sound(N, M), ParserNext,
           NEW c \in 0 .. Nest(z, N, M) - 1, ExprAt(z, N, M, c, ParenRule, 2)
    PROVE  PInv'
  <1>0. PICK u \in {5, 6}, b \in Nat, p \in Nat :
           u = Under(z) /\ b = Base(z, N) /\ p = Nest(z, N, M)
    BY ZoneIs
  <1>1. PICK i \in Nat, j \in Nat, size \in Nat, open \in Nat, d \in Nat, d2 \in 0 .. 4 :
           /\ u = Under(z) /\ b = Base(z, N) /\ p = Nest(z, N, M) /\ open = p - c
           /\ i = b + p + 1 + c /\ j = i + 1 /\ size = u + p - c + 1 /\ d = 2 /\ d2 = 3
    <2>1. /\ p - c \in Nat /\ b + p + 1 + c \in Nat /\ b + p + 1 + c + 1 \in Nat
          /\ u + p - c + 1 \in Nat /\ 2 \in Nat /\ 3 \in 0 .. 4
      BY <1>0
    <2> QED BY <1>0, <2>1, Zenon
  <1>2. /\ Zone(z, N, M, c) /\ At(i, size, open) /\ stack[size].value = LeafExpr(ExprToken(z, N, M))
        /\ Stands(size, ParenRule, d)
    BY <1>1 DEF ExprAt
  <1>3. /\ State = Single(ParenRule, d) /\ i = token_index /\ Len(stack) = size /\ Open(j) = open
        /\ YYMAXDEPTH \in Nat
    BY <1>1, <1>2, TopIs DEF Stands
  <1>4. Follows(i, N, M)
    BY <1>3 DEF Sound
  <1>5. /\ j >= 6
        /\ \A N2, M2 \in Nat : Follows(i, N2, M2) => KindsAt(N2, M2, j) = {"RightParen"}
        /\ tokens[j].kind = "RightParen" => StackNeeded(j) = size + 1
    <2>1. i = Base(z, N) + Nest(z, N, M) + 1 + c /\ open = Nest(z, N, M) - c
      BY <1>1
    <2>2. /\ j >= 6
          /\ \A N2, M2 \in Nat : Follows(i, N2, M2) => KindsAt(N2, M2, j) = {"RightParen"}
          /\ (Open(j) = Nest(z, N, M) - c /\ tokens[j].kind = "RightParen") =>
                StackNeeded(j) = Under(z) + Nest(z, N, M) - c + 2
      <3>1. j = i + 1 /\ i = Base(z, N) + Nest(z, N, M) + 1 + c
        BY <1>1
      <3>2. AfterInner(z, N, M, c, i, j)
        BY <1>4, <3>1 DEF AfterInner
      <3> QED BY <3>2, BeforeClose
    <2>3. Under(z) + Nest(z, N, M) - c + 2 = size + 1
      BY <1>1
    <2> QED BY <1>3, <2>1, <2>2, <2>3
  <1> DEFINE X == "RightParen"
             Next1 == /\ tokens[i + 1].kind = X /\ Sound(N, M)' /\ Grown(Len(stack), ParenRule, d2)
                      /\ stack'[Len(stack) + 1].value = tokens[i + 1].value
                      /\ tokens' = tokens /\ token_index' = i + 1
  <1>6. PInv' \/ Next1
    <2>1. /\ d < Len(ParenRule.rhs) /\ d2 <= Len(ParenRule.rhs) /\ X # "EndOfFile"
          /\ ParenRule \in GoodRules
      BY <1>1, EachRule
    <2>2. /\ \A Y : (Y \notin Nonterminals \cup {"error", X}) => Goto(State, Y) = {}
          /\ Goto(State, X) = Single(ParenRule, d2) /\ Goto(State, "error") = {}
      BY <1>1, <1>3, FromParenRule2 DEF Nonterminals
    <2>3. tokens[i + 1].kind = X =>
             IF Len(stack) = YYMAXDEPTH
             THEN i + 1 >= 6 /\ ~(StackNeeded(i + 1) <= YYMAXDEPTH)
             ELSE i + 1 >= 6 => StackNeeded(i + 1) <= YYMAXDEPTH
      <3>1. i + 1 = j /\ size <= YYMAXDEPTH
        BY <1>1, <1>3 DEF Sound
      <3>2. size = YYMAXDEPTH => ~(size + 1 <= YYMAXDEPTH)
        BY <1>3
      <3>3. size # YYMAXDEPTH => size + 1 <= YYMAXDEPTH
        <4>1. size \in Nat /\ YYMAXDEPTH \in Nat
          BY <1>3
        <4> QED BY <3>1, <4>1
      <3> QED BY <1>3, <1>5, <3>1, <3>2, <3>3
    <2>4. \A N2, M2 \in Nat : Follows(i, N2, M2) => KindsAt(N2, M2, i + 1) = {X}
      BY <1>1, <1>5
    <2> HIDE DEF X
    <2>5. State = Single(ParenRule, d) /\ i = token_index
              /\ (Len(stack) = YYMAXDEPTH => Goto(State, "error") = {})
      BY <1>3, <2>2
    <2>6. Reads(ParenRule, d, X, ParenRule, d2)
      BY <1>1, <1>3, <2>1, <2>2 DEF Reads
    <2> QED BY <2>3, <2>4, <2>5, <2>6, ReadOne
  <1>7. ASSUME Next1 PROVE PInv'
    <2>1. /\ Len(stack') = size + 1 /\ \A k \in 1 .. size : stack'[k] = stack[k]
          /\ stack'[size + 1].state = Single(ParenRule, 3)
      BY <1>1, <1>3, <1>7 DEF Grown
    <2>2. At(j, size + 1, open - 1)'
      <3>1. Open(j + 1) = open - 1
        <4>1. j = i + 1 /\ j \in Nat /\ j >= 1
          BY <1>1
        <4>2. tokens[j].kind = "RightParen"
          BY <1>7, <4>1
        <4> QED BY <1>3, <4>1, <4>2, OpenStep
      <3> QED BY <1>1, <1>7, <2>1, <3>1, AtNext
    <2>3. Zone(z, N, M, c)'
      <3>1. c \in 0 .. Nest(z, N, M) /\ size >= Under(z) + Nest(z, N, M) - c
        BY <1>1
      <3> QED BY <1>2, <1>7, <2>1, <3>1, ZoneKept
    <2>4. /\ ExprToken(z, N, M)' = ExprToken(z, N, M) /\ (stack[size])' = stack[size]
      <3>1. size \in 1 .. size
        BY <1>1
      <3> QED BY <1>7, <2>1, <3>1, SameTokens
    <2>5. /\ Stands(size, ParenRule, 2)' /\ Stands(size + 1, ParenRule, 3)'
          /\ stack'[size].value = LeafExpr(ExprToken(z, N, M))'
      BY <1>1, <1>2, <2>1, <2>4 DEF Stands, LeafExpr
    <2>6. ExprClosing(z, N, M, c)'
      <3>1. /\ Under(z) + Nest(z, N, M) - c + 2 = size + 1 /\ size + 1 - 1 = size
            /\ Base(z, N) + Nest(z, N, M) + 2 + c = j /\ Nest(z, N, M) - c - 1 = open - 1
        BY <1>1
      <3> DEFINE s == size + 1
      <3>2. s - 1 = size /\ Under(z) + Nest(z, N, M) - c + 2 = s
        BY <3>1
      <3>3. At(j, s, open - 1)' /\ Stands(s, ParenRule, 3)'
        BY <2>2, <2>5
      <3> HIDE DEF s
      <3> QED BY <2>3, <2>5, <3>1, <3>2, <3>3 DEF ExprClosing
    <2>7. InExpr(z, N, M)'
      BY <2>6 DEF InExpr
    <2> QED BY <1>7, <2>7 DEF Zones, Placed, PInv
  <1> QED BY <1>6, <1>7

LEMMA StepParen ==
    ASSUME NEW N \in Nat, NEW M \in Nat, NEW z \in Zones, Sound(N, M), ParserNext,
           NEW c \in 0 .. Nest(z, N, M) - 1, ExprClosing(z, N, M, c)
    PROVE  PInv'
  <1>0. PICK u \in {5, 6}, b \in Nat, p \in Nat :
           u = Under(z) /\ b = Base(z, N) /\ p = Nest(z, N, M)
    BY ZoneIs
  <1>1. PICK i \in Nat, size \in Nat, m \in Nat, n \in Nat, open \in Nat, e \in Nat,
             d2 \in 0 .. 4 :
           /\ u = Under(z) /\ b = Base(z, N) /\ p = Nest(z, N, M) /\ m = u + p - c - 1 /\ e = c + 1
           /\ i = b + p + 2 + c /\ size = u + p - c + 2 /\ n = 3 /\ open = p - c - 1 /\ d2 = 1
    <2>1. /\ p - c - 1 \in Nat /\ c + 1 \in Nat /\ b + p + 2 + c \in Nat /\ u + p - c - 1 \in Nat
          /\ u + p - c + 2 \in Nat /\ 3 \in Nat /\ 1 \in 0 .. 4
      BY <1>0
    <2> QED BY <1>0, <2>1, Zenon
  <1>2. /\ Zone(z, N, M, c) /\ At(i, size, open)
           /\ stack[size - 1].value = LeafExpr(ExprToken(z, N, M))
        /\ Stands(size, ParenRule, n)
    BY <1>1 DEF ExprClosing
  <1>3. /\ size = m + n /\ m = Under(z) + Nest(z, N, M) - e /\ e \in 0 .. Nest(z, N, M)
        /\ i = Base(z, N) + Nest(z, N, M) + 1 + e /\ size - 1 = m + 2
        /\ m + 1 = Under(z) + Nest(z, N, M) - e + 1 /\ open = Nest(z, N, M) - e
    BY <1>1
  <1>4. Zone(z, N, M, e)
    <2>1. \A k \in Under(z) + 1 .. Under(z) + Nest(z, N, M) - e :
             k \in Under(z) + 1 .. Under(z) + Nest(z, N, M) - c
      BY <1>1
    <2> QED BY <1>2, <2>1 DEF Zone
  <1>5. /\ n = Len(ParenRule.rhs) /\ n >= 1 /\ ParenRule \in GoodRules /\ ExprRule \in GoodRules
        /\ d2 <= Len(ExprRule.rhs) /\ Goto(stack[m].state, ParenRule.lhs) = Single(ExprRule, d2)
    <2>1. stack[m].state \in ExprStates
      BY <1>3, <1>4, ZoneTop
    <2> QED BY <1>1, <2>1, ExprGoto, LeftSides, EachRule
  <1>6. Made(ParenRule, m, n) = LeafExpr(ExprToken(z, N, M))
    <2>1. Made(ParenRule, m, 3) = stack[m + 2].value
      BY MadeIs
    <2> QED BY <1>1, <1>2, <1>3, <2>1
  <1>7. /\ Sound(N, M)' /\ At(i, m + 1, open)' /\ Zone(z, N, M, e)'
        /\ Stands(m + 1, ExprRule, d2)' /\ stack'[m + 1].value = Made(ParenRule, m, n)
        /\ ExprToken(z, N, M)' = ExprToken(z, N, M)
    <2>1. m >= 1 /\ m \in Nat /\ n \in Nat /\ d2 \in 0 .. 4
      BY <1>1
    <2>2. Reduces(ParenRule, n, m, ExprRule, d2)
      BY <1>5, <2>1 DEF Reduces
    <2>3. Inside(z, N, M, e, m)
      BY <1>3, <1>4 DEF Inside
    <2> QED BY <1>2, <1>3, <2>2, <2>3, ZoneReduced
  <1>8. ExprAt(z, N, M, e, ExprRule, d2)'
    BY <1>3, <1>6, <1>7, ExprAtNext
  <1>9. InExpr(z, N, M)'
    BY <1>1, <1>3, <1>8 DEF InExpr
  <1> QED BY <1>7, <1>9 DEF Zones, Placed, PInv

(* The expression is complete.                                             *)
LEMMA StepType ==
    ASSUME NEW N \in Nat, NEW M \in Nat, Sound(N, M), ParserNext,
           ExprAt("type", N, M, N, TypeRule, 1)
    PROVE  PInv'
  <1>1. PICK z \in Zones, i \in Nat, size \in Nat, m \in Nat, n \in Nat, open \in Nat,
            d2 \in 0 .. 4 :
           /\ z = "type" /\ i = 6 + 2 * N /\ size = 6 /\ m = 5 /\ n = 1 /\ open = 0 /\ d2 = 2
    BY DEF Zones
  <1>2. Under(z) = 5 /\ Base(z, N) = 5 /\ Nest(z, N, M) = N
    BY <1>1, ZoneIs
  <1>3. /\ Zone(z, N, M, N) /\ At(i, size, open) /\ stack[6].value = LeafExpr(tokens[6 + N])
        /\ Stands(size, TypeRule, n) /\ M = 0
    <2>1. /\ 5 + N - N + 1 = 6 /\ 5 + N + 1 + N = 6 + 2 * N /\ N - N = 0 /\ 5 + N + 1 = 6 + N
      OBVIOUS
    <2>2. ExprAt(z, N, M, N, TypeRule, 1)
      BY <1>1
    <2>3. /\ Zone(z, N, M, N) /\ At(i, size, open) /\ stack[6].value = LeafExpr(tokens[6 + N])
          /\ Stands(size, TypeRule, n)
      BY <1>1, <1>2, <2>1, <2>2 DEF ExprAt, ExprToken
    <2> QED BY <1>1, <2>3 DEF Zone
  <1>4. /\ size = m + n /\ N \in 0 .. Nest(z, N, M) /\ m = Under(z) + Nest(z, N, M) - N
        /\ n = Len(TypeRule.rhs) /\ n >= 1 /\ TypeRule \in GoodRules /\ ReturnTypeRule \in GoodRules
        /\ d2 <= Len(ReturnTypeRule.rhs)
    BY <1>1, <1>2, EachRule
  <1>5. Goto(stack[m].state, TypeRule.lhs) = Single(ReturnTypeRule, d2)
    <2>1. stack[m].state = Single(ReturnTypeRule, 1)
      BY <1>1, <1>2, <1>3, <1>4, ZoneTop
    <2> QED BY <1>1, <2>1, FromReturnTypeRule1, LeftSides
  <1>6. Made(TypeRule, m, n) = LeafExpr(tokens[6 + N])
    <2>1. Made(TypeRule, m, 1) = stack[m + 1].value
      BY MadeIs
    <2> QED BY <1>1, <1>3, <2>1
  <1>7. /\ Sound(N, M)' /\ tokens' = tokens /\ At(i, m + 1, open)' /\ Zone(z, N, M, N)'
        /\ Stands(m + 1, ReturnTypeRule, d2)' /\ stack'[m + 1].value = Made(TypeRule, m, n)
    <2>1. m >= 1
      BY <1>1
    <2>2. Reduces(TypeRule, n, m, ReturnTypeRule, d2)
      BY <1>4, <1>5, <2>1 DEF Reduces
    <2>3. Inside(z, N, M, N, m)
      BY <1>3, <1>4 DEF Inside
    <2> QED BY <1>1, <1>3, <1>4, <2>2, <2>3, ZoneReduced
  <1>8. (tokens[6 + N])' = tokens[6 + N]
    BY <1>7, SameTokens
  <1>9. /\ At(6 + 2 * N, 6, 0)' /\ InType' /\ Stands(6, ReturnTypeRule, 2)'
        /\ stack'[6].value = LeafExpr(tokens[6 + N])'
    BY <1>1, <1>6, <1>7, <1>8 DEF Zone, LeafExpr
  <1>10. InMiddle(N, M)'
    BY <1>3, <1>9 DEF InMiddle
  <1> QED BY <1>7, <1>10 DEF Placed, PInv

LEMMA StepReturned ==
    ASSUME NEW N \in Nat, NEW M \in Nat, Sound(N, M), ParserNext,
           ExprAt("value", N, M, M, ReturnRule, 2)
    PROVE  PInv'
  <1>1. Under("value") = 6 /\ Base("value", N) = 8 + 2 * N /\ Nest("value", N, M) = M
    BY ZoneIs DEF Zones
  <1>2. PICK i \in Nat, size \in Nat, m \in Nat, n \in Nat, d2 \in 0 .. 4 :
           i = 9 + 2 * N + 2 * M /\ size = 7 /\ m = 5 /\ n = 2 /\ d2 = 1
    OBVIOUS
  <1>3. /\ Zone("value", N, M, M) /\ At(i, size, 0)
        /\ stack[7].value = LeafExpr(tokens[9 + 2 * N + M]) /\ Stands(size, ReturnRule, n)
    <2>1. /\ 6 + M - M + 1 = 7 /\ 8 + 2 * N + M + 1 + M = 9 + 2 * N + 2 * M /\ M - M = 0
          /\ 8 + 2 * N + M + 1 = 9 + 2 * N + M
      OBVIOUS
    <2> QED BY <1>1, <1>2, <2>1 DEF ExprAt, ExprToken
  <1>4. InValue(N)
    BY <1>3 DEF Zone
  <1>5. /\ size = m + n /\ n = Len(ReturnRule.rhs) /\ n >= 1 /\ m >= 1
        /\ ReturnRule \in GoodRules /\ StmtRule \in GoodRules \cup {Goal}
        /\ d2 <= Len(StmtRule.rhs) /\ 0 \in Nat
    BY <1>2, EachRule
  <1>6. Goto(stack[m].state, ReturnRule.lhs) = Single(StmtRule, d2)
    BY <1>2, <1>4, FromBlockRule1, LeftSides DEF InValue, InBody, Stands
  <1>7. Made(ReturnRule, m, n) = BodyNode(N, M)
    <2>1. Made(ReturnRule, m, 2) = [kind |-> "Return", value |-> stack[m + 2].value]
      BY MadeIs
    <2> QED BY <1>2, <1>3, <2>1 DEF BodyNode
  <1>8. /\ Sound(N, M)' /\ Grown(m, StmtRule, d2) /\ tokens' = tokens
        /\ stack'[m + 1].value = Made(ReturnRule, m, n) /\ At(i, m + 1, 0)'
    <2>1. Reduces(ReturnRule, n, m, StmtRule, d2)
      BY <1>5, <1>6 DEF Reduces
    <2>2. ReducesHere(N, M, i, size, 0, ReturnRule, n, m, StmtRule, d2)
      BY <1>3, <1>5, <2>1 DEF ReducesHere
    <2> QED BY <2>2, Reduced
  <1>9. /\ TypeNode(N)' = TypeNode(N) /\ BodyNode(N, M)' = BodyNode(N, M)
           /\ (tokens[2])' = tokens[2]
    BY <1>8, SameTokens
  <1>10. /\ At(9 + 2 * N + 2 * M, 6, 0)' /\ InBody(N)' /\ Stands(6, StmtRule, 1)'
         /\ stack'[6].value = BodyNode(N, M)'
    BY <1>2, <1>4, <1>7, <1>8, <1>9 DEF Grown, InValue, InBody, InItem, AfterName, AfterDef, Stands
  <1>11. InTail(N, M)'
    BY <1>10 DEF InTail
  <1> QED BY <1>8, <1>11 DEF Placed, PInv

LEMMA ExprSteps ==
    ASSUME NEW N \in Nat, NEW M \in Nat, NEW z \in Zones, Sound(N, M), InExpr(z, N, M), ParserNext
    PROVE  PInv'
  <1>1. CASE ExprOpen(z, N, M)
    BY <1>1, StepOpen
  <1>2. CASE LeafRead(z, N, M)
    BY <1>2, StepLeaf
  <1>3. CASE \E c \in 0 .. Nest(z, N, M) : ExprAt(z, N, M, c, ExprRule, 1)
    BY <1>3, StepExpr
  <1>4. CASE \E c \in 0 .. Nest(z, N, M) - 1 : ExprAt(z, N, M, c, ParenRule, 2)
    BY <1>4, StepRightParen
  <1>5. CASE \E c \in 0 .. Nest(z, N, M) - 1 : ExprClosing(z, N, M, c)
    BY <1>5, StepParen
  <1>6. CASE z = "type" /\ ExprAt(z, N, M, Nest(z, N, M), TypeRule, 1)
    BY <1>6, StepType, ZoneIs
  <1>7. CASE z = "value" /\ ExprAt(z, N, M, Nest(z, N, M), ReturnRule, 2)
    BY <1>7, StepReturned, ZoneIs
  <1> QED BY <1>1, <1>2, <1>3, <1>4, <1>5, <1>6, <1>7 DEF InExpr, Zones

-----------------------------------------------------------------------------
(* Recovery keeps the first entry, and ends where `error` leads to.        *)
LEMMA WrongStays ==
    ASSUME Wrong, tokens' = tokens, token_index' = token_index
    PROVE  Wrong' /\ Fits(token_index)' = Fits(token_index)
  <1>1. PICK i \in Nat, N \in Deepest, M \in Deepest : i = token_index /\ Follows(i - 1, N, M)
    BY TokenListIs DEF Wrong
  <1>2. /\ IsTokenList(tokens)' /\ Follows(i - 1, N, M)' /\ Fits(i)' = Fits(i)
        /\ \A n, N2, M2 : Follows(n, N2, M2)' = Follows(n, N2, M2)
    BY <1>1, SameTokens DEF Wrong
  <1>3. \A N2, M2 \in Nat : ~Follows(i, N2, M2)'
    BY <1>1, <1>2 DEF Wrong
  <1>4. Follows(token_index - 1, N, M)' /\ \A N2, M2 \in Nat : ~Follows(token_index, N2, M2)'
    BY <1>1, <1>2, <1>3 DEF Follows
  <1>5. Deepest' = Deepest
    BY DEF Deepest
  <1>6. Fits(token_index)' = Fits(token_index)
    BY <1>1, <1>2 DEF Fits, StackNeeded, Open
  <1> QED BY <1>2, <1>4, <1>5, <1>6 DEF Wrong

LEMMA RecoveringStep ==
    ASSUME Recovering, ParserNext
    PROVE  PInv'
  <1>1. /\ parse_pc = "recovering" /\ Wrong /\ IsSeq(stack) /\ Len(stack) \in 1 .. YYMAXDEPTH
        /\ Plain /\ Stands(1, Goal, 0) /\ Len(stack) \in Nat /\ Len(stack) >= 1
        /\ State = stack[Len(stack)].state /\ YYMAXDEPTH \in Nat
    BY StateIs, FrontendAssumption DEF Recovering
  <1>2. PopState \/ ShiftError \/ Overflow
    BY <1>1 DEF ParserNext, Shift, Accept, SyntaxError, ReduceError, Reduce, Reading, Reducing
  <1>3. CASE PopState
    <2>1. /\ Goto(State, "error") = {} /\ stack' = Front(stack)
          /\ tokens' = tokens /\ token_index' = token_index /\ parse_pc' = "recovering"
      BY <1>1, <1>3 DEF PopState
    <2>2. Len(stack) # 1
      <3>1. ASSUME Len(stack) = 1 PROVE FALSE
        <4>1. State = Single(Goal, 0)
          BY <1>1, <3>1 DEF Stands
        <4>2. Single(BadItem, 1) # {}
          BY DEF Single
        <4> QED BY <2>1, <4>1, <4>2, FromGoal0
      <3> QED BY <3>1
    <2>3. PICK m \in Nat : m = Len(stack) - 1 /\ m >= 1 /\ m \in 0 .. Len(stack)
      <3>1. PICK n \in Nat : n = Len(stack) /\ n # 1 /\ n >= 1
        BY <1>1, <2>2
      <3>2. n - 1 \in Nat /\ n - 1 >= 1 /\ n - 1 \in 0 .. n
        BY <3>1
      <3> QED BY <3>1, <3>2
    <2>4. /\ IsSeq(stack') /\ Len(stack') = m /\ \A k \in 1 .. m : stack'[k] = stack[k]
      <3>1. stack' = SubSeq(stack, 1, m)
        BY <1>1, <2>1, <2>3, SeqEnds
      <3> QED BY <1>1, <2>3, <3>1, SeqPrefix
    <2>5. Plain'
      <3>1. \A k \in 1 .. m : k \in 1 .. Len(stack) /\ stack'[k] = stack[k]
        BY <1>1, <2>3, <2>4
      <3> QED BY <1>1, <2>4, <3>1 DEF Plain, Stands
    <2>6. Stands(1, Goal, 0)' /\ Len(stack') \in 1 .. YYMAXDEPTH /\ Len(stack') # YYMAXDEPTH
      BY <1>1, <2>3, <2>4 DEF Stands
    <2>7. Wrong'
      BY <1>1, <2>1, WrongStays
    <2> QED BY <2>1, <2>4, <2>5, <2>6, <2>7 DEF Recovering, PInv
  <1>4. CASE ShiftError
    <2>1. /\ Goto(State, "error") # {} /\ tokens' = tokens /\ token_index' = token_index
          /\ parse_pc' = "parsing"
          /\ stack' = Append(stack, Entry(Goto(State, "error"), error_loc, NoValue))
      BY <1>4 DEF ShiftError
    <2>2. PICK q \in BadRules : Goto(State, "error") = Single(q, 1)
      <3>1. Len(stack) \in 1 .. Len(stack)
        BY <1>1
      <3>2. PICK r \in GoodRules \cup {Goal}, d \in 0 .. 4 :
               d <= Len(r.rhs) /\ State = Single(r, d)
        BY <1>1, <3>1 DEF Plain, Stands
      <3> QED BY <2>1, <3>2, GotoError
    <2> DEFINE e == Entry(Goto(State, "error"), error_loc, NoValue)
    <2>3. e.state = Single(q, 1)
      BY <2>2, EntryFields
    <2> HIDE DEF e
    <2>4. IsSeq(stack') /\ Len(stack') = Len(stack) + 1 /\ stack'[Len(stack) + 1] = e
      BY <1>1, <2>1, SeqAppend DEF e
    <2>5. State' = Single(q, 1)
      <3>1. Len(stack') >= 1
        BY <1>1, <2>4
      <3>2. Last(stack') = e
        BY <2>4, <3>1, SeqEnds
      <3> QED BY <2>3, <3>2 DEF State
    <2>6. Wrong'
      BY <1>1, <2>1, WrongStays
    <2> QED BY <2>1, <2>5, <2>6 DEF Reporting, PInv
  <1>5. CASE Overflow
    <2>1. /\ Goto(State, "error") # {} /\ Len(stack) = YYMAXDEPTH /\ tokens' = tokens
          /\ token_index' = token_index /\ parse_pc' = "done" /\ parse_result'.kind = "YaccError"
      BY <1>1, <1>5 DEF Overflow, Reading, Full, yyerror
    <2>2. ~Fits(token_index)' /\ Wrong'
      BY <1>1, <2>1, WrongStays DEF Recovering
    <2>3. token_index' \in 0 .. Len(tokens') /\ IsTokenList(tokens)'
      BY <1>1, <2>1, <2>2 DEF Wrong
    <2> QED BY <2>1, <2>2, <2>3 DEF Finished, PInv
  <1> QED BY <1>2, <1>3, <1>4, <1>5

LEMMA ReportingStep ==
    ASSUME Reporting, ParserNext
    PROVE  PInv'
  <1>1. PICK r \in BadRules : State = Single(r, 1) /\ parse_pc = "parsing" /\ Wrong
    BY DEF Reporting
  <1>2. /\ tokens' = tokens /\ token_index' = token_index
        /\ parse_pc' = "done" /\ parse_result'.kind = "ParseError"
    BY <1>1, BadStep
  <1>3. Wrong'
    BY <1>1, <1>2, WrongStays
  <1>4. token_index' \in 0 .. Len(tokens') /\ IsTokenList(tokens)'
    <2>1. IsTokenList(tokens)' /\ token_index' \in 1 .. Len(tokens')
      BY <1>3 DEF Wrong
    <2> QED BY <2>1
  <1> QED BY <1>2, <1>3, <1>4 DEF Finished, PInv

LEMMA ParserStep ==
    ASSUME PInv, ParserNext, parse_pc # "done"
    PROVE  PInv'
  <1>1. CASE Recovering
    BY <1>1, RecoveringStep
  <1>2. CASE Reporting
    BY <1>2, ReportingStep
  <1>3. ASSUME NEW N \in Nat, NEW M \in Nat, Placed(N, M) PROVE PInv'
    <2>1. "type" \in Zones /\ "value" \in Zones
      BY DEF Zones
    <2> QED BY <1>3, <2>1, HeadSteps, ExprSteps, MiddleSteps, TailSteps DEF Placed
  <1>4. ~Finished
    BY DEF Finished
  <1> QED BY <1>1, <1>2, <1>3, <1>4 DEF PInv

LEMMA ParserStart ==
    ASSUME NEW list, IsTokenList(list), ParserInit(list)
    PROVE  PInv
  <1>1. /\ tokens = list /\ token_index = 0 /\ parse_pc = "parsing"
        /\ stack = <<Entry({Dotted(Goal, 0)}, 0, NoValue)>>
    BY DEF ParserInit
  <1> DEFINE e == Entry({Dotted(Goal, 0)}, 0, NoValue)
  <1>2. e.state = Single(Goal, 0)
    BY EntryFields DEF Single
  <1> HIDE DEF e
  <1>3. stack = <<e>> /\ Len(stack) = 1 /\ stack[1] = e
    BY <1>1 DEF e
  <1>4. IsSeq(stack)
    <2>1. stack \in Seq({e})
      BY <1>3
    <2> QED BY <2>1, SeqIsSeq
  <1>5. Stands(1, Goal, 0) /\ Plain
    <2>1. Stands(1, Goal, 0)
      BY <1>2, <1>3 DEF Stands
    <2>2. 0 \in 0 .. 4 /\ 0 <= Len(Goal.rhs) /\ Goal \in GoodRules \cup {Goal}
      BY EachRule
    <2>3. \A k \in 1 .. Len(stack) : k = 1
      BY <1>3
    <2> QED BY <2>1, <2>2, <2>3 DEF Plain
  <1>6. Follows(0, 0, 0) /\ Fits(0)
    BY DEF Follows, Fits
  <1>7. Sound(0, 0)
    BY <1>1, <1>3, <1>4, <1>5, <1>6, GoodAre, TokenListIs, FrontendAssumption DEF Sound
  <1>8. At(0, 1, 0)
    BY <1>1, <1>3, OpenFirst DEF At
  <1> QED BY <1>7, <1>8 DEF InHead, Placed, PInv

LEMMA ParserSame ==
    ASSUME PInv, UNCHANGED syntax
    PROVE  PInv'
  <1>1. /\ tokens' = tokens /\ token_index' = token_index /\ parse_result' = parse_result
        /\ parse_pc' = parse_pc /\ stack' = stack
    BY DEF syntax
  <1>2. /\ \A k, r, d : Stands(k, r, d)' = Stands(k, r, d)
        /\ State' = State /\ Deepest' = Deepest
    BY <1>1 DEF Stands, State, Deepest
  <1>3. Plain' = Plain
    BY <1>1, <1>2 DEF Plain
  <1>4. /\ IsTokenList(tokens)' = IsTokenList(tokens)
        /\ \A k : (Open(k)' = Open(k)) /\ (Fits(k)' = Fits(k))
        /\ \A n, N, M : Follows(n, N, M)' = Follows(n, N, M)
        /\ \A N, M : /\ TypeNode(N)' = TypeNode(N) /\ BodyNode(N, M)' = BodyNode(N, M)
                     /\ ItemNode(N, M)' = ItemNode(N, M)
        /\ \A z, N, M : ExprToken(z, N, M)' = ExprToken(z, N, M)
        /\ \A k : (tokens[k])' = tokens[k]
    BY <1>1, SameTokens
  <1>5. /\ Open(token_index + 1)' = Open(token_index + 1)
        /\ Fits(token_index)' = Fits(token_index) /\ Fits(Len(tokens))' = Fits(Len(tokens))
        /\ \A N, M : /\ Follows(token_index, N, M)' = Follows(token_index, N, M)
                     /\ Follows(token_index - 1, N, M)' = Follows(token_index - 1, N, M)
                     /\ Follows(Len(tokens), N, M)' = Follows(Len(tokens), N, M)
    BY <1>1 DEF Open, Fits, StackNeeded, Follows
  <1>6. \A i, size, open : At(i, size, open)' = At(i, size, open)
    BY <1>1, <1>5 DEF At
  <1>7. Wrong' = Wrong
    BY <1>1, <1>2, <1>4, <1>5 DEF Wrong
  <1>8. \A N, M : Sound(N, M)' = Sound(N, M)
    BY <1>1, <1>2, <1>3, <1>4, <1>5 DEF Sound
  <1>9. /\ AfterDef' = AfterDef /\ AfterName' = AfterName /\ InSignature' = InSignature
        /\ InType' = InType
        /\ \A N : InItem(N)' = InItem(N) /\ InBody(N)' = InBody(N) /\ InValue(N)' = InValue(N)
    BY <1>1, <1>2, <1>4 DEF AfterDef, AfterName, InSignature, InType, InItem, InBody, InValue
  <1>10. \A N, M : InHead(N, M)' = InHead(N, M) /\ InMiddle(N, M)' = InMiddle(N, M)
    BY <1>1, <1>2, <1>4, <1>6, <1>9 DEF InHead, InMiddle, LeafExpr
  <1>11. \A N, M : InTail(N, M)' = InTail(N, M)
    BY <1>1, <1>2, <1>4, <1>6, <1>9 DEF InTail
  <1>12. \A z, N, M, c : Zone(z, N, M, c)' = Zone(z, N, M, c)
    BY <1>2, <1>9 DEF Zone
  <1>13. \A z, N, M : ExprOpen(z, N, M)' = ExprOpen(z, N, M)
             /\ LeafRead(z, N, M)' = LeafRead(z, N, M)
    BY <1>1, <1>2, <1>4, <1>6, <1>12 DEF ExprOpen, LeafRead
  <1>14. \A z, N, M, c, r, d : ExprAt(z, N, M, c, r, d)' = ExprAt(z, N, M, c, r, d)
    BY <1>1, <1>2, <1>4, <1>6, <1>12 DEF ExprAt, LeafExpr
  <1>15. \A z, N, M, c : ExprClosing(z, N, M, c)' = ExprClosing(z, N, M, c)
    BY <1>1, <1>2, <1>4, <1>6, <1>12 DEF ExprClosing, LeafExpr
  <1>16. \A z, N, M : InExpr(z, N, M)' = InExpr(z, N, M)
    BY <1>13, <1>14, <1>15 DEF InExpr
  <1>17. \A N, M : Placed(N, M)' = Placed(N, M)
    BY <1>8, <1>10, <1>11, <1>16 DEF Placed
  <1>18. Finished' = Finished /\ Recovering' = Recovering /\ Reporting' = Reporting
    <2>1. Finished' = Finished
      BY <1>1, <1>2, <1>4, <1>5, <1>7 DEF Finished
    <2>2. Recovering' = Recovering
      BY <1>1, <1>2, <1>3, <1>5, <1>7 DEF Recovering
    <2>3. Reporting' = Reporting
      BY <1>1, <1>2, <1>7 DEF Reporting
    <2> QED BY <2>1, <2>2, <2>3
  <1> QED BY <1>17, <1>18 DEF PInv

LEMMA PInvHolds == FrontendSpec => []PInv
  <1>1. FrontendInit => PInv
    BY ParserStart, FrontendAssumption DEF FrontendInit
  <1>2. PInv /\ [FrontendNext]_all_vars => PInv'
    <2> SUFFICES ASSUME PInv, [FrontendNext]_all_vars PROVE PInv'
      OBVIOUS
    <2>1. CASE Parse
      BY <2>1, ParserStep DEF Parse
    <2>2. CASE UNCHANGED syntax
      BY <2>2, ParserSame
    <2>3. Parse \/ UNCHANGED syntax
      BY DEF FrontendNext, DumpParsed, StartCheck, ReportParse, Check, DumpChecked, DumpItem,
         all_vars
    <2> QED BY <2>1, <2>2, <2>3
  <1> QED BY <1>1, <1>2, PTL DEF FrontendSpec

-----------------------------------------------------------------------------
(* The sentences of the grammar of spec/parsing.md.                        *)
Symbols == {"Def", "Identifier", "IntLiteral", "LeftParen", "RightParen", "ThinArrow",
            "LeftCurly", "Return", "Semicolon", "RightCurly", "EndOfFile"}

Around(m, x) == [k \in 1 .. 2 * m + 1 |->
                    IF k <= m THEN "LeftParen" ELSE IF k = m + 1 THEN x ELSE "RightParen"]
Wrapped(n) == {Around(m, x) : m \in 0 .. n, x \in LeafKinds}

LEMMA AroundIs ==
    ASSUME NEW m \in Nat, NEW x \in LeafKinds
    PROVE  /\ Around(m, x) \in Seq(Symbols) /\ Len(Around(m, x)) = 2 * m + 1
           /\ \A k \in 1 .. 2 * m + 1 :
                 Around(m, x)[k] = IF k <= m THEN "LeftParen"
                                   ELSE IF k = m + 1 THEN x ELSE "RightParen"
  <1> DEFINE n == 2 * m + 1
             e(k) == IF k <= m THEN "LeftParen" ELSE IF k = m + 1 THEN x ELSE "RightParen"
  <1>1. n \in Nat /\ \A k \in 1 .. n : e(k) \in Symbols
    BY DEF LeafKinds, Symbols
  <1>2. Around(m, x) = [k \in 1 .. n |-> e(k)]
    BY DEF Around
  <1> HIDE DEF n, e
  <1>3. [k \in 1 .. n |-> e(k)] \in Seq(Symbols)
    BY <1>1
  <1>4. Len([k \in 1 .. n |-> e(k)]) = n
    BY <1>1
  <1>5. \A k \in 1 .. n : [q \in 1 .. n |-> e(q)][k] = e(k)
    OBVIOUS
  <1> QED BY <1>2, <1>3, <1>4, <1>5 DEF n, e

OfLength(s, n) == s \in Seq(Symbols) /\ n \in Nat /\ Len(s) = n
IsJoin(j, s, t, a, b) ==
    OfLength(j, a + b) /\ \A k \in 1 .. a + b : j[k] = IF k <= a THEN s[k] ELSE t[k - a]

LEMMA Joined ==
    ASSUME NEW s, NEW t, NEW a, NEW b, OfLength(s, a), OfLength(t, b)
    PROVE  IsJoin(s \o t, s, t, a, b)
  <1> USE DEF OfLength
  <1>1. s \o t \in Seq(Symbols)
    BY ConcatProperties
  <1>2. Len(s \o t) = a + b
    BY ConcatProperties
  <1>3. \A k \in 1 .. a + b : (s \o t)[k] = IF k <= a THEN s[k] ELSE t[k - a]
    BY ConcatProperties
  <1> DEFINE j == s \o t
  <1> HIDE DEF j
  <1>4. \A k \in 1 .. a + b : j[k] = IF k <= a THEN s[k] ELSE t[k - a]
    BY <1>3 DEF j
  <1> QED BY <1>1, <1>2, <1>4 DEF j, IsJoin

LEMMA AroundNext ==
    ASSUME NEW m \in Nat, NEW x \in LeafKinds
    PROVE  (<<"LeftParen">> \o Around(m, x)) \o <<"RightParen">> = Around(m + 1, x)
  <1> DEFINE l == <<"LeftParen">>
             r == <<"RightParen">>
             s == Around(m, x)
             t == Around(m + 1, x)
  <1>1. /\ l \in Seq(Symbols) /\ Len(l) = 1 /\ l[1] = "LeftParen"
        /\ r \in Seq(Symbols) /\ Len(r) = 1 /\ r[1] = "RightParen"
    BY DEF Symbols
  <1>2. PICK n \in Nat : n = 2 * m + 1
    OBVIOUS
  <1>3. /\ s \in Seq(Symbols) /\ Len(s) = n
        /\ \A k \in 1 .. n :
              s[k] = IF k <= m THEN "LeftParen" ELSE IF k = m + 1 THEN x ELSE "RightParen"
    BY <1>2, AroundIs
  <1>4. /\ t \in Seq(Symbols) /\ Len(t) = n + 2
        /\ \A k \in 1 .. n + 2 :
              t[k] = IF k <= m + 1 THEN "LeftParen" ELSE IF k = m + 2 THEN x ELSE "RightParen"
    <2>1. PICK q \in Nat : q = m + 1 /\ 2 * q + 1 = n + 2 /\ q + 1 = m + 2
      BY <1>2
    <2>2. /\ Around(q, x) \in Seq(Symbols) /\ Len(Around(q, x)) = 2 * q + 1
          /\ \A k \in 1 .. 2 * q + 1 :
                Around(q, x)[k] = IF k <= q THEN "LeftParen" ELSE IF k = q + 1 THEN x
                    ELSE "RightParen"
      BY AroundIs
    <2> QED BY <2>1, <2>2
  <1> HIDE DEF l, r, s, t
  <1> DEFINE ls == l \o s
             lsr == ls \o r
  <1>5. /\ ls \in Seq(Symbols) /\ Len(ls) = 1 + n
        /\ \A k \in 1 .. 1 : ls[k] = l[k]
        /\ \A k \in 1 .. n : ls[1 + k] = s[k]
    <2>1. OfLength(l, 1) /\ OfLength(s, n)
      BY <1>1, <1>3 DEF OfLength
    <2>2. IsJoin(l \o s, l, s, 1, n)
      BY <2>1, Joined
    <2> QED BY <2>2 DEF IsJoin, OfLength
  <1> HIDE DEF ls
  <1>6. /\ lsr \in Seq(Symbols) /\ Len(lsr) = (1 + n) + 1
        /\ \A k \in 1 .. 1 + n : lsr[k] = ls[k]
        /\ \A k \in 1 .. 1 : lsr[(1 + n) + k] = r[k]
    <2>1. OfLength(ls, 1 + n) /\ OfLength(r, 1)
      BY <1>1, <1>5 DEF OfLength
    <2>2. IsJoin(ls \o r, ls, r, 1 + n, 1)
      BY <2>1, Joined
    <2> QED BY <2>2 DEF IsJoin, OfLength
  <1> HIDE DEF lsr
  <1>7. \A k \in 1 .. n + 2 : lsr[k] = t[k]
    <2> TAKE k \in 1 .. n + 2
    <2>1. CASE k = 1
      <3>1. lsr[1] = ls[1] /\ ls[1] = l[1]
        BY <1>5, <1>6
      <3>2. t[1] = "LeftParen"
        BY <1>4
      <3> QED BY <1>1, <2>1, <3>1, <3>2
    <2>2. CASE k \in 2 .. n + 1
      <3>1. PICK i \in 1 .. n : k = 1 + i
        <4>1. k - 1 \in 1 .. n /\ k = 1 + (k - 1)
          BY <2>2
        <4> QED BY <4>1
      <3>2. lsr[1 + i] = ls[1 + i] /\ ls[1 + i] = s[i]
        <4>1. 1 + i \in 1 .. 1 + n
          OBVIOUS
        <4> QED BY <1>5, <1>6, <4>1
      <3>3. s[i] = IF i <= m THEN "LeftParen" ELSE IF i = m + 1 THEN x ELSE "RightParen"
        BY <1>3
      <3>4. t[k] = IF k <= m + 1 THEN "LeftParen" ELSE IF k = m + 2 THEN x ELSE "RightParen"
        BY <1>4
      <3>5. (k <= m + 1 <=> i <= m) /\ (k = m + 2 <=> i = m + 1)
        BY <3>1
      <3> QED BY <3>1, <3>2, <3>3, <3>4, <3>5, Zenon
    <2>3. CASE k = n + 2
      <3>1. (1 + n) + 1 = k /\ 1 \in 1 .. 1 /\ ~(k <= m + 1) /\ ~(k = m + 2)
        BY <1>2, <2>3
      <3>2. lsr[k] = r[1]
        BY <1>6, <3>1
      <3>3. t[k] = "RightParen"
        BY <1>4, <3>1
      <3> QED BY <1>1, <3>2, <3>3
    <2> QED BY <2>1, <2>2, <2>3
  <1>8. lsr = t
    <2>1. Len(lsr) = n + 2 /\ Len(t) = n + 2
      BY <1>4, <1>6
    <2> QED BY <1>4, <1>6, <1>7, <2>1, SeqEqual
  <1> QED BY <1>8 DEF l, r, s, t, ls, lsr

LEMMA AroundNone ==
    ASSUME NEW x \in LeafKinds
    PROVE  Around(0, x) = <<x>>
  <1>1. PICK m \in Nat : m = 0 /\ 2 * m + 1 = 1
    OBVIOUS
  <1>2. /\ Around(m, x) \in Seq(Symbols) /\ Len(Around(m, x)) = 2 * m + 1
        /\ \A k \in 1 .. 2 * m + 1 :
              Around(m, x)[k] = IF k <= m THEN "LeftParen" ELSE IF k = m + 1 THEN x
                  ELSE "RightParen"
    BY AroundIs
  <1>3. Len(Around(m, x)) = 1 /\ Around(m, x)[1] = x
    BY <1>1, <1>2
  <1>4. <<x>> \in Seq(Symbols) /\ Len(<<x>>) = 1 /\ <<x>>[1] = x
    BY DEF LeafKinds, Symbols
  <1>5. \A k \in 1 .. 1 : Around(m, x)[k] = <<x>>[k]
    BY <1>3, <1>4
  <1>6. Around(m, x) = <<x>>
    BY <1>2, <1>3, <1>4, <1>5, SeqEqual
  <1> QED BY <1>1, <1>6

LEMMA ThenIs ==
    ASSUME NEW A, NEW B, NEW s
    PROVE  s \in Grammar!Then(A, B) <=> \E l \in A, r \in B : s = l \o r
  BY DEF Grammar!Then

LEMMA TokenIs ==
    ASSUME NEW x, NEW s
    PROVE  s \in Grammar!Token(x) <=> s = <<x>>
  BY DEF Grammar!Token

LEMMA WrappedIs ==
    ASSUME NEW n, NEW s
    PROVE  s \in Wrapped(n) <=> \E m \in 0 .. n, x \in LeafKinds : s = Around(m, x)
  BY SMT DEF Wrapped

LEMMA WrappedNext ==
    ASSUME NEW n \in Nat
    PROVE  Wrapped(n) = Grammar!Token("Identifier") \cup Grammar!Token("IntLiteral") \cup
              (IF n = 0 THEN {}
               ELSE Grammar!Then(Grammar!Then(Grammar!Token("LeftParen"), Wrapped(n - 1)),
                                 Grammar!Token("RightParen")))
  <1> DEFINE L == Grammar!Token("Identifier") \cup Grammar!Token("IntLiteral")
             P == Grammar!Token("LeftParen")
             R == Grammar!Token("RightParen")
             D == Grammar!Then(Grammar!Then(P, Wrapped(n - 1)), R)
  <1>1. \A s : s \in L <=> \E x \in LeafKinds : s = Around(0, x)
    <2>1. \A s : s \in L <=> \E x \in LeafKinds : s = <<x>>
      BY TokenIs DEF LeafKinds
    <2> QED BY <2>1, AroundNone, Zenon
  <1>2. ASSUME n # 0
        PROVE  \A s : s \in D <=> \E m \in 1 .. n, x \in LeafKinds : s = Around(m, x)
    <2>1. \A s : s \in D <=> \E w \in Wrapped(n - 1) :
              s = (<<"LeftParen">> \o w) \o <<"RightParen">>
      <3>1. \A s : s \in P <=> s = <<"LeftParen">>
        BY TokenIs
      <3>2. \A s : s \in R <=> s = <<"RightParen">>
        BY TokenIs
      <3> DEFINE W == Wrapped(n - 1)
                 Q == Grammar!Then(P, W)
      <3> HIDE DEF P, R, W
      <3>3. \A q : q \in Q <=> \E w \in W : q = <<"LeftParen">> \o w
        <4>1. \A q : q \in Q <=> \E l \in P, r \in W : q = l \o r
          BY ThenIs
        <4>2. <<"LeftParen">> \in P
          BY <3>1
        <4> HIDE DEF Q
        <4>3. ASSUME NEW q \in Q PROVE \E w \in W : q = <<"LeftParen">> \o w
          <5>1. PICK l \in P, r \in W : q = l \o r
            BY <4>1
          <5> QED BY <3>1, <5>1
        <4>4. ASSUME NEW w \in W PROVE <<"LeftParen">> \o w \in Q
          BY <4>1, <4>2
        <4> QED BY <4>3, <4>4, Zenon
      <3>4. \A s : s \in Grammar!Then(Q, R) <=> \E q \in Q, r \in R : s = q \o r
        BY ThenIs
      <3> HIDE DEF Q
      <3>5. \A s : s \in Grammar!Then(Q, R)
                <=> \E w \in W : s = (<<"LeftParen">> \o w) \o <<"RightParen">>
        <4> DEFINE S == Grammar!Then(Q, R)
        <4>1. <<"RightParen">> \in R
          BY <3>2
        <4> HIDE DEF S
        <4>2. ASSUME NEW s \in S
              PROVE  \E w \in W : s = (<<"LeftParen">> \o w) \o <<"RightParen">>
          <5>1. PICK q \in Q, r \in R : s = q \o r
            BY <3>4 DEF S
          <5>2. PICK w \in W : q = <<"LeftParen">> \o w
            BY <3>3
          <5> QED BY <3>2, <5>1, <5>2
        <4>3. ASSUME NEW w \in W
              PROVE  (<<"LeftParen">> \o w) \o <<"RightParen">> \in S
          <5>1. <<"LeftParen">> \o w \in Q
            BY <3>3
          <5> QED BY <3>4, <4>1, <5>1 DEF S
        <4> QED BY <4>2, <4>3, Zenon DEF S
      <3> QED BY <3>5 DEF Q, W, P, R
    <2> HIDE DEF D
    <2>2. ASSUME NEW s, s \in D
          PROVE  \E m \in 1 .. n, x \in LeafKinds : s = Around(m, x)
      <3>1. PICK w \in Wrapped(n - 1) : s = (<<"LeftParen">> \o w) \o <<"RightParen">>
        BY <2>1, <2>2
      <3>2. PICK m \in 0 .. n - 1, x \in LeafKinds : w = Around(m, x)
        BY WrappedIs
      <3>3. m \in Nat /\ m + 1 \in 1 .. n
        BY <1>2
      <3>4. s = Around(m + 1, x)
        BY <3>1, <3>2, <3>3, AroundNext
      <3> QED BY <3>3, <3>4
    <2>3. ASSUME NEW m \in 1 .. n, NEW x \in LeafKinds PROVE Around(m, x) \in D
      <3>1. PICK q \in 0 .. n - 1 : m = q + 1 /\ q \in Nat
        <4>1. m - 1 \in 0 .. n - 1 /\ m = (m - 1) + 1 /\ m - 1 \in Nat
          OBVIOUS
        <4> QED BY <4>1
      <3>2. Around(m, x) = (<<"LeftParen">> \o Around(q, x)) \o <<"RightParen">>
        BY <3>1, AroundNext
      <3>3. Around(q, x) \in Wrapped(n - 1)
        BY <3>1, WrappedIs
      <3> QED BY <2>1, <3>2, <3>3
    <2> QED BY <2>2, <2>3, Zenon
  <1>3. \A s : s \in Wrapped(n) <=> \E m \in 0 .. n, x \in LeafKinds : s = Around(m, x)
    BY WrappedIs
  <1>4. \A m : m \in 0 .. n <=> (m = 0 \/ (n # 0 /\ m \in 1 .. n))
    OBVIOUS
  <1> HIDE DEF L, D
  <1>5. \A s : s \in Wrapped(n) <=> (s \in L \/ (n # 0 /\ s \in D))
    <2> TAKE s
    <2>1. CASE n = 0
      BY <1>1, <1>3, <1>4, <2>1
    <2>2. CASE n # 0
      BY <1>1, <1>2, <1>3, <1>4, <2>2, Zenon
    <2> QED BY <2>1, <2>2
  <1>6. Wrapped(n) = L \cup (IF n = 0 THEN {} ELSE D)
    BY <1>5
  <1> QED BY <1>6 DEF L, D

LEMMA ExprIs == Grammar!expr = Wrapped(GrammarDepth)
  <1> DEFINE n == GrammarDepth
             T(w) == Grammar!Then(Grammar!Then(Grammar!Token("LeftParen"), w),
                                  Grammar!Token("RightParen"))
             L == Grammar!Token("Identifier") \cup Grammar!Token("IntLiteral")
             Rec(f) == f = [k \in 0 .. n |-> L \cup (IF k = 0 THEN {} ELSE T(f[k - 1]))]
             f == CHOOSE f : Rec(f)
             g == [k \in 0 .. n |-> Wrapped(k)]
  <1>1. n \in Nat
    BY FrontendAssumption
  <1>2. Grammar!expr = f[n]
    BY DEF Grammar!expr
  <1>3. \A k \in 0 .. n : Wrapped(k) = L \cup (IF k = 0 THEN {} ELSE T(Wrapped(k - 1)))
    BY <1>1, WrappedNext
  <1> HIDE DEF L, T
  <1>4. Rec(g)
    <2>1. \A k \in 0 .. n : k # 0 => g[k - 1] = Wrapped(k - 1)
      BY <1>1
    <2>2. \A k \in 0 .. n : Wrapped(k) = L \cup (IF k = 0 THEN {} ELSE T(g[k - 1]))
      BY <1>3, <2>1
    <2>3. g = [k \in 0 .. n |-> L \cup (IF k = 0 THEN {} ELSE T(g[k - 1]))]
      BY <2>2
    <2> QED BY <2>3
  <1>5. Rec(f)
    <2> HIDE DEF Rec, g
    <2> QED BY <1>4
  <1>6. \A k \in 0 .. n : f[k] = L \cup (IF k = 0 THEN {} ELSE T(f[k - 1]))
    <2> HIDE DEF f
    <2> QED BY <1>5
  <1> HIDE DEF f, Rec, g
  <1> DEFINE R == {k \in 0 .. n : f[k] = Wrapped(k)}
  <1>7. 0 \in R
    BY <1>1, <1>3, <1>6
  <1>8. ASSUME NEW k \in 0 + 1 .. n, k - 1 \in R PROVE k \in R
    <2>1. k \in 0 .. n /\ k # 0 /\ f[k - 1] = Wrapped(k - 1)
      BY <1>8
    <2> QED BY <1>3, <1>6, <2>1
  <1> HIDE DEF R
  <1>9. \A k \in 0 .. n : k \in R
    BY <1>1, <1>7, <1>8, UpTo
  <1>10. n \in R
    BY <1>1, <1>9
  <1> QED BY <1>2, <1>10 DEF R

-----------------------------------------------------------------------------
(* A file is the concatenation of its tokens and of two expressions.       *)
Signature(e) == (<<"LeftParen">> \o <<"RightParen">>) \o (<<"ThinArrow">> \o e)
Block(e) == (<<"LeftCurly">> \o (<<"Return">> \o e)) \o (<<"Semicolon">> \o <<"RightCurly">>)
Whole(d, e) == ((<<"Def">> \o <<"Identifier">>) \o (Signature(d) \o Block(e))) \o <<"EndOfFile">>

LEMMA SignatureIs ==
    ASSUME NEW s
    PROVE  s \in Grammar!function_item_signature <=> \E e \in Grammar!expr : s = Signature(e)
  <1> DEFINE T(x) == Grammar!Token(x)
             P == Grammar!Then(T("LeftParen"), T("RightParen"))
             A == Grammar!Then(T("ThinArrow"), Grammar!expr)
  <1>1. Grammar!function_item_signature = Grammar!Then(P, A)
    BY DEF Grammar!function_item_signature, Grammar!function_item_params, Grammar!return_type,
           Grammar!type
  <1> HIDE DEF T, P, A
  <1>2. s \in Grammar!Then(P, A) <=> \E l \in P, r \in A : s = l \o r
    BY ThenIs
  <1>3. \A l : l \in P <=> l = <<"LeftParen">> \o <<"RightParen">>
    <2> TAKE l
    <2>1. l \in P <=> \E u \in T("LeftParen"), v \in T("RightParen") : l = u \o v
      BY ThenIs DEF P
    <2>2. \A x, u : u \in T(x) <=> u = <<x>>
      BY TokenIs DEF T
    <2> QED BY <2>1, <2>2
  <1>4. \A r : r \in A <=> \E e \in Grammar!expr : r = <<"ThinArrow">> \o e
    <2> TAKE r
    <2>1. r \in A <=> \E u \in T("ThinArrow"), e \in Grammar!expr : r = u \o e
      BY ThenIs DEF A
    <2>2. \A x, u : u \in T(x) <=> u = <<x>>
      BY TokenIs DEF T
    <2> QED BY <2>1, <2>2
  <1>5. s \in Grammar!Then(P, A) <=> \E e \in Grammar!expr : s = Signature(e)
    <2>1. ASSUME s \in Grammar!Then(P, A) PROVE \E e \in Grammar!expr : s = Signature(e)
      <3>1. PICK l \in P, r \in A : s = l \o r
        BY <1>2, <2>1
      <3>2. PICK e \in Grammar!expr : r = <<"ThinArrow">> \o e
        BY <1>4
      <3> QED BY <1>3, <3>1, <3>2 DEF Signature
    <2>2. ASSUME NEW e \in Grammar!expr, s = Signature(e) PROVE s \in Grammar!Then(P, A)
      <3>1. <<"LeftParen">> \o <<"RightParen">> \in P /\ <<"ThinArrow">> \o e \in A
        BY <1>3, <1>4
      <3> QED BY <1>2, <2>2, <3>1 DEF Signature
    <2> QED BY <2>1, <2>2
  <1> QED BY <1>1, <1>5

LEMMA BlockIs ==
    ASSUME NEW s
    PROVE  s \in Grammar!block <=> \E e \in Grammar!expr : s = Block(e)
  <1> DEFINE T(x) == Grammar!Token(x)
             R == Grammar!Then(T("Return"), Grammar!expr)
             A == Grammar!Then(T("LeftCurly"), R)
             P == Grammar!Then(T("Semicolon"), T("RightCurly"))
  <1>1. Grammar!block = Grammar!Then(A, P)
    BY DEF Grammar!block, Grammar!stmt, Grammar!return_stmt
  <1> HIDE DEF T, P, A, R
  <1>2. s \in Grammar!Then(A, P) <=> \E l \in A, r \in P : s = l \o r
    BY ThenIs
  <1>3. \A l : l \in P <=> l = <<"Semicolon">> \o <<"RightCurly">>
    <2> TAKE l
    <2>1. l \in P <=> \E u \in T("Semicolon"), v \in T("RightCurly") : l = u \o v
      BY ThenIs DEF P
    <2>2. \A x, u : u \in T(x) <=> u = <<x>>
      BY TokenIs DEF T
    <2> QED BY <2>1, <2>2
  <1>4. \A r : r \in R <=> \E e \in Grammar!expr : r = <<"Return">> \o e
    <2> TAKE r
    <2>1. r \in R <=> \E u \in T("Return"), e \in Grammar!expr : r = u \o e
      BY ThenIs DEF R
    <2>2. \A x, u : u \in T(x) <=> u = <<x>>
      BY TokenIs DEF T
    <2> QED BY <2>1, <2>2
  <1>5. \A r : r \in A <=> \E e \in Grammar!expr : r = <<"LeftCurly">> \o (<<"Return">> \o e)
    <2> TAKE r
    <2>1. r \in A <=> \E u \in T("LeftCurly"), q \in R : r = u \o q
      BY ThenIs DEF A
    <2>2. \A x, u : u \in T(x) <=> u = <<x>>
      BY TokenIs DEF T
    <2>3. ASSUME r \in A PROVE \E e \in Grammar!expr : r = <<"LeftCurly">> \o (<<"Return">> \o e)
      <3>1. PICK u \in T("LeftCurly"), q \in R : r = u \o q
        BY <2>1, <2>3
      <3>2. PICK e \in Grammar!expr : q = <<"Return">> \o e
        BY <1>4
      <3> QED BY <2>2, <3>1, <3>2
    <2>4. ASSUME NEW e \in Grammar!expr, r = <<"LeftCurly">> \o (<<"Return">> \o e) PROVE r \in A
      <3>1. <<"LeftCurly">> \in T("LeftCurly") /\ <<"Return">> \o e \in R
        BY <1>4, <2>2
      <3> QED BY <2>1, <2>4, <3>1
    <2> QED BY <2>3, <2>4
  <1>6. s \in Grammar!Then(A, P) <=> \E e \in Grammar!expr : s = Block(e)
    <2>1. ASSUME s \in Grammar!Then(A, P) PROVE \E e \in Grammar!expr : s = Block(e)
      <3>1. PICK l \in A, r \in P : s = l \o r
        BY <1>2, <2>1
      <3>2. PICK e \in Grammar!expr : l = <<"LeftCurly">> \o (<<"Return">> \o e)
        BY <1>5
      <3> QED BY <1>3, <3>1, <3>2 DEF Block
    <2>2. ASSUME NEW e \in Grammar!expr, s = Block(e) PROVE s \in Grammar!Then(A, P)
      <3>1. /\ <<"Semicolon">> \o <<"RightCurly">> \in P
            /\ <<"LeftCurly">> \o (<<"Return">> \o e) \in A
        BY <1>3, <1>5
      <3> QED BY <1>2, <2>2, <3>1 DEF Block
    <2> QED BY <2>1, <2>2
  <1> QED BY <1>1, <1>6

LEMMA FileIs ==
    ASSUME NEW s
    PROVE  s \in Sentences <=> \E d, e \in Grammar!expr : s = Whole(d, e)
  <1> DEFINE T(x) == Grammar!Token(x)
             D == Grammar!Then(T("Def"), T("Identifier"))
             I == Grammar!Then(Grammar!function_item_signature, Grammar!block)
             F == Grammar!Then(D, I)
  <1>1. Sentences = Grammar!Then(F, T("EndOfFile"))
    BY DEF Sentences, Grammar!file, Grammar!item, Grammar!function_item
  <1> HIDE DEF T, D, I, F
  <1>2. \A x, u : u \in T(x) <=> u = <<x>>
    BY TokenIs DEF T
  <1>3. s \in Grammar!Then(F, T("EndOfFile")) <=> \E l \in F, r \in T("EndOfFile") : s = l \o r
    BY ThenIs
  <1>4. \A l : l \in D <=> l = <<"Def">> \o <<"Identifier">>
    <2> TAKE l
    <2>1. l \in D <=> \E u \in T("Def"), v \in T("Identifier") : l = u \o v
      BY ThenIs DEF D
    <2> QED BY <1>2, <2>1
  <1>5. \A r : r \in I <=> \E d, e \in Grammar!expr : r = Signature(d) \o Block(e)
    <2> TAKE r
    <2>1. r \in I <=> \E u \in Grammar!function_item_signature, v \in Grammar!block : r = u \o v
      BY ThenIs DEF I
    <2>2. \A u : u \in Grammar!function_item_signature
                  <=> \E d \in Grammar!expr : u = Signature(d)
      BY SignatureIs
    <2>3. \A v : v \in Grammar!block <=> \E e \in Grammar!expr : v = Block(e)
      BY BlockIs
    <2>4. ASSUME r \in I PROVE \E d, e \in Grammar!expr : r = Signature(d) \o Block(e)
      <3>1. PICK u \in Grammar!function_item_signature, v \in Grammar!block : r = u \o v
        BY <2>1, <2>4
      <3>2. PICK d \in Grammar!expr : u = Signature(d)
        BY <2>2
      <3>3. PICK e \in Grammar!expr : v = Block(e)
        BY <2>3
      <3> QED BY <3>1, <3>2, <3>3
    <2>5. ASSUME NEW d \in Grammar!expr, NEW e \in Grammar!expr, r = Signature(d) \o Block(e)
          PROVE  r \in I
      <3>1. Signature(d) \in Grammar!function_item_signature /\ Block(e) \in Grammar!block
        BY <2>2, <2>3
      <3> QED BY <2>1, <2>5, <3>1
    <2> QED BY <2>4, <2>5
  <1>6. \A r : r \in F <=> \E d, e \in Grammar!expr :
                 r = (<<"Def">> \o <<"Identifier">>) \o (Signature(d) \o Block(e))
    <2> TAKE r
    <2>1. r \in F <=> \E u \in D, v \in I : r = u \o v
      BY ThenIs DEF F
    <2>2. ASSUME r \in F
          PROVE  \E d, e \in Grammar!expr :
                    r = (<<"Def">> \o <<"Identifier">>) \o (Signature(d) \o Block(e))
      <3>1. PICK u \in D, v \in I : r = u \o v
        BY <2>1, <2>2
      <3>2. PICK d \in Grammar!expr, e \in Grammar!expr : v = Signature(d) \o Block(e)
        BY <1>5
      <3> QED BY <1>4, <3>1, <3>2
    <2>3. ASSUME NEW d \in Grammar!expr, NEW e \in Grammar!expr,
                 r = (<<"Def">> \o <<"Identifier">>) \o (Signature(d) \o Block(e))
          PROVE  r \in F
      <3>1. <<"Def">> \o <<"Identifier">> \in D /\ Signature(d) \o Block(e) \in I
        BY <1>4, <1>5
      <3> QED BY <2>1, <2>3, <3>1
    <2> QED BY <2>2, <2>3
  <1>7. s \in Grammar!Then(F, T("EndOfFile")) <=> \E d, e \in Grammar!expr : s = Whole(d, e)
    <2> DEFINE S == Grammar!Then(F, T("EndOfFile"))
    <2> HIDE DEF S
    <2>1. ASSUME s \in S PROVE \E d, e \in Grammar!expr : s = Whole(d, e)
      <3>1. PICK l \in F, r \in T("EndOfFile") : s = l \o r
        BY <1>3, <2>1 DEF S
      <3>2. PICK d \in Grammar!expr, e \in Grammar!expr :
               l = (<<"Def">> \o <<"Identifier">>) \o (Signature(d) \o Block(e))
        BY <1>6
      <3> QED BY <1>2, <3>1, <3>2 DEF Whole
    <2>2. ASSUME NEW d \in Grammar!expr, NEW e \in Grammar!expr, s = Whole(d, e) PROVE s \in S
      <3>1. /\ (<<"Def">> \o <<"Identifier">>) \o (Signature(d) \o Block(e)) \in F
            /\ <<"EndOfFile">> \in T("EndOfFile")
        BY <1>2, <1>6
      <3> QED BY <1>3, <2>2, <3>1 DEF Whole, S
    <2> QED BY <2>1, <2>2 DEF S
  <1> QED BY <1>1, <1>7

LEMMA SignatureAt ==
    ASSUME NEW e, NEW a, OfLength(e, a)
    PROVE  /\ OfLength(Signature(e), 3 + a)
           /\ Signature(e)[1] = "LeftParen" /\ Signature(e)[2] = "RightParen"
           /\ Signature(e)[3] = "ThinArrow"
           /\ \A k \in 4 .. 3 + a : Signature(e)[k] = e[k - 3]
  <1> DEFINE l == <<"LeftParen">>
             r == <<"RightParen">>
             t == <<"ThinArrow">>
             lr == l \o r
             te == t \o e
             s == lr \o te
  <1>1. /\ OfLength(l, 1) /\ OfLength(r, 1) /\ OfLength(t, 1)
        /\ l[1] = "LeftParen" /\ r[1] = "RightParen" /\ t[1] = "ThinArrow"
    BY DEF OfLength, Symbols
  <1> HIDE DEF l, r, t
  <1>2. IsJoin(lr, l, r, 1, 1) /\ IsJoin(te, t, e, 1, a)
    BY <1>1, Joined
  <1> HIDE DEF lr, te
  <1>3. OfLength(lr, 2) /\ OfLength(te, 1 + a)
    BY <1>2 DEF IsJoin
  <1>4. IsJoin(s, lr, te, 2, 1 + a)
    BY <1>3, Joined
  <1> HIDE DEF s
  <1>5. a \in Nat
    BY DEF OfLength
  <1>6. OfLength(s, 3 + a)
    BY <1>4, <1>5 DEF IsJoin
  <1>7. s[1] = "LeftParen" /\ s[2] = "RightParen" /\ s[3] = "ThinArrow"
    BY <1>1, <1>2, <1>4, <1>5 DEF IsJoin
  <1>8. \A k \in 4 .. 3 + a : s[k] = e[k - 3]
    BY <1>2, <1>4, <1>5 DEF IsJoin
  <1> QED BY <1>6, <1>7, <1>8 DEF s, lr, te, l, r, t, Signature

LEMMA BlockAt ==
    ASSUME NEW e, NEW b, OfLength(e, b)
    PROVE  /\ OfLength(Block(e), 4 + b)
           /\ Block(e)[1] = "LeftCurly" /\ Block(e)[2] = "Return"
           /\ \A k \in 3 .. 2 + b : Block(e)[k] = e[k - 2]
           /\ Block(e)[3 + b] = "Semicolon" /\ Block(e)[4 + b] = "RightCurly"
  <1> DEFINE l == <<"LeftCurly">>
             r == <<"RightCurly">>
             t == <<"Return">>
             c == <<"Semicolon">>
             te == t \o e
             lte == l \o te
             cr == c \o r
             s == lte \o cr
  <1>1. /\ OfLength(l, 1) /\ OfLength(r, 1) /\ OfLength(t, 1) /\ OfLength(c, 1)
        /\ l[1] = "LeftCurly" /\ r[1] = "RightCurly" /\ t[1] = "Return" /\ c[1] = "Semicolon"
    BY DEF OfLength, Symbols
  <1> HIDE DEF l, r, t, c
  <1>2. IsJoin(cr, c, r, 1, 1) /\ IsJoin(te, t, e, 1, b)
    BY <1>1, Joined
  <1> HIDE DEF cr, te
  <1>3. OfLength(cr, 2) /\ OfLength(te, 1 + b)
    BY <1>2 DEF IsJoin
  <1>4. IsJoin(lte, l, te, 1, 1 + b)
    BY <1>1, <1>3, Joined
  <1> HIDE DEF lte
  <1>5. b \in Nat
    BY DEF OfLength
  <1>6. OfLength(lte, 2 + b)
    BY <1>4, <1>5 DEF IsJoin
  <1>7. IsJoin(s, lte, cr, 2 + b, 2)
    BY <1>3, <1>6, Joined
  <1> HIDE DEF s
  <1>8. OfLength(s, 4 + b)
    BY <1>5, <1>7 DEF IsJoin
  <1>9. s[1] = "LeftCurly" /\ s[2] = "Return"
    BY <1>1, <1>2, <1>4, <1>5, <1>7 DEF IsJoin
  <1>10. s[3 + b] = "Semicolon" /\ s[4 + b] = "RightCurly"
    BY <1>1, <1>2, <1>5, <1>7 DEF IsJoin
  <1>11. \A k \in 3 .. 2 + b : s[k] = e[k - 2]
    BY <1>2, <1>4, <1>5, <1>7 DEF IsJoin
  <1> QED BY <1>8, <1>9, <1>10, <1>11 DEF s, lte, te, cr, l, r, t, c, Block

IsWhole(w, p, q, a, b) ==
    /\ OfLength(w, 10 + a + b)
    /\ w[1] = "Def" /\ w[2] = "Identifier"
    /\ \A k \in 3 .. 5 + a : w[k] = p[k - 2]
    /\ \A k \in 6 + a .. 9 + a + b : w[k] = q[k - (5 + a)]
    /\ w[10 + a + b] = "EndOfFile"

LEMMA WholeAt ==
    ASSUME NEW d, NEW e, NEW a, NEW b, OfLength(d, a), OfLength(e, b)
    PROVE  IsWhole(Whole(d, e), Signature(d), Block(e), a, b)
  <1> DEFINE p == <<"Def">>
             q == <<"Identifier">>
             z == <<"EndOfFile">>
             m == Signature(d)
             n == Block(e)
             pq == p \o q
             mn == m \o n
             f == pq \o mn
             s == f \o z
  <1>1. /\ OfLength(p, 1) /\ OfLength(q, 1) /\ OfLength(z, 1)
        /\ p[1] = "Def" /\ q[1] = "Identifier" /\ z[1] = "EndOfFile"
    BY DEF OfLength, Symbols
  <1> HIDE DEF p, q, z
  <1>2. a \in Nat /\ b \in Nat
    BY DEF OfLength
  <1>3. OfLength(m, 3 + a) /\ OfLength(n, 4 + b)
    BY SignatureAt, BlockAt
  <1> HIDE DEF m, n
  <1>4. IsJoin(pq, p, q, 1, 1) /\ IsJoin(mn, m, n, 3 + a, 4 + b)
    BY <1>1, <1>3, Joined
  <1> HIDE DEF pq, mn
  <1>5. OfLength(pq, 2) /\ OfLength(mn, 7 + a + b)
    BY <1>2, <1>4 DEF IsJoin
  <1>6. IsJoin(f, pq, mn, 2, 7 + a + b)
    BY <1>5, Joined
  <1> HIDE DEF f
  <1>7. OfLength(f, 9 + a + b)
    BY <1>2, <1>6 DEF IsJoin
  <1>8. IsJoin(s, f, z, 9 + a + b, 1)
    BY <1>1, <1>7, Joined
  <1> HIDE DEF s
  <1>9. OfLength(s, 10 + a + b)
    BY <1>2, <1>8 DEF IsJoin
  <1>10. s[1] = "Def" /\ s[2] = "Identifier" /\ s[10 + a + b] = "EndOfFile"
    BY <1>1, <1>2, <1>4, <1>6, <1>8 DEF IsJoin
  <1>11. \A k \in 3 .. 5 + a : s[k] = m[k - 2]
    BY <1>2, <1>4, <1>6, <1>8 DEF IsJoin
  <1>12. \A k \in 6 + a .. 9 + a + b : s[k] = n[k - (5 + a)]
    <2> TAKE k \in 6 + a .. 9 + a + b
    <2>1. s[k] = f[k] /\ f[k] = mn[k - 2]
      BY <1>2, <1>6, <1>8 DEF IsJoin
    <2>2. mn[k - 2] = n[(k - 2) - (3 + a)]
      BY <1>2, <1>4 DEF IsJoin
    <2>3. (k - 2) - (3 + a) = k - (5 + a)
      BY <1>2
    <2> QED BY <2>1, <2>2, <2>3
  <1> QED BY <1>9, <1>10, <1>11, <1>12 DEF s, f, pq, mn, p, q, z, m, n, Whole, IsWhole

LEMMA WholeFollows ==
    ASSUME NEW N \in Nat, NEW M \in Nat, NEW x \in LeafKinds, NEW y \in LeafKinds
    PROVE  LET w == Whole(Around(N, x), Around(M, y))
           IN /\ OfLength(w, 12 + 2 * N + 2 * M)
              /\ \A k \in 1 .. 12 + 2 * N + 2 * M : w[k] \in KindsAt(N, M, k)
              /\ w[6 + N] = x /\ w[9 + 2 * N + M] = y
  <1> DEFINE d == Around(N, x)
             e == Around(M, y)
             w == Whole(d, e)
             p == Signature(d)
             q == Block(e)
  <1>1. PICK a \in Nat, b \in Nat : a = 2 * N + 1 /\ b = 2 * M + 1
    OBVIOUS
  <1>2. /\ OfLength(d, a)
        /\ \A k \in 1 .. a : d[k] = IF k <= N THEN "LeftParen"
                                    ELSE IF k = N + 1 THEN x ELSE "RightParen"
    BY <1>1, AroundIs DEF OfLength
  <1>3. /\ OfLength(e, b)
        /\ \A k \in 1 .. b : e[k] = IF k <= M THEN "LeftParen"
                                    ELSE IF k = M + 1 THEN y ELSE "RightParen"
    BY <1>1, AroundIs DEF OfLength
  <1> HIDE DEF d, e
  <1>4. /\ OfLength(p, 3 + a) /\ p[1] = "LeftParen" /\ p[2] = "RightParen" /\ p[3] = "ThinArrow"
        /\ \A k \in 4 .. 3 + a : p[k] = d[k - 3]
    BY <1>2, SignatureAt
  <1>5. /\ OfLength(q, 4 + b) /\ q[1] = "LeftCurly" /\ q[2] = "Return"
        /\ \A k \in 3 .. 2 + b : q[k] = e[k - 2]
        /\ q[3 + b] = "Semicolon" /\ q[4 + b] = "RightCurly"
    BY <1>3, BlockAt
  <1>6. /\ OfLength(w, 10 + a + b) /\ w[1] = "Def" /\ w[2] = "Identifier"
        /\ \A k \in 3 .. 5 + a : w[k] = p[k - 2]
        /\ \A k \in 6 + a .. 9 + a + b : w[k] = q[k - (5 + a)]
        /\ w[10 + a + b] = "EndOfFile"
    <2>1. OfLength(d, a) /\ OfLength(e, b)
      BY <1>2, <1>3
    <2>2. IsWhole(w, p, q, a, b)
      BY <2>1, WholeAt
    <2> QED BY <2>2 DEF IsWhole
  <1> HIDE DEF w, p, q
  <1>7. /\ w[3] = "LeftParen" /\ w[4] = "RightParen" /\ w[5] = "ThinArrow"
    BY <1>4, <1>6
  <1>8. \A k \in 6 .. 5 + a : w[k] = d[k - 5]
    <2> TAKE k \in 6 .. 5 + a
    <2>1. w[k] = p[k - 2] /\ p[k - 2] = d[(k - 2) - 3] /\ (k - 2) - 3 = k - 5
      BY <1>4, <1>6
    <2> QED BY <2>1
  <1>9. /\ w[6 + a] = "LeftCurly" /\ w[7 + a] = "Return"
        /\ w[8 + a + b] = "Semicolon" /\ w[9 + a + b] = "RightCurly"
    <2>1. /\ w[6 + a] = q[(6 + a) - (5 + a)] /\ w[7 + a] = q[(7 + a) - (5 + a)]
          /\ w[8 + a + b] = q[(8 + a + b) - (5 + a)] /\ w[9 + a + b] = q[(9 + a + b) - (5 + a)]
      BY <1>6
    <2>2. /\ (6 + a) - (5 + a) = 1 /\ (7 + a) - (5 + a) = 2
          /\ (8 + a + b) - (5 + a) = 3 + b /\ (9 + a + b) - (5 + a) = 4 + b
      OBVIOUS
    <2> QED BY <1>5, <2>1, <2>2
  <1>10. \A k \in 8 + a .. 7 + a + b : w[k] = e[k - (7 + a)]
    <2> TAKE k \in 8 + a .. 7 + a + b
    <2>1. /\ w[k] = q[k - (5 + a)] /\ q[k - (5 + a)] = e[(k - (5 + a)) - 2]
          /\ (k - (5 + a)) - 2 = k - (7 + a)
      BY <1>5, <1>6
    <2> QED BY <2>1
  <1>11. w[6 + N] = x /\ w[9 + 2 * N + M] = y
    <2>1. /\ 6 + N \in 6 .. 5 + a /\ (6 + N) - 5 = N + 1 /\ N + 1 \in 1 .. a /\ ~(N + 1 <= N)
          /\ 9 + 2 * N + M \in 8 + a .. 7 + a + b /\ (9 + 2 * N + M) - (7 + a) = M + 1
          /\ M + 1 \in 1 .. b /\ ~(M + 1 <= M)
      BY <1>1
    <2> QED BY <1>2, <1>3, <1>8, <1>10, <2>1
  <1>12. \A k \in 6 .. 5 + N : w[k] = "LeftParen"
    <2> TAKE k \in 6 .. 5 + N
    <2>1. k \in 6 .. 5 + a /\ k - 5 \in 1 .. a /\ k - 5 <= N
      BY <1>1
    <2> QED BY <1>2, <1>8, <2>1
  <1>13. \A k \in 7 + N .. 6 + 2 * N : w[k] = "RightParen"
    <2> TAKE k \in 7 + N .. 6 + 2 * N
    <2>1. k \in 6 .. 5 + a /\ k - 5 \in 1 .. a /\ ~(k - 5 <= N) /\ k - 5 # N + 1
      BY <1>1
    <2> QED BY <1>2, <1>8, <2>1
  <1>14. \A k \in 9 + 2 * N .. 8 + 2 * N + M : w[k] = "LeftParen"
    <2> TAKE k \in 9 + 2 * N .. 8 + 2 * N + M
    <2>1. k \in 8 + a .. 7 + a + b /\ k - (7 + a) \in 1 .. b /\ k - (7 + a) <= M
      BY <1>1
    <2> QED BY <1>3, <1>10, <2>1
  <1>15. \A k \in 10 + 2 * N + M .. 9 + 2 * N + 2 * M : w[k] = "RightParen"
    <2> TAKE k \in 10 + 2 * N + M .. 9 + 2 * N + 2 * M
    <2>1. /\ k \in 8 + a .. 7 + a + b /\ k - (7 + a) \in 1 .. b
          /\ ~(k - (7 + a) <= M) /\ k - (7 + a) # M + 1
      BY <1>1
    <2> QED BY <1>3, <1>10, <2>1
  <1>16. /\ w[7 + 2 * N] = "LeftCurly" /\ w[8 + 2 * N] = "Return"
         /\ w[10 + 2 * N + 2 * M] = "Semicolon" /\ w[11 + 2 * N + 2 * M] = "RightCurly"
         /\ w[12 + 2 * N + 2 * M] = "EndOfFile" /\ 10 + a + b = 12 + 2 * N + 2 * M
    <2>1. /\ 6 + a = 7 + 2 * N /\ 7 + a = 8 + 2 * N /\ 8 + a + b = 10 + 2 * N + 2 * M
          /\ 9 + a + b = 11 + 2 * N + 2 * M /\ 10 + a + b = 12 + 2 * N + 2 * M
      BY <1>1
    <2> QED BY <1>6, <1>9, <2>1
  <1>17. ASSUME NEW k \in 1 .. 12 + 2 * N + 2 * M PROVE w[k] \in KindsAt(N, M, k)
    <2> DEFINE K == KindsAt(N, M, k)
    <2>1. k \in Nat /\ k >= 1
      OBVIOUS
    <2>2. /\ k = 1 => K = {"Def"}
          /\ k = 2 => K = {"Identifier"}
          /\ k = 3 => K = {"LeftParen"}
          /\ k = 4 => K = {"RightParen"}
          /\ k = 5 => K = {"ThinArrow"}
          /\ k \in 6 .. 5 + N => K = {"LeftParen"}
          /\ k = 6 + N => K = LeafKinds
          /\ k \in 7 + N .. 6 + 2 * N => K = {"RightParen"}
          /\ k = 7 + 2 * N => K = {"LeftCurly"}
          /\ k = 8 + 2 * N => K = {"Return"}
          /\ k \in 9 + 2 * N .. 8 + 2 * N + M => K = {"LeftParen"}
          /\ k = 9 + 2 * N + M => K = LeafKinds
          /\ k \in 10 + 2 * N + M .. 9 + 2 * N + 2 * M => K = {"RightParen"}
          /\ k = 10 + 2 * N + 2 * M => K = {"Semicolon"}
          /\ k = 11 + 2 * N + 2 * M => K = {"RightCurly"}
          /\ k = 12 + 2 * N + 2 * M => K = {"EndOfFile"}
      BY <2>1, KindsAtIs
    <2> HIDE DEF K
    <2>3. \/ k = 1 \/ k = 2 \/ k = 3 \/ k = 4 \/ k = 5 \/ k \in 6 .. 5 + N \/ k = 6 + N
          \/ k \in 7 + N .. 6 + 2 * N \/ k = 7 + 2 * N \/ k = 8 + 2 * N
          \/ k \in 9 + 2 * N .. 8 + 2 * N + M \/ k = 9 + 2 * N + M
          \/ k \in 10 + 2 * N + M .. 9 + 2 * N + 2 * M
          \/ k = 10 + 2 * N + 2 * M \/ k = 11 + 2 * N + 2 * M \/ k = 12 + 2 * N + 2 * M
      OBVIOUS
    <2>4. w[k] \in K
      <3>1. CASE k = 1 \/ k = 2 \/ k = 3 \/ k = 4 \/ k = 5
        BY <1>6, <1>7, <2>2, <3>1
      <3>2. CASE k \in 6 .. 5 + N
        BY <1>12, <2>2, <3>2
      <3>3. CASE k = 6 + N \/ k = 9 + 2 * N + M
        BY <1>11, <2>2, <3>3
      <3>4. CASE k \in 7 + N .. 6 + 2 * N
        BY <1>13, <2>2, <3>4
      <3>5. CASE k \in 9 + 2 * N .. 8 + 2 * N + M
        BY <1>14, <2>2, <3>5
      <3>6. CASE k \in 10 + 2 * N + M .. 9 + 2 * N + 2 * M
        BY <1>15, <2>2, <3>6
      <3>7. CASE \/ k = 7 + 2 * N \/ k = 8 + 2 * N \/ k = 10 + 2 * N + 2 * M
                 \/ k = 11 + 2 * N + 2 * M \/ k = 12 + 2 * N + 2 * M
        BY <1>16, <2>2, <3>7
      <3> QED BY <2>3, <3>1, <3>2, <3>3, <3>4, <3>5, <3>6, <3>7
    <2> QED BY <2>4 DEF K
  <1>18. OfLength(w, 12 + 2 * N + 2 * M)
    BY <1>6, <1>16
  <1> QED BY <1>11, <1>17, <1>18 DEF w, d, e

(* Away from the two leaves there is one kind for each place.              *)
LEMMA OneKind ==
    ASSUME NEW N \in Nat, NEW M \in Nat, NEW k \in 1 .. 12 + 2 * N + 2 * M,
           k # 6 + N, k # 9 + 2 * N + M,
           NEW u \in KindsAt(N, M, k), NEW v \in KindsAt(N, M, k)
    PROVE  u = v
  <1> DEFINE K == KindsAt(N, M, k)
  <1>1. k \in Nat /\ k >= 1
    OBVIOUS
  <1>2. /\ k = 1 => K = {"Def"}
        /\ k = 2 => K = {"Identifier"}
        /\ k = 3 => K = {"LeftParen"}
        /\ k = 4 => K = {"RightParen"}
        /\ k = 5 => K = {"ThinArrow"}
        /\ k \in 6 .. 5 + N => K = {"LeftParen"}
        /\ k \in 7 + N .. 6 + 2 * N => K = {"RightParen"}
        /\ k = 7 + 2 * N => K = {"LeftCurly"}
        /\ k = 8 + 2 * N => K = {"Return"}
        /\ k \in 9 + 2 * N .. 8 + 2 * N + M => K = {"LeftParen"}
        /\ k \in 10 + 2 * N + M .. 9 + 2 * N + 2 * M => K = {"RightParen"}
        /\ k = 10 + 2 * N + 2 * M => K = {"Semicolon"}
        /\ k = 11 + 2 * N + 2 * M => K = {"RightCurly"}
        /\ k = 12 + 2 * N + 2 * M => K = {"EndOfFile"}
    BY <1>1, KindsAtIs
  <1>3. u \in K /\ v \in K
    OBVIOUS
  <1> HIDE DEF K
  <1>4. \/ k = 1 \/ k = 2 \/ k = 3 \/ k = 4 \/ k = 5 \/ k \in 6 .. 5 + N
        \/ k \in 7 + N .. 6 + 2 * N \/ k = 7 + 2 * N \/ k = 8 + 2 * N
        \/ k \in 9 + 2 * N .. 8 + 2 * N + M
        \/ k \in 10 + 2 * N + M .. 9 + 2 * N + 2 * M
        \/ k = 10 + 2 * N + 2 * M \/ k = 11 + 2 * N + 2 * M \/ k = 12 + 2 * N + 2 * M
    OBVIOUS
  <1>5. \E x : K = {x}
    BY <1>2, <1>4, Zenon
  <1> QED BY <1>3, <1>5

(* The sentences are the sequences of these kinds.                         *)
LEMMA SentenceIs ==
    ASSUME NEW s
    PROVE  s \in Sentences <=>
              \E N, M \in 0 .. GrammarDepth :
                 /\ OfLength(s, 12 + 2 * N + 2 * M)
                 /\ \A k \in 1 .. 12 + 2 * N + 2 * M : s[k] \in KindsAt(N, M, k)
  <1>0. GrammarDepth \in Nat
    BY FrontendAssumption
  <1>1. \A u : u \in Grammar!expr <=> \E m \in 0 .. GrammarDepth, x \in LeafKinds : u = Around(m, x)
    BY ExprIs, WrappedIs
  <1>2. ASSUME s \in Sentences
        PROVE  \E N, M \in 0 .. GrammarDepth :
                 /\ OfLength(s, 12 + 2 * N + 2 * M)
                 /\ \A k \in 1 .. 12 + 2 * N + 2 * M : s[k] \in KindsAt(N, M, k)
    <2>1. PICK d \in Grammar!expr, e \in Grammar!expr : s = Whole(d, e)
      BY <1>2, FileIs
    <2>2. PICK N \in 0 .. GrammarDepth, x \in LeafKinds : d = Around(N, x)
      BY <1>1
    <2>3. PICK M \in 0 .. GrammarDepth, y \in LeafKinds : e = Around(M, y)
      BY <1>1
    <2>4. N \in Nat /\ M \in Nat
      BY <1>0
    <2>5. /\ OfLength(s, 12 + 2 * N + 2 * M)
          /\ \A k \in 1 .. 12 + 2 * N + 2 * M : s[k] \in KindsAt(N, M, k)
      BY <2>1, <2>2, <2>3, <2>4, WholeFollows
    <2> QED BY <2>5
  <1>3. ASSUME NEW N \in 0 .. GrammarDepth, NEW M \in 0 .. GrammarDepth,
               OfLength(s, 12 + 2 * N + 2 * M),
               \A k \in 1 .. 12 + 2 * N + 2 * M : s[k] \in KindsAt(N, M, k)
        PROVE  s \in Sentences
    <2>1. N \in Nat /\ M \in Nat
      BY <1>0
    <2>2. PICK n \in Nat, i \in Nat, j \in Nat :
             n = 12 + 2 * N + 2 * M /\ i = 6 + N /\ j = 9 + 2 * N + M
      BY <2>1
    <2>3. i \in 1 .. n /\ j \in 1 .. n /\ i >= 1 /\ j >= 1
      BY <2>1, <2>2
    <2>4. KindsAt(N, M, i) = LeafKinds /\ KindsAt(N, M, j) = LeafKinds
      BY <2>1, <2>2, <2>3, KindsAtIs
    <2>5. PICK x \in LeafKinds, y \in LeafKinds : x = s[i] /\ y = s[j]
      BY <1>3, <2>2, <2>3, <2>4
    <2> DEFINE w == Whole(Around(N, x), Around(M, y))
    <2>6. /\ OfLength(w, n) /\ \A k \in 1 .. n : w[k] \in KindsAt(N, M, k)
          /\ w[i] = x /\ w[j] = y
      BY <2>1, <2>2, WholeFollows
    <2>7. w \in Sentences
      <3>1. Around(N, x) \in Grammar!expr /\ Around(M, y) \in Grammar!expr
        BY <1>1
      <3> QED BY <3>1, FileIs
    <2> HIDE DEF w
    <2>8. \A k \in 1 .. n : s[k] = w[k]
      <3> TAKE k \in 1 .. n
      <3>1. CASE k = i \/ k = j
        BY <2>5, <2>6, <3>1
      <3>2. CASE k # i /\ k # j
        <4>1. s[k] \in KindsAt(N, M, k) /\ w[k] \in KindsAt(N, M, k)
          BY <1>3, <2>2, <2>6
        <4> QED BY <2>1, <2>2, <3>2, <4>1, OneKind
      <3> QED BY <3>1, <3>2
    <2>9. s = w
      <3>1. s \in Seq(Symbols) /\ w \in Seq(Symbols) /\ Len(s) = n /\ Len(w) = n
        BY <1>3, <2>2, <2>6 DEF OfLength
      <3> QED BY <2>8, <3>1, SeqEqual
    <2> QED BY <2>7, <2>9
  <1> QED BY <1>2, <1>3

LEMMA KindsAreSymbols ==
    ASSUME NEW N \in Nat, NEW M \in Nat, NEW k \in Nat
    PROVE  KindsAt(N, M, k) \subseteq Symbols
  BY DEF KindsAt, Symbols, LeafKinds

LEMMA KindsOfTokens ==
    ASSUME IsTokenList(tokens)
    PROVE  /\ DOMAIN Kinds(tokens) = 1 .. Len(tokens)
           /\ \A k \in 1 .. Len(tokens) : Kinds(tokens)[k] = tokens[k].kind
  BY TokenListIs DEF Kinds

LEMMA SentenceFollows ==
    ASSUME IsTokenList(tokens)
    PROVE  Sentence <=> \E N, M \in 0 .. GrammarDepth : /\ Len(tokens) = 12 + 2 * N + 2 * M
                                                       /\ Follows(Len(tokens), N, M)
  <1>1. PICK n \in Nat : n = Len(tokens)
    BY TokenListIs
  <1> DEFINE s == Kinds(tokens)
  <1>2. DOMAIN s = 1 .. n /\ \A k \in 1 .. n : s[k] = tokens[k].kind
    BY <1>1, KindsOfTokens
  <1>3. s = [k \in 1 .. n |-> s[k]]
    <2>1. s = [k \in 1 .. n |-> tokens[k].kind]
      BY <1>1, TokenListIs DEF Kinds
    <2> QED BY <1>2, <2>1
  <1> HIDE DEF s
  <1>4. GrammarDepth \in Nat
    BY FrontendAssumption
  <1>5. ASSUME s \in Sentences
        PROVE  \E N, M \in 0 .. GrammarDepth : n = 12 + 2 * N + 2 * M /\ Follows(n, N, M)
    <2>1. PICK N \in 0 .. GrammarDepth, M \in 0 .. GrammarDepth :
             /\ OfLength(s, 12 + 2 * N + 2 * M)
             /\ \A k \in 1 .. 12 + 2 * N + 2 * M : s[k] \in KindsAt(N, M, k)
      BY <1>5, SentenceIs
    <2>2. PICK m \in Nat : m = 12 + 2 * N + 2 * M
      BY <1>4
    <2>3. DOMAIN s = 1 .. m
      BY <2>1, <2>2 DEF OfLength
    <2>4. n = m
      <3>1. 1 .. n = 1 .. m
        BY <1>2, <2>3
      <3>2. n \in 0 .. n /\ m \in 0 .. m
        OBVIOUS
      <3>3. ~(n < m)
        <4>1. ASSUME n < m PROVE FALSE
          <5>1. m \in 1 .. m /\ ~(m \in 1 .. n)
            BY <4>1
          <5> QED BY <3>1, <5>1
        <4> QED BY <4>1
      <3>4. ~(m < n)
        <4>1. ASSUME m < n PROVE FALSE
          <5>1. n \in 1 .. n /\ ~(n \in 1 .. m)
            BY <4>1
          <5> QED BY <3>1, <5>1
        <4> QED BY <4>1
      <3> QED BY <3>3, <3>4
    <2>5. Follows(n, N, M)
      BY <1>2, <2>1, <2>2, <2>4 DEF Follows
    <2> QED BY <2>2, <2>4, <2>5
  <1>6. ASSUME NEW N \in 0 .. GrammarDepth, NEW M \in 0 .. GrammarDepth,
               n = 12 + 2 * N + 2 * M, Follows(n, N, M)
        PROVE  s \in Sentences
    <2>1. \A k \in 1 .. n : s[k] \in KindsAt(N, M, k)
      BY <1>2, <1>6 DEF Follows
    <2>2. \A k \in 1 .. n : s[k] \in Symbols
      <3> TAKE k \in 1 .. n
      <3>1. N \in Nat /\ M \in Nat /\ k \in Nat
        BY <1>4
      <3> QED BY <2>1, <3>1, KindsAreSymbols
    <2>3. s \in [1 .. n -> Symbols]
      BY <1>3, <2>2
    <2>4. s \in Seq(Symbols) /\ Len(s) = n
      BY <2>3
    <2>5. OfLength(s, n)
      BY <2>4 DEF OfLength
    <2> QED BY <1>6, <2>1, <2>5, SentenceIs
  <1> QED BY <1>1, <1>5, <1>6 DEF s, Sentence

-----------------------------------------------------------------------------
(* The leaves of a sentence are its names and its literal.                 *)
NumberUpTo(L, i) == Cardinality({j \in L : j <= i})

LEMMA ThreeOf ==
    ASSUME NEW p \in Nat, NEW q \in Nat, NEW r \in Nat, p < q, q < r, NEW L, L = {p, q, r}
    PROVE  /\ Cardinality(L) = 3
           /\ NumberUpTo(L, p) = 1 /\ NumberUpTo(L, q) = 2 /\ NumberUpTo(L, r) = 3
  <1>1. IsFiniteSet({p}) /\ Cardinality({p}) = 1
    BY FS_Singleton
  <1>2. q \notin {p} /\ r \notin {p, q} /\ {p, q} = {p} \cup {q} /\ {p, q, r} = {p, q} \cup {r}
    OBVIOUS
  <1>3. IsFiniteSet({p, q}) /\ Cardinality({p, q}) = 2
    <2>1. IsFiniteSet({p} \cup {q}) /\ Cardinality({p} \cup {q}) = 1 + 1
      BY <1>1, <1>2, FS_AddElement
    <2> QED BY <1>2, <2>1
  <1>4. IsFiniteSet({p, q, r}) /\ Cardinality({p, q, r}) = 3
    <2>1. IsFiniteSet({p, q} \cup {r}) /\ Cardinality({p, q} \cup {r}) = 2 + 1
      BY <1>2, <1>3, FS_AddElement
    <2> QED BY <1>2, <2>1
  <1>5. /\ {j \in {p, q, r} : j <= p} = {p}
        /\ {j \in {p, q, r} : j <= q} = {p, q}
        /\ {j \in {p, q, r} : j <= r} = {p, q, r}
    OBVIOUS
  <1> QED BY <1>1, <1>3, <1>4, <1>5 DEF NumberUpTo

LEMMA LeavesAre ==
    ASSUME IsTokenList(tokens), NEW N \in Nat, NEW M \in Nat,
           Len(tokens) = 12 + 2 * N + 2 * M, Follows(Len(tokens), N, M)
    PROVE  /\ Leaves[1] = tokens[2] /\ Leaves[2] = tokens[6 + N]
           /\ Leaves[3] = tokens[9 + 2 * N + M]
  <1> DEFINE L == {i \in DOMAIN tokens : tokens[i].kind \in {"Identifier", "IntLiteral"}}
  <1>1. PICK n \in Nat, p \in Nat, q \in Nat, r \in Nat :
           /\ n = 12 + 2 * N + 2 * M /\ p = 2 /\ q = 6 + N /\ r = 9 + 2 * N + M
           /\ p < q /\ q < r /\ r < n
    OBVIOUS
  <1>2. \A k \in 1 .. n : tokens[k].kind \in KindsAt(N, M, k)
    BY <1>1 DEF Follows
  <1>3. \A k \in 1 .. n : tokens[k].kind \in LeafKinds <=> k \in {p, q, r}
    <2> TAKE k \in 1 .. n
    <2>1. k \in Nat /\ k >= 1
      OBVIOUS
    <2>2. CASE k \in {q, r}
      <3>1. KindsAt(N, M, k) = LeafKinds
        BY <1>1, <2>1, <2>2, KindsAtIs
      <3> QED BY <1>2, <2>2, <3>1
    <2>3. CASE k = p
      <3>1. KindsAt(N, M, k) = {"Identifier"}
        BY <1>1, <2>1, <2>3, KindsAtIs
      <3> QED BY <1>2, <2>3, <3>1 DEF LeafKinds
    <2>4. CASE k \notin {p, q, r}
      <3>1. k # 2 /\ k # 6 + N /\ k # 9 + 2 * N + M
        BY <1>1, <2>4
      <3>2. \A x \in KindsAt(N, M, k) : x \notin LeafKinds
        BY <1>1, <2>1, <3>1 DEF KindsAt, LeafKinds
      <3> QED BY <1>2, <2>4, <3>2
    <2> QED BY <2>2, <2>3, <2>4
  <1>4. L = {p, q, r}
    <2>1. DOMAIN tokens = 1 .. n
      BY <1>1, TokenListIs
    <2>2. p \in 1 .. n /\ q \in 1 .. n /\ r \in 1 .. n
      BY <1>1
    <2> QED BY <1>3, <2>1, <2>2 DEF LeafKinds
  <1>5. /\ Cardinality(L) = 3
        /\ NumberUpTo(L, p) = 1 /\ NumberUpTo(L, q) = 2 /\ NumberUpTo(L, r) = 3
    <2> HIDE DEF L
    <2> QED BY <1>1, <1>4, ThreeOf
  <1>6. Leaves = [k \in 1 .. Cardinality(L) |->
                     tokens[CHOOSE i \in L : Cardinality({j \in L : j <= i}) = k]]
    BY DEF Leaves
  <1> HIDE DEF L
  <1> DEFINE c(i) == NumberUpTo(L, i)
  <1>7. c(p) = 1 /\ c(q) = 2 /\ c(r) = 3
    BY <1>5
  <1>8. Leaves = [k \in 1 .. 3 |-> tokens[CHOOSE i \in L : c(i) = k]]
    BY <1>5, <1>6 DEF NumberUpTo
  <1> HIDE DEF c
  <1>9. /\ (CHOOSE i \in L : c(i) = 1) = p
        /\ (CHOOSE i \in L : c(i) = 2) = q
        /\ (CHOOSE i \in L : c(i) = 3) = r
    <2>1. \A i \in L : i = p \/ i = q \/ i = r
      BY <1>4
    <2>2. p \in L /\ q \in L /\ r \in L
      BY <1>4
    <2>3. \A i \in L : (c(i) = 1 => i = p) /\ (c(i) = 2 => i = q) /\ (c(i) = 3 => i = r)
      BY <1>7, <2>1
    <2>4. (CHOOSE i \in L : c(i) = 1) = p
      BY <1>7, <2>2, <2>3
    <2>5. (CHOOSE i \in L : c(i) = 2) = q
      BY <1>7, <2>2, <2>3
    <2>6. (CHOOSE i \in L : c(i) = 3) = r
      BY <1>7, <2>2, <2>3
    <2> QED BY <2>4, <2>5, <2>6
  <1>10. Leaves[1] = tokens[p] /\ Leaves[2] = tokens[q] /\ Leaves[3] = tokens[r]
    <2>1. 1 \in 1 .. 3 /\ 2 \in 1 .. 3 /\ 3 \in 1 .. 3
      OBVIOUS
    <2>2. /\ Leaves[1] = tokens[CHOOSE i \in L : c(i) = 1]
          /\ Leaves[2] = tokens[CHOOSE i \in L : c(i) = 2]
          /\ Leaves[3] = tokens[CHOOSE i \in L : c(i) = 3]
      BY <1>8, <2>1, Zenon
    <2> QED BY <1>9, <2>2
  <1> QED BY <1>1, <1>10

LEMMA ItemWritten ==
    ASSUME IsTokenList(tokens), NEW N \in Nat, NEW M \in Nat,
           Len(tokens) = 12 + 2 * N + 2 * M, Follows(Len(tokens), N, M)
    PROVE  ItemNode(N, M) = WrittenItem
  <1>1. /\ Leaves[1] = tokens[2] /\ Leaves[2] = tokens[6 + N]
        /\ Leaves[3] = tokens[9 + 2 * N + M]
    BY LeavesAre
  <1> QED BY <1>1, Zenon DEF ItemNode, TypeNode, BodyNode, WrittenItem

LEMMA FollowsLess ==
    ASSUME NEW i \in Nat, NEW n \in Nat, i <= n, NEW N, NEW M, Follows(n, N, M)
    PROVE  Follows(i, N, M)
  <1>1. \A k \in 1 .. i : k \in 1 .. n
    OBVIOUS
  <1> QED BY <1>1, Zenon DEF Follows

(* What the parser accepts, and what it makes of it.                       *)
LEMMA GrammarKept == PInv => AcceptsGrammar
  <1> SUFFICES ASSUME PInv, parse_pc = "done"
               PROVE  /\ parse_result.kind = "Success" <=> (Sentence /\ Fits(Len(tokens)))
                      /\ parse_result.kind = "Success" => parse_result.item = WrittenItem
                      /\ parse_result.kind = "YaccError" => ~Fits(token_index)
    BY DEF AcceptsGrammar
  <1>1. Finished
    BY DEF PInv, Recovering, Reporting, Placed, Sound
  <1>2. IsTokenList(tokens) /\ token_index \in 0 .. Len(tokens) /\ Len(tokens) \in Nat
    BY <1>1, TokenListIs DEF Finished
  <1>3. CASE /\ \E N, M \in Deepest : /\ Len(tokens) = 12 + 2 * N + 2 * M
                                      /\ Follows(Len(tokens), N, M)
                                      /\ parse_result
                                         = [kind |-> "Success", item |-> ItemNode(N, M)]
             /\ Fits(Len(tokens))
    <2>1. PICK N \in Deepest, M \in Deepest :
             /\ Len(tokens) = 12 + 2 * N + 2 * M /\ Follows(Len(tokens), N, M)
             /\ parse_result = [kind |-> "Success", item |-> ItemNode(N, M)]
      BY <1>3
    <2>2. N \in Nat /\ M \in Nat /\ N \in 0 .. GrammarDepth /\ M \in 0 .. GrammarDepth
      BY FrontendAssumption DEF Deepest
    <2>3. Sentence
      BY <1>2, <2>1, <2>2, SentenceFollows
    <2>4. parse_result.kind = "Success" /\ parse_result.item = ItemNode(N, M)
      BY <2>1
    <2>5. ItemNode(N, M) = WrittenItem
      BY <1>2, <2>1, <2>2, ItemWritten
    <2> QED BY <1>3, <2>3, <2>4, <2>5
  <1>4. CASE parse_result.kind = "ParseError" /\ Wrong
    <2>1. ASSUME Sentence PROVE FALSE
      <3>1. PICK N \in 0 .. GrammarDepth, M \in 0 .. GrammarDepth : Follows(Len(tokens), N, M)
        BY <1>2, <2>1, SentenceFollows
      <3>2. N \in Nat /\ M \in Nat
        BY FrontendAssumption
      <3>3. token_index \in Nat /\ token_index <= Len(tokens)
        BY <1>2
      <3>4. Follows(token_index, N, M)
        BY <1>2, <3>1, <3>3, FollowsLess
      <3> QED BY <1>4, <3>2, <3>4 DEF Wrong
    <2> QED BY <1>4, <2>1
  <1>5. CASE parse_result.kind = "YaccError" /\ ~Fits(token_index)
    <2>1. token_index \in Nat /\ token_index <= Len(tokens)
      BY <1>2
    <2>2. ~Fits(Len(tokens))
      BY <1>2, <1>5, <2>1, FitsLess
    <2> QED BY <1>5, <2>2
  <1> QED BY <1>1, <1>3, <1>4, <1>5 DEF Finished

(* How far a list that is refused was read.                                *)
LEMMA ViableIs ==
    ASSUME NEW v
    PROVE  v \in Viable <=> \E s \in Sentences : \E n \in 0 .. Len(s) : v = SubSeq(s, 1, n)
  BY DEF Viable, Grammar!Viable, Sentences

LEMMA KindsIsSeq ==
    ASSUME IsTokenList(tokens)
    PROVE  IsSeq(Kinds(tokens)) /\ Len(Kinds(tokens)) = Len(tokens)
  <1>1. PICK n \in Nat : n = Len(tokens)
    BY TokenListIs
  <1> DEFINE s == Kinds(tokens)
  <1>2. s = [k \in 1 .. n |-> tokens[k].kind]
    BY <1>1, TokenListIs DEF Kinds
  <1> HIDE DEF s
  <1>3. \A k \in 1 .. n : s[k] \in Range(s)
    BY <1>2 DEF Range
  <1>4. s \in [1 .. n -> Range(s)]
    <2> DEFINE R == Range(s)
    <2> HIDE DEF R
    <2>1. \A k \in 1 .. n : tokens[k].kind \in R
      BY <1>2, <1>3 DEF R
    <2>2. s \in [1 .. n -> R]
      BY <1>2, <2>1
    <2> QED BY <2>2 DEF R
  <1>5. s \in Seq(Range(s)) /\ Len(s) = n
    BY <1>4
  <1> QED BY <1>1, <1>5 DEF s, IsSeq

LEMMA PrefixViable ==
    ASSUME IsTokenList(tokens), NEW i \in 0 .. Len(tokens),
           NEW N \in 0 .. GrammarDepth, NEW M \in 0 .. GrammarDepth, Follows(i, N, M)
    PROVE  SubSeq(Kinds(tokens), 1, i) \in Viable
  <1>1. N \in Nat /\ M \in Nat /\ i \in Nat
    BY FrontendAssumption, TokenListIs
  <1>2. PICK n \in Nat : n = 12 + 2 * N + 2 * M
    BY <1>1
  <1>3. i <= n
    <2>1. ASSUME i > n PROVE FALSE
      <3>1. PICK k \in Nat : k = n + 1
        BY <1>2
      <3>2. k \in 1 .. i /\ k >= 1 /\ k > 12 + 2 * N + 2 * M
        BY <1>1, <1>2, <2>1, <3>1
      <3>3. KindsAt(N, M, k) = {}
        BY <1>1, <3>2, KindsAtIs
      <3> QED BY <3>2, <3>3 DEF Follows
    <2> QED BY <1>1, <1>2, <2>1
  <1> DEFINE x(k) == CHOOSE y : y \in KindsAt(N, M, k)
             f(k) == IF k <= i THEN tokens[k].kind ELSE x(k)
             s == [k \in 1 .. n |-> f(k)]
  <1>4. \A k \in 1 .. n : f(k) \in KindsAt(N, M, k)
    <2> TAKE k \in 1 .. n
    <2>1. CASE k <= i
      <3>1. k \in 1 .. i
        BY <1>1, <2>1
      <3> QED BY <2>1, <3>1 DEF Follows
    <2>2. CASE ~(k <= i)
      <3>1. \E y : y \in KindsAt(N, M, k)
        BY <1>1, <1>2, KindsAtSome
      <3>2. x(k) \in KindsAt(N, M, k)
        BY <3>1
      <3> QED BY <2>2, <3>2
    <2> QED BY <2>1, <2>2
  <1>5. \A k \in 1 .. n : f(k) \in Symbols
    <2>1. \A k \in 1 .. n : k \in Nat
      OBVIOUS
    <2> QED BY <1>1, <1>4, <2>1, KindsAreSymbols
  <1>6. \A k \in 1 .. i : f(k) = tokens[k].kind
    BY <1>1
  <1> HIDE DEF f
  <1>7. OfLength(s, n) /\ \A k \in 1 .. n : s[k] = f(k)
    BY <1>2, <1>5 DEF OfLength
  <1> HIDE DEF s
  <1>8. s \in Sentences
    <2>1. OfLength(s, 12 + 2 * N + 2 * M)
      BY <1>2, <1>7
    <2>2. \A k \in 1 .. 12 + 2 * N + 2 * M : s[k] \in KindsAt(N, M, k)
      BY <1>2, <1>4, <1>7
    <2> QED BY <2>1, <2>2, SentenceIs
  <1>9. i \in 0 .. Len(s)
    BY <1>1, <1>2, <1>3, <1>7 DEF OfLength
  <1> DEFINE t == SubSeq(s, 1, i)
             u == SubSeq(Kinds(tokens), 1, i)
  <1>10. t \in Seq(Symbols) /\ Len(t) = i /\ \A k \in 1 .. i : t[k] = s[k]
    <2>1. s \in Seq(Symbols) /\ Len(s) = n
      BY <1>7 DEF OfLength
    <2> QED BY <1>1, <1>2, <1>3, <2>1
  <1>11. IsSeq(u) /\ Len(u) = i /\ \A k \in 1 .. i : u[k] = tokens[k].kind
    <2>1. IsSeq(Kinds(tokens)) /\ i \in 0 .. Len(Kinds(tokens))
      BY KindsIsSeq
    <2>2. IsSeq(u) /\ Len(u) = i /\ \A k \in 1 .. i : u[k] = Kinds(tokens)[k]
      BY <2>1, SeqPrefix
    <2>3. \A k \in 1 .. i : k \in 1 .. Len(tokens)
      BY TokenListIs
    <2> QED BY <2>2, <2>3, KindsOfTokens
  <1> HIDE DEF t, u
  <1>12. t = u
    <2>1. \A k \in 1 .. i : k \in 1 .. n /\ t[k] = u[k]
      BY <1>1, <1>2, <1>3, <1>6, <1>7, <1>10, <1>11
    <2> QED BY <1>10, <1>11, <2>1, SeqEqual DEF IsSeq
  <1>13. t \in Viable
    BY <1>8, <1>9, ViableIs DEF t
  <1> QED BY <1>12, <1>13 DEF u

LEMMA ViablePrefix ==
    ASSUME IsTokenList(tokens), NEW i \in 0 .. Len(tokens),
           SubSeq(Kinds(tokens), 1, i) \in Viable
    PROVE  \E N, M \in Nat : Follows(i, N, M)
  <1>0. i \in Nat
    BY TokenListIs
  <1> DEFINE u == SubSeq(Kinds(tokens), 1, i)
  <1>1. IsSeq(u) /\ Len(u) = i /\ \A k \in 1 .. i : u[k] = tokens[k].kind
    <2>1. IsSeq(Kinds(tokens)) /\ i \in 0 .. Len(Kinds(tokens))
      BY KindsIsSeq
    <2>2. IsSeq(u) /\ Len(u) = i /\ \A k \in 1 .. i : u[k] = Kinds(tokens)[k]
      BY <2>1, SeqPrefix
    <2>3. \A k \in 1 .. i : k \in 1 .. Len(tokens)
      BY TokenListIs
    <2> QED BY <2>2, <2>3, KindsOfTokens
  <1>2. u \in Viable
    OBVIOUS
  <1> HIDE DEF u
  <1>3. PICK s \in Sentences : \E n \in 0 .. Len(s) : u = SubSeq(s, 1, n)
    BY <1>2, ViableIs
  <1>4. PICK n \in 0 .. Len(s) : u = SubSeq(s, 1, n)
    BY <1>3
  <1>5. PICK N \in 0 .. GrammarDepth, M \in 0 .. GrammarDepth :
           /\ OfLength(s, 12 + 2 * N + 2 * M)
           /\ \A k \in 1 .. 12 + 2 * N + 2 * M : s[k] \in KindsAt(N, M, k)
    BY SentenceIs
  <1>6. N \in Nat /\ M \in Nat
    BY FrontendAssumption
  <1>7. PICK m \in Nat : m = 12 + 2 * N + 2 * M
    BY <1>6
  <1>8. s \in Seq(Symbols) /\ Len(s) = m
    BY <1>5, <1>7 DEF OfLength
  <1>9. Len(u) = n /\ n <= m /\ \A k \in 1 .. n : u[k] = s[k]
    BY <1>4, <1>7, <1>8
  <1>10. Follows(i, N, M)
    <2> SUFFICES ASSUME NEW k \in 1 .. i PROVE tokens[k].kind \in KindsAt(N, M, k)
      BY DEF Follows
    <2>1. k \in 1 .. n /\ k \in 1 .. m
      BY <1>0, <1>1, <1>7, <1>9
    <2> QED BY <1>1, <1>5, <1>7, <1>9, <2>1
  <1> QED BY <1>6, <1>10

LEMMA WrongTokenKept == PInv => FirstWrongToken
  <1> DEFINE read == SubSeq(Kinds(tokens), 1, token_index)
  <1> SUFFICES ASSUME PInv, parse_pc = "done", parse_result.kind = "ParseError"
               PROVE  Front(read) \in Viable /\ read \notin Viable
    BY DEF FirstWrongToken
  <1>1. Finished
    BY DEF PInv, Recovering, Reporting, Placed, Sound
  <1>2. Wrong
    BY <1>1 DEF Finished
  <1>3. PICK n \in Nat, t \in Nat : n = Len(tokens) /\ t = token_index /\ t \in 1 .. n
    BY <1>2, TokenListIs DEF Wrong
  <1>4. IsTokenList(tokens)
    BY <1>2 DEF Wrong
  <1>5. PICK i \in Nat : i = t - 1 /\ i \in 0 .. n /\ t \in 0 .. n /\ i <= t
    <2>1. t - 1 \in Nat /\ t - 1 \in 0 .. n /\ t \in 0 .. n /\ t - 1 <= t
      BY <1>3
    <2> QED BY <2>1
  <1>6. read \notin Viable
    <2>1. ASSUME read \in Viable PROVE FALSE
      <3>1. \E N, M \in Nat : Follows(t, N, M)
        <4>1. SubSeq(Kinds(tokens), 1, t) \in Viable /\ t \in 0 .. Len(tokens)
          BY <1>3, <1>5, <2>1
        <4> QED BY <1>4, <4>1, ViablePrefix
      <3> QED BY <1>2, <1>3, <3>1 DEF Wrong
    <2> QED BY <2>1
  <1>7. Front(read) = SubSeq(Kinds(tokens), 1, i)
    <2> DEFINE s == Kinds(tokens)
    <2>1. IsSeq(s) /\ Len(s) = n
      BY <1>3, <1>4, KindsIsSeq
    <2> HIDE DEF s
    <2>2. read = SubSeq(s, 1, t)
      BY <1>3 DEF s
    <2> HIDE DEF read
    <2>3. IsSeq(read) /\ Len(read) = t /\ \A k \in 1 .. t : read[k] = s[k]
      BY <1>3, <1>5, <2>1, <2>2, SeqPrefix
    <2>4. Front(read) = SubSeq(read, 1, i)
      <3>1. Len(read) >= 1
        BY <1>3, <2>3
      <3>2. Front(read) = SubSeq(read, 1, Len(read) - 1)
        BY <2>3, <3>1, SeqEnds
      <3> QED BY <1>5, <2>3, <3>2
    <2>5. IsSeq(SubSeq(read, 1, i)) /\ Len(SubSeq(read, 1, i)) = i
          /\ \A k \in 1 .. i : SubSeq(read, 1, i)[k] = read[k]
      <3>1. i \in 0 .. Len(read)
        BY <1>5, <2>3
      <3> QED BY <2>3, <3>1, SeqPrefix
    <2>6. IsSeq(SubSeq(s, 1, i)) /\ Len(SubSeq(s, 1, i)) = i
          /\ \A k \in 1 .. i : SubSeq(s, 1, i)[k] = s[k]
      <3>1. i \in 0 .. Len(s)
        BY <1>5, <2>1
      <3> QED BY <2>1, <3>1, SeqPrefix
    <2>7. SubSeq(read, 1, i) = SubSeq(s, 1, i)
      <3> DEFINE a == SubSeq(read, 1, i)
                 b == SubSeq(s, 1, i)
      <3>1. \A k \in 1 .. i : k \in 1 .. t /\ a[k] = b[k]
        BY <1>3, <1>5, <2>3, <2>5, <2>6
      <3>2. IsSeq(a) /\ IsSeq(b) /\ Len(a) = i /\ Len(b) = i
        BY <2>5, <2>6
      <3> HIDE DEF a, b
      <3>3. a = b
        BY <3>1, <3>2, SeqEqual DEF IsSeq
      <3> QED BY <3>3 DEF a, b
    <2> QED BY <2>4, <2>7 DEF s
  <1>8. SubSeq(Kinds(tokens), 1, i) \in Viable
    <2>1. PICK N \in Deepest, M \in Deepest : Follows(token_index - 1, N, M)
      BY <1>2 DEF Wrong
    <2>2. N \in 0 .. GrammarDepth /\ M \in 0 .. GrammarDepth
      BY FrontendAssumption DEF Deepest
    <2>3. Follows(i, N, M) /\ i \in 0 .. Len(tokens)
      BY <1>3, <1>5, <2>1
    <2> QED BY <1>4, <2>2, <2>3, PrefixViable
  <1> QED BY <1>6, <1>7, <1>8

-----------------------------------------------------------------------------
(* parse of src/parsing/parse.y, as byacc makes it, accepts the sentences  *)
(* of spec/parsing.md that its stack has room for and no others, makes of  *)
(* each the item that is written, and fails for want of stack only where   *)
(* the parentheses are nested that deep.                                   *)
THEOREM ParsesTheGrammar == FrontendSpec => []AcceptsGrammar
  BY GrammarKept, PInvHolds, PTL

(* yyerror is called for the first token that no sentence goes on with,    *)
(* and the parser has asked for no token after that one.                   *)
THEOREM StopsAtWrongToken == FrontendSpec => []FirstWrongToken
  BY WrongTokenKept, PInvHolds, PTL
=============================================================================
