------------------------------- MODULE Parser -------------------------------
(***************************************************************************)
(* src/parsing/parse.y and the parser byacc makes of it.  The rules are    *)
(* data; the engine is the LR automaton over sets of items, with the error *)
(* recovery of byacc: report, uncover a state that can shift `error`,      *)
(* reduce by the rule of that error, whose action ends the parse.          *)
(*                                                                         *)
(* In every state of this grammar there is one rule to reduce by or there  *)
(* are tokens to shift, so the lookahead is read where it is used up.      *)
(* A terminal is the name of a TokenKind.  Locations are token indices.    *)
(***************************************************************************)
EXTENDS Naturals, SequencesExt

CONSTANTS YYMAXDEPTH,      \* entries of the parser's stack, state 0 included
          NoValue

VARIABLES tokens, token_index,
          parse_result,                  \* struct ParseContext
          parse_pc,                      \* "parsing", "recovering", "done"
          stack,                         \* states, locations and values
          error_loc                      \* yyerror_loc_range[1]

syntax == <<tokens, token_index, parse_result, parse_pc, stack, error_loc>>

-----------------------------------------------------------------------------
Rule(lhs, rhs) == [lhs |-> lhs, rhs |-> rhs]

ItemRules == { Rule("file", <<"item">>),
               Rule("item", <<"function_item">>),
               Rule("item", <<"error">>) }

(* Slip: the semicolon is forgotten.                                       *)
StatementRulesLoose == { Rule("block", <<"LeftCurly", "stmt", "RightCurly">>),
                         Rule("stmt", <<"return_stmt">>),
                         Rule("stmt", <<"error">>),
                         Rule("return_stmt", <<"Return", "expr">>) }

StatementRules == { Rule("block", <<"LeftCurly", "stmt", "Semicolon", "RightCurly">>),
                    Rule("stmt", <<"return_stmt">>),
                    Rule("stmt", <<"error">>),
                    Rule("return_stmt", <<"Return", "expr">>) }

ExpressionRules == { Rule("expr", <<"primary_expr">>),
                     Rule("expr", <<"error">>),
                     Rule("primary_expr", <<"Identifier">>),
                     Rule("primary_expr", <<"IntLiteral">>),
                     Rule("primary_expr", <<"LeftParen", "expr", "RightParen">>),
                     Rule("type", <<"expr">>) }

FunctionRules == { Rule("return_type", <<"ThinArrow", "type">>),
                   Rule("function_item", <<"Def", "Identifier",
                                           "function_item_signature", "block">>),
                   Rule("function_item_signature", <<"function_item_params", "return_type">>),
                   Rule("function_item_params", <<"LeftParen", "RightParen">>) }

Rules == ItemRules \cup StatementRules \cup ExpressionRules \cup FunctionRules
Goal == Rule("$accept", <<"file", "EndOfFile">>)

(* primary_expr: ( expr ).  Slip: the value is $1, the default.            *)
ParenthesesDefault(v) == v[1]
Parentheses(v) == v[2]

(* What the action of a rule makes of the values of its right-hand side:   *)
(* the constructors of ast/nodes.c, $2, or $1 by default.                  *)
Value(rule, v) ==
    CASE rule.lhs = "function_item" -> [name |-> v[2].string, type |-> v[3], body |-> v[4]]
      [] rule.lhs = "function_item_signature" ->
           [kind |-> "FunctionType", return_type |-> v[2]]
      [] rule.lhs = "return_stmt" -> [kind |-> "Return", value |-> v[2]]
      [] rule.rhs = <<"Identifier">> -> [kind |-> "Name", name |-> v[1].string]
      [] rule.rhs = <<"IntLiteral">> ->
           [kind |-> "IntLiteral", base |-> v[1].base, digits |-> v[1].digits]
      [] rule.lhs \in {"block", "return_type"} -> v[2]
      [] rule.lhs = "primary_expr" /\ Len(v) = 3 -> Parentheses(v)
      [] OTHER -> v[1]

-----------------------------------------------------------------------------
(* The automaton.  A state is its kernel, a set of rules with a dot.       *)
Dotted(rule, dot) == [rule |-> rule, dot |-> dot]
IsComplete(i) == i.dot = Len(i.rule.rhs)
AfterDot(i) == i.rule.rhs[i.dot + 1]

(* The rules that an instance of the symbol can begin with.                *)
OpenedBy ==
    LET opened[n \in 0 .. Cardinality(Rules)] ==
            [X \in {r.lhs : r \in Rules} |->
                IF n = 0 THEN {r \in Rules : r.lhs = X}
                ELSE LET before == opened[n - 1][X]
                     IN before \cup {r \in Rules : \E b \in before : b.rhs[1] = r.lhs}]
    IN opened[Cardinality(Rules)]

Closure(state) ==
    LET open == {AfterDot(i) : i \in {j \in state : ~IsComplete(j)}} \cap DOMAIN OpenedBy
    IN state \cup {Dotted(r, 0) : r \in UNION {OpenedBy[X] : X \in open}}

Goto(state, X) ==
    {Dotted(i.rule, i.dot + 1) : i \in {j \in Closure(state) : ~IsComplete(j) /\ AfterDot(j) = X}}

Entry(state, loc, value) == [state |-> state, loc |-> loc, value |-> value]
State == Last(stack).state
Full == Len(stack) = YYMAXDEPTH

-----------------------------------------------------------------------------
(* yyerror; the location it is given is not used.                          *)
yyerror(message) == parse_result' = [kind |-> "YaccError", message |-> message]

(* A state that reads a token: yylex, whose assertion is the guard.        *)
Reading == /\ parse_pc = "parsing"
           /\ \A i \in State : ~IsComplete(i)
           /\ token_index < Len(tokens)
Token == tokens[token_index + 1]
yylex == token_index' = token_index + 1

Shift == /\ Reading /\ Token.kind # "EndOfFile" /\ ~Full
         /\ Goto(State, Token.kind) # {}
         /\ yylex
         /\ stack' = Append(stack, Entry(Goto(State, Token.kind), token_index, Token.value))
         /\ UNCHANGED <<tokens, parse_result, parse_pc, error_loc>>

(* The end of the file after a file.                                       *)
Accept == /\ Reading /\ Token.kind = "EndOfFile"
          /\ Goto(State, "EndOfFile") # {}
          /\ yylex
          /\ parse_pc' = "done"
          /\ UNCHANGED <<tokens, parse_result, stack, error_loc>>

SyntaxError == /\ Reading /\ Goto(State, Token.kind) = {}
               /\ yylex
               /\ yyerror("syntax error")
               /\ error_loc' = token_index
               /\ parse_pc' = "recovering"
               /\ UNCHANGED <<tokens, stack>>

(* State 0 shifts `error`, so it is never popped.                          *)
PopState == /\ parse_pc = "recovering" /\ Goto(State, "error") = {}
            /\ error_loc' = Last(stack).loc
            /\ stack' = Front(stack)
            /\ UNCHANGED <<tokens, token_index, parse_result, parse_pc>>

ShiftError == /\ parse_pc = "recovering" /\ Goto(State, "error") # {} /\ ~Full
              /\ stack' = Append(stack, Entry(Goto(State, "error"), error_loc, NoValue))
              /\ parse_pc' = "parsing"
              /\ UNCHANGED <<tokens, token_index, parse_result, error_loc>>

(* There is no room for the state to shift to.                             *)
Overflow == /\ \/ /\ Reading /\ Token.kind # "EndOfFile"
                  /\ Goto(State, Token.kind) # {}
                  /\ yylex
               \/ /\ parse_pc = "recovering" /\ Goto(State, "error") # {}
                  /\ UNCHANGED token_index
            /\ Full
            /\ yyerror("yacc stack overflow")
            /\ parse_pc' = "done"
            /\ UNCHANGED <<tokens, stack, error_loc>>

-----------------------------------------------------------------------------
(* A complete rule, its right-hand side on the stack.                      *)
Reducing(rule) == parse_pc = "parsing" /\ Dotted(rule, Len(rule.rhs)) \in State
Below(rule) == Len(stack) - Len(rule.rhs)
Handle(rule) == [k \in 1 .. Len(rule.rhs) |-> stack[Below(rule) + k]]

(* EXPECTED: the token at the location of what went wrong, and YYABORT.    *)
ReduceError(rule) ==
    /\ Reducing(rule) /\ rule.rhs = <<"error">>
    /\ LET loc == Last(stack).loc IN
         parse_result' = [kind |-> "ParseError", expected_category |-> rule.lhs,
                    actual_token_index |-> loc,
                    actual_token_kind |-> tokens[loc + 1].kind]
    /\ parse_pc' = "done"
    /\ UNCHANGED <<tokens, token_index, stack, error_loc>>

(* SUCCESS comes when the item ends, before the end of the file is seen.   *)
Reduce(rule) ==
    /\ Reducing(rule) /\ rule.rhs # <<"error">>
    /\ LET handle == Handle(rule)
           value == Value(rule, [k \in DOMAIN handle |-> handle[k].value])
           rest == SubSeq(stack, 1, Below(rule)) IN
         /\ stack' = Append(rest, Entry(Goto(Last(rest).state, rule.lhs),
                                        Head(handle).loc, value))
         /\ parse_result' = IF rule.lhs = "file" THEN [kind |-> "Success", item |-> value]
                                           ELSE parse_result
    /\ UNCHANGED <<tokens, token_index, parse_pc, error_loc>>

-----------------------------------------------------------------------------
(* parse, for a token list.                                                *)
ParserInit(list) ==
    /\ tokens = list
    /\ token_index = 0 /\ parse_result = [kind |-> "none"]
    /\ parse_pc = "parsing"
    /\ stack = <<Entry({Dotted(Goal, 0)}, 0, NoValue)>>
    /\ error_loc = 0

ParserNext ==
    \/ Shift \/ Accept \/ SyntaxError \/ PopState \/ ShiftError \/ Overflow
    \/ \E rule \in Rules : ReduceError(rule) \/ Reduce(rule)
=============================================================================
