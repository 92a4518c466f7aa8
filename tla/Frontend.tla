------------------------------ MODULE Frontend ------------------------------
(***************************************************************************)
(* do_parse, do_check and do_compile of src/driver/commands.c: the parser  *)
(* on a list of tokens, then type checking and the compiler on the item it *)
(* makes, and what is printed of the item.  The options are those of a     *)
(* command line without flags.                                             *)
(***************************************************************************)
EXTENDS Dump, Parser

CONSTANTS Inputs,       \* pairs of a command and a list of tokens
          GrammarDepth  \* of the reference grammar, no less than the stack has room for

(* What lex_source makes of a file: the end of the file is the last token, *)
(* literals have values.  A TokenKind is no symbol of the grammar's own.   *)
IsToken(t) == /\ t.kind \notin {r.lhs : r \in Rules} \cup {"error"}
              /\ t.kind = "IntLiteral" =>
                     t.value.base \in 2 .. 36 /\ t.value.digits \in Seq(0 .. 36)

IsTokenList(list) ==
    /\ list \in Seq(Range(list)) /\ list # << >>
    /\ \A k \in DOMAIN list : IsToken(list[k]) /\ (list[k].kind = "EndOfFile" <=> k = Len(list))

ASSUME FrontendAssumption ==
    /\ YYMAXDEPTH \in Nat /\ YYMAXDEPTH >= 8
    /\ GrammarDepth \in Nat /\ GrammarDepth >= YYMAXDEPTH - 5
    /\ \A input \in Inputs : /\ input.command \in {"parse", "check", "compile"}
                             /\ IsTokenList(input.tokens)

VARIABLE command

all_vars == <<command, syntax, vars>>

Grammar == INSTANCE HierarchicalGrammar WITH Nesting <- GrammarDepth

Sentences == Grammar!file
Viable == Grammar!Viable

-----------------------------------------------------------------------------
(* do_parse: the call of parse, and the switch over its result.            *)
Parse == /\ pc = "parse" /\ parse_pc # "done"
         /\ ParserNext
         /\ UNCHANGED <<command, vars>>

Parsed(kind) == pc = "parse" /\ parse_pc = "done" /\ parse_result.kind = kind

ParsedItem == [name |-> parse_result.item.name,
               return_type |-> parse_result.item.type.return_type,
               value |-> parse_result.item.body.value]

DumpParsed == /\ Parsed("Success") /\ command = "parse"
              /\ item' = ParsedItem
              /\ pc' = "dump_item"
              /\ UNCHANGED <<command, syntax, calls, fields, context, result, output>>

StartCheck == /\ Parsed("Success") /\ command # "parse"
              /\ item' = ParsedItem
              /\ pc' = "const_eval" /\ calls' = <<Call("const_eval", "item_type")>>
              /\ UNCHANGED <<command, syntax, fields, context, result, output>>

ReportParse == /\ Parsed("ParseError") \/ Parsed("YaccError")
               /\ pc' = "syntax_reported"
               /\ UNCHANGED <<command, syntax, item, calls, fields, context, result, output>>

(* do_check, and do_compile if that is the command.                        *)
Check == /\ pc = "checked" => command = "compile"
         /\ Next
         /\ UNCHANGED <<command, syntax>>

DumpChecked == /\ pc = "checked" /\ command = "check"
               /\ pc' = "dump_item"
               /\ UNCHANGED <<command, syntax, item, calls, fields, context, result, output>>

(* FunctionItem_dump                                                       *)
DumpItem == /\ pc = "dump_item"
            /\ printed' = FunctionItem
            /\ pc' = "item_dumped"
            /\ UNCHANGED <<command, syntax, item, calls, fields, context, result, code, at>>

FrontendInit == /\ \E input \in Inputs : /\ command = input.command
                                         /\ ParserInit(input.tokens)
                /\ item = NULL /\ pc = "parse" /\ calls = << >>
                /\ Prepared

FrontendNext == Parse \/ DumpParsed \/ StartCheck \/ ReportParse
                \/ Check \/ DumpChecked \/ DumpItem

FrontendSpec == FrontendInit /\ [][FrontendNext]_all_vars /\ WF_all_vars(FrontendNext)

-----------------------------------------------------------------------------
Kinds(list) == [k \in DOMAIN list |-> list[k].kind]
Sentence == Kinds(tokens) \in Sentences

(* The leaves of the tree, from left to right: the name of the function,   *)
(* its return type and the value.  Parentheses leave no trace.             *)
Leaves == LET leaves == {i \in DOMAIN tokens : tokens[i].kind \in {"Identifier", "IntLiteral"}}
          IN [k \in 1 .. Cardinality(leaves) |->
                 tokens[CHOOSE i \in leaves : Cardinality({j \in leaves : j <= i}) = k]]
LeafExpr(t) == IF t.kind = "Identifier" THEN [kind |-> "Name", name |-> t.value.string]
               ELSE [kind |-> "IntLiteral", base |-> t.value.base, digits |-> t.value.digits]
WrittenItem == [name |-> Leaves[1].value.string,
                type |-> [kind |-> "FunctionType", return_type |-> LeafExpr(Leaves[2])],
                body |-> [kind |-> "Return", value |-> LeafExpr(Leaves[3])]]

(* The parentheses that are open before the k-th token, and the entries of *)
(* the stack that it needs in an expression: the type stands on five of    *)
(* them, the value on six, and a parenthesis is closed after its content.  *)
Open(k) == Cardinality({j \in 1 .. k - 1 : tokens[j].kind = "LeftParen"})
           - Cardinality({j \in 1 .. k - 1 : tokens[j].kind = "RightParen"})
StackNeeded(k) ==
    LET under == IF \E j \in 1 .. k - 1 : tokens[j].kind = "LeftCurly" THEN 6 ELSE 5
    IN CASE tokens[k - 1].kind \in {"ThinArrow", "Return", "LeftParen"} -> under + Open(k) + 1
         [] tokens[k].kind = "RightParen" /\ tokens[k - 1].kind # "LeftParen"
              /\ Open(k) > 0 -> under + Open(k) + 2
         [] OTHER -> 0
Fits(n) == \A k \in 6 .. n : StackNeeded(k) <= YYMAXDEPTH

(* The parser accepts the sentences of the hierarchical grammar of         *)
(* spec/parsing.md that fit its stack, and makes of each the item that the *)
(* document describes; it runs out of stack for those only that need more. *)
AcceptsGrammar ==
    parse_pc = "done" =>
        /\ parse_result.kind = "Success" <=> Sentence /\ Fits(Len(tokens))
        /\ parse_result.kind = "Success" => parse_result.item = WrittenItem
        /\ parse_result.kind = "YaccError" => ~Fits(token_index)

(* A list that is refused is read up to the first token that no sentence   *)
(* has after what comes before it, and not further.                        *)
FirstWrongToken ==
    (parse_pc = "done" /\ parse_result.kind = "ParseError") =>
        LET read == SubSeq(Kinds(tokens), 1, token_index)
        IN Front(read) \in Viable /\ read \notin Viable

(* The output of parse is the item as it was written, that of check is the *)
(* item with the types it was given.                                       *)
IsInline(e) == e.kind = "IntLiteral" => NumberOf(e) <= BIGINT_INLINE_MAX
DumpTrue ==
    (pc = "item_dumped" /\ IsInline(item.return_type) /\ IsInline(item.value)) =>
        /\ WellLaidOut(printed)
        /\ IF command = "parse" THEN ShowsWritten(printed) ELSE ShowsTypes(printed)

(* Every list of tokens comes to an end: recovery does not go on for ever, *)
(* and no token is asked for after the end of the file.                    *)
FrontendReturns ==
    <>(pc \in {"syntax_reported", "item_dumped", "reported", "dumped", "abort", "crash"})
=============================================================================
