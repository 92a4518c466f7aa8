-------------------------------- MODULE Dump --------------------------------
(***************************************************************************)
(* src/ast/dump.c: what the commands parse and check print of an item.     *)
(* The output is a sequence of lines: the line a node opens in, its fields *)
(* and the line that closes it, or one line for a field that is a leaf.    *)
(* The text of a line is a sequence of words.                              *)
(***************************************************************************)
EXTENDS Compilation

Line(kind, indent, text) == [kind |-> kind, indent |-> indent, text |-> text]

(* BigInt_write                                                            *)
NumberText(opaque) == IF opaque % 2 = 1 THEN <<opaque \div 2>> ELSE <<"<bigint>">>

(* Every type of an expression is simple.                                  *)
TypeText(n) == IF type[n] = NULL THEN << >> ELSE <<"type =", type[n][1]>>

(* Expr_dump_internal: what an expression was evaluated to stands for it.  *)
(* Slip: it does not.                                                      *)
ShownAsWritten(n) == n
Shown(n) == IF const_eval[n] = NULL THEN n ELSE const_eval[n]

ExprText(n) ==
    LET e == Shown(n) IN
    CASE Kind(e) = "SimpleType" -> <<"Int32Expr()">>
      [] Kind(e) = "Name" -> <<"NameExpr", Literal(e).name>> \o TypeText(e)
      [] Kind(e) = "IntLiteral" ->
           <<"IntLiteralExpr">> \o NumberText(BigInt_parse(Literal(e).digits, Literal(e).base))
                                \o TypeText(e)

(* A node: its first line, its fields, the line that closes it.            *)
(* Slip: the indentation stays that of the fields.                         *)
NodeKeptIndent(indent, label, name, inner) ==
    <<Line("opens", indent, <<label, name>>)>> \o inner
        \o <<Line("closes", indent + 1, << >>)>>

Node(indent, label, name, inner) ==
    <<Line("opens", indent, <<label, name>>)>> \o inner
        \o <<Line("closes", indent, << >>)>>

Field(indent, label, n) == <<Line("leaf", indent, <<label>> \o ExprText(n))>>
TypeLine(indent, n) == IF type[n] = NULL THEN << >> ELSE <<Line("leaf", indent, TypeText(n))>>

FunctionTypeExpr(indent, n) ==
    Node(indent, "type =", "FunctionTypeExpr",
         Field(indent + 1, "return_type =", Child(n)) \o TypeLine(indent + 1, n))

ReturnExpr(indent, n) ==
    Node(indent, "body =", "ReturnExpr",
         Field(indent + 1, "value =", Child(n)) \o TypeLine(indent + 1, n))

FunctionItem ==
    Node(0, "", "FunctionItem", <<Line("leaf", 1, <<"name =", item.name>>)>>
                                \o FunctionTypeExpr(1, "item_type") \o ReturnExpr(1, "body"))

-----------------------------------------------------------------------------
(* How deep in the nodes that are open a line lies.                        *)
Depth(lines, k) == Cardinality({j \in 1 .. k - 1 : lines[j].kind = "opens"})
                   - Cardinality({j \in 1 .. k : lines[j].kind = "closes"})

Fields(lines, label) ==
    {Tail(line.text) : line \in {l \in Range(lines) : l.text # << >> /\ Head(l.text) = label}}

(* The output is indented as its nodes are nested, and every node that is  *)
(* opened is closed.                                                       *)
WellLaidOut(lines) ==
    /\ \A k \in DOMAIN lines : lines[k].indent = Depth(lines, k)
    /\ Depth(lines, Len(lines)) = 0

(* Of an item that is not checked the dump shows what was written.         *)
ShowsWritten(lines) ==
    LET Written(e) == IF e.kind = "Name" THEN <<"NameExpr", e.name>>
                      ELSE <<"IntLiteralExpr", NumberOf(e)>>
    IN /\ Fields(lines, "name =") = {<<item.name>>}
       /\ Fields(lines, "return_type =") = {Written(item.return_type)}
       /\ Fields(lines, "value =") = {Written(item.value)}
       /\ Fields(lines, "type =") = {<<"FunctionTypeExpr">>}

(* Of a checked item it shows the type that is denoted, and the types the  *)
(* rules of spec/type-checking.md give to the value and to its return.     *)
ShowsTypes(lines) ==
    /\ Fields(lines, "name =") = {<<item.name>>}
    /\ Denotes(item.return_type, Int32) /\ Fields(lines, "return_type =") = {<<"Int32Expr()">>}
    /\ HasType(item.value, Int32)
    /\ Fields(lines, "value =") = {<<"IntLiteralExpr", NumberOf(item.value), "type =", "Int32">>}
    /\ Fields(lines, "type =") = {<<"FunctionTypeExpr">>, NeverType}
=============================================================================
