--------------------------- MODULE MCCompilation ---------------------------
(* All items over the declared name, an undeclared one and literals.       *)
EXTENDS Compilation

Named(n) == [kind |-> "Name", name |-> n]
Names == {Named("Int32"), Named("undeclared")}

Integer(b, d) == [kind |-> "IntLiteral", base |-> b, digits |-> d]

(* With bytes of two bits an Int32 ends at 127, uint32_t at 255,           *)
(* BIGINT_INLINE_MAX is 16383 and uintmax_t ends at 65535.                 *)
Literals == {Integer(16, d) : d \in BoundedSeq({0, 8, 15, 36}, 5) \ {<< >>}}
            \cup {Integer(10, d) : d \in BoundedSeq({1, 2, 7, 36}, 4) \ {<< >>}}
            \cup {Integer(2, d) : d \in BoundedSeq({0, 1}, 3) \ {<< >>}}
FewLiterals == {Integer(10, <<1, 2>>), Integer(16, <<15, 36, 8>>), Integer(2, <<1, 0>>),
                Integer(16, <<15, 15, 15, 15>>)}

Item(t, v) == [return_type |-> t, value |-> v]
LiteralTypes == {Item(Integer(10, <<1>>), v) : v \in Names \cup {Integer(2, <<1>>)}}

TypedItems(literals) == {Item(t, v) : t \in Names, v \in Names \cup literals}
FewItems == TypedItems(FewLiterals) \cup LiteralTypes

(* Literals are compiled only with the type they have.                     *)
AllItems == FewItems \cup {Item(Named("Int32"), v) : v \in Literals}
=============================================================================
