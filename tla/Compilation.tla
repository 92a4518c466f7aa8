---------------------------- MODULE Compilation ----------------------------
(***************************************************************************)
(* The commands check and compile after parsing: type_check of             *)
(* src/sema/type_checking.c on the one item of a file, then, if it         *)
(* succeeds, compile_function of src/eval/compile.c and                    *)
(* BytecodeFunction_dump of src/eval/bytecode.c.  The recursive functions  *)
(* const_eval, type_expr and as_type are calls on a stack; each leaves its *)
(* answer in the field of the node it was called for.                      *)
(*                                                                         *)
(* The grammar admits an identifier or a literal as return type and as     *)
(* value.  The other nodes of an item have names:                          *)
(*   "item_type"  item->type            "evaluated"  its const_eval        *)
(*   "body"       the return statement  "prelude"    the type Int32        *)
(* A type is the sequence of its constructors.  Widths follow Byte, the    *)
(* number of values of a byte, 256 in the code.                            *)
(***************************************************************************)
EXTENDS Naturals, SequencesExt

CONSTANTS Items,    \* the items that are checked, as parsed
          Byte, NULL

ASSUME CompilationAssumption == Byte \in Nat /\ Byte > 2   \* the opcodes fit

VARIABLES item, pc,
          calls,                      \* of const_eval, type_expr and as_type
          type, const_eval, as_type,  \* struct Expr
          scopes, return_type,        \* struct TypeContext
          result,                     \* struct TypeCheckResult
          code,                       \* struct BytecodeFunction
          at, printed                 \* i of BytecodeFunction_dump, stdout

fields == <<type, const_eval, as_type>>
context == <<scopes, return_type>>
output == <<code, at, printed>>
vars == <<item, pc, calls, fields, context, result, output>>

Nodes == {"item_type", "return_expr", "evaluated", "body", "value", "prelude"}

Int32 == <<"Int32">>
TypeType == <<"Type">>
NeverType == <<"Never">>
FunctionType(t) == <<"Function">> \o t

Int32Decl == [value |-> "prelude", type |-> TypeType]

(* NULL is no node, no type and no declaration; the grammar puts a name or *)
(* a literal in the two places of an item.                                 *)
ASSUME NullAssumption == /\ NULL \notin Nodes /\ NULL # Int32Decl
                         /\ NULL \notin {Int32, TypeType, NeverType, FunctionType(Int32)}

(* A name or a literal; see BigInt_parse for its digits.                   *)
IsSimple(e) == \/ e.kind = "Name"
               \/ e.kind = "IntLiteral" /\ e.base \in 2 .. 36 /\ e.digits \in Seq(0 .. 36)

ASSUME ItemsAssumption == \A i \in Items : IsSimple(i.return_type) /\ IsSimple(i.value)

Scopes == INSTANCE ScopeStack WITH Names <- {"Int32"}, Decls <- {Int32Decl},
                                   NoDecl <- NULL, answer <- NULL

-----------------------------------------------------------------------------
(* Nodes: what is in the tree, and what the constructors built on it.      *)
Literal(n) == IF n = "value" THEN item.value ELSE item.return_type

Kind(n) == CASE n \in {"item_type", "evaluated"} -> "FunctionType"
             [] n = "body" -> "Return"
             [] n = "prelude" -> "SimpleType"
             [] OTHER -> Literal(n).kind

Child(n) == CASE n = "item_type" -> "return_expr"
              [] n = "evaluated" -> const_eval["return_expr"]
              [] n = "body" -> "value"

Type_equal(left, right) == left = right

Call(f, n) == [f |-> f, of |-> n]
Running(f, kinds) == /\ calls # << >> /\ Head(calls).f = f
                     /\ Kind(Head(calls).of) \in kinds
Top == Head(calls).of
Enter(f, n) == calls' = <<Call(f, n)>> \o calls /\ UNCHANGED fields
Idle(step) == pc = step /\ calls = << >>

(* longjmp to the end of type_check, scopes and calls as they are.         *)
Exit(r) ==
    /\ result' = r
    /\ pc' = "destroy" /\ calls' = << >>
    /\ UNCHANGED <<item, fields, context, output>>

UndeclaredName(n) == [kind |-> "UndeclaredName", name |-> n]
ExpectedType(actual, expected) ==
    [kind |-> "ExpectedType", actual |-> actual, expected |-> expected]

Checking == UNCHANGED <<item, pc, context, result, output>>

EvalTo(n, e) == /\ const_eval' = [const_eval EXCEPT ![n] = e]
                /\ calls' = Tail(calls)
                /\ UNCHANGED <<type, as_type>> /\ Checking
TypeAs(n, t) == /\ type' = [type EXCEPT ![n] = t]
                /\ calls' = Tail(calls)
                /\ UNCHANGED <<const_eval, as_type>> /\ Checking
LiftTo(n, t) == /\ as_type' = [as_type EXCEPT ![n] = t]
                /\ calls' = Tail(calls)
                /\ UNCHANGED <<type, const_eval>> /\ Checking

-----------------------------------------------------------------------------
(* The call in progress looks its name up, for const_eval or type_expr.    *)
Undeclared ==
    /\ Running("const_eval", {"Name"}) \/ Running("type_expr", {"Name"})
    /\ Scopes!Lookup(Literal(Top).name) = NULL
    /\ Exit(UndeclaredName(Literal(Top).name))

Declared == Scopes!Lookup(Literal(Top).name) # NULL

(* const_eval                                                              *)
EvalValue == Running("const_eval", {"IntLiteral"}) /\ EvalTo(Top, Top)

EvalName == /\ Running("const_eval", {"Name"}) /\ Declared
            /\ EvalTo(Top, Scopes!Lookup(Literal(Top).name).value)

EvalFunctionType ==
    /\ Running("const_eval", {"FunctionType"})
    /\ IF const_eval[Child(Top)] = NULL
       THEN Enter("const_eval", Child(Top)) /\ Checking
       ELSE EvalTo(Top, "evaluated")

(* type_expr                                                               *)
TypeLiteral == Running("type_expr", {"IntLiteral"}) /\ TypeAs(Top, Int32)

TypeFunctionType == Running("type_expr", {"FunctionType"})
                    /\ TypeAs(Top, TypeType)

TypeName == /\ Running("type_expr", {"Name"}) /\ Declared
            /\ TypeAs(Top, Scopes!Lookup(Literal(Top).name).type)

(* Slips: the value's type is not compared; the two types are swapped.     *)
TypeReturnUnchecked ==
    /\ Running("type_expr", {"Return"})
    /\ IF type[Child(Top)] = NULL
       THEN Enter("type_expr", Child(Top)) /\ Checking
       ELSE TypeAs(Top, NeverType)

TypeReturnSwapped ==
    /\ Running("type_expr", {"Return"})
    /\ IF type[Child(Top)] = NULL
       THEN Enter("type_expr", Child(Top)) /\ Checking
       ELSE IF Type_equal(return_type, type[Child(Top)])
            THEN TypeAs(Top, NeverType)
            ELSE Exit(ExpectedType(return_type, type[Child(Top)]))

TypeReturn ==
    /\ Running("type_expr", {"Return"})
    /\ IF type[Child(Top)] = NULL
       THEN Enter("type_expr", Child(Top)) /\ Checking
       ELSE IF Type_equal(return_type, type[Child(Top)])
            THEN TypeAs(Top, NeverType)
            ELSE Exit(ExpectedType(type[Child(Top)], return_type))

(* as_type                                                                 *)
LiftSimpleType == Running("as_type", {"SimpleType"}) /\ LiftTo(Top, Int32)

LiftFunctionType ==
    /\ Running("as_type", {"FunctionType"})
    /\ IF as_type[Child(Top)] = NULL
       THEN Enter("as_type", Child(Top)) /\ Checking
       ELSE LiftTo(Top, FunctionType(as_type[Child(Top)]))

(* A literal is no type: as_type is NULL, so is that of the function type, *)
(* and type_function_item reads the kind of a type that is not there.      *)
LiftNothing ==
    /\ Running("as_type", {"IntLiteral", "Name"})
    /\ pc' = "crash" /\ calls' = << >>
    /\ UNCHANGED <<item, fields, context, result, output>>

-----------------------------------------------------------------------------
(* type_function_item, as far as its calls                                 *)
GoTo(step, call) == /\ pc' = step /\ calls' = <<call>>
                    /\ UNCHANGED <<item, fields, result, output>>

TypeItemType ==
    /\ Idle("const_eval")
    /\ GoTo("type_item_type", Call("type_expr", const_eval["item_type"]))
    /\ UNCHANGED context

(* The comparison cannot fail: the type of every function type is Type.    *)
LiftItemType ==
    /\ Idle("type_item_type")
    /\ LET evaluated == const_eval["item_type"]
       IN IF Type_equal(type[evaluated], TypeType)
          THEN GoTo("as_type", Call("as_type", evaluated)) /\ UNCHANGED context
          ELSE Exit(ExpectedType(type[evaluated], TypeType))

TypeBody ==
    /\ Idle("as_type")
    /\ scopes' = <<Scopes!NoScope>> \o scopes
    /\ return_type' = Tail(as_type[const_eval["item_type"]])
    /\ GoTo("type_body", Call("type_expr", "body"))

LeaveItem ==
    /\ Idle("type_body")
    /\ return_type' = NULL
    /\ scopes' = Tail(scopes)
    /\ pc' = "destroy"
    /\ UNCHANGED <<item, calls, fields, result, output>>

(* The end of type_check, and what do_check does with its result.          *)
DestroyScopes ==
    /\ pc = "destroy"
    /\ scopes' = << >>
    /\ pc' = IF result.kind = "Success" THEN "checked" ELSE "reported"
    /\ UNCHANGED <<item, calls, fields, return_type, result, output>>

-----------------------------------------------------------------------------
(* Integers: BigInt_parse, with digits of every base as numbers and every  *)
(* other character as 36, and the conversion to 32 bits.                   *)
Power(base) == LET power[n \in Nat] == IF n = 0 THEN 1 ELSE base * power[n - 1] IN power

UintMod == Power(Byte)[8]
Uint32Mod == Power(Byte)[4]
BIGINT_INLINE_MAX == UintMod \div 4 - 1

BigInt_from_uint(value) == IF value <= BIGINT_INLINE_MAX THEN 2 * value + 1 ELSE 0

BigInt_parse(digits, base) ==
    BigInt_from_uint(FoldLeft(
        LAMBDA uvalue, digit : IF digit >= base THEN uvalue
                               ELSE (uvalue * base + digit) % UintMod,
        0, digits))

(* Slip: the tag bit stays.                                                *)
BigInt_as_tagged(opaque) == opaque % Uint32Mod
BigInt_as_uint32(opaque) == (opaque % Uint32Mod) \div 2

-----------------------------------------------------------------------------
Opcode_Trap == 0
Opcode_Return == 1
Opcode_PushInt32 == 2

(* emit_u32.  Slip: the bytes are not cut off.                             *)
WholeBytes(value) == [i \in 1 .. 4 |-> value \div Power(Byte)[i - 1]]
Bytes(value) == [i \in 1 .. 4 |-> (value \div Power(Byte)[i - 1]) % Byte]

Compiling == UNCHANGED <<item, calls, fields, context, result>>

(* compile_expr of the value: only a literal has code yet.                 *)
CompileValue ==
    /\ pc = "checked"
    /\ IF Kind("value") = "IntLiteral"
       THEN LET integer == BigInt_parse(item.value.digits, item.value.base)
            IN /\ code' = <<Opcode_PushInt32>> \o Bytes(BigInt_as_uint32(integer))
               /\ pc' = "compile_return"
       ELSE pc' = "abort" /\ UNCHANGED code
    /\ UNCHANGED <<at, printed>> /\ Compiling

CompileReturn ==
    /\ pc = "compile_return"
    /\ code' = Append(code, Opcode_Return)
    /\ pc' = "dump"
    /\ UNCHANGED <<at, printed>> /\ Compiling

(* BytecodeFunction_dump: one instruction a step.  The operand is read at  *)
(* the start of the code, wherever the instruction is.                     *)
Dumping(opcodes) == pc = "dump" /\ at < Len(code) /\ code[at + 1] \in opcodes

DumpPush ==
    /\ Dumping({Opcode_PushInt32})
    /\ printed' = Append(printed,
          [opcode |-> Opcode_PushInt32,
           operand |-> code[2] + code[3] * Power(Byte)[1] + code[4] * Power(Byte)[2]
                      + code[5] * Power(Byte)[3]])
    /\ at' = at + 5
    /\ UNCHANGED <<pc, code>> /\ Compiling

DumpOther ==
    /\ Dumping(0 .. Byte - 1 \ {Opcode_PushInt32})
    /\ printed' = Append(printed, [opcode |-> code[at + 1]])
    /\ at' = at + 1
    /\ UNCHANGED <<pc, code>> /\ Compiling

(* Slip: the loop goes on for one more byte.                               *)
DumpEndLate ==
    /\ pc = "dump" /\ at > Len(code)
    /\ pc' = "dumped"
    /\ UNCHANGED output /\ Compiling

DumpEnd ==
    /\ pc = "dump" /\ at >= Len(code)
    /\ pc' = "dumped"
    /\ UNCHANGED output /\ Compiling

-----------------------------------------------------------------------------
(* A tree no pass has been over, DeclMap_init and add_prelude.             *)
Prepared ==
    /\ type = [n \in Nodes |-> NULL]
    /\ const_eval = [n \in Nodes |-> NULL]
    /\ as_type = [n \in Nodes |-> NULL]
    /\ scopes = << [n \in {"Int32"} |-> Int32Decl] >>
    /\ return_type = NULL
    /\ result = [kind |-> "Success"]
    /\ code = << >> /\ at = 0 /\ printed = << >>

(* The call of type_function_item.                                         *)
Init == /\ item \in Items
        /\ pc = "const_eval" /\ calls = <<Call("const_eval", "item_type")>>
        /\ Prepared

Next == \/ Undeclared \/ EvalValue \/ EvalName \/ EvalFunctionType
        \/ TypeLiteral \/ TypeFunctionType \/ TypeName \/ TypeReturn
        \/ LiftSimpleType \/ LiftFunctionType \/ LiftNothing
        \/ TypeItemType \/ LiftItemType \/ TypeBody \/ LeaveItem \/ DestroyScopes
        \/ CompileValue \/ CompileReturn \/ DumpPush \/ DumpOther \/ DumpEnd

Spec == Init /\ [][Next]_vars

-----------------------------------------------------------------------------
(* The judgements of spec/type-checking.md, in the context of the prelude. *)
HasType(e, t) == \/ e.kind = "IntLiteral" /\ t = Int32
                 \/ e.kind = "Name" /\ e.name = "Int32" /\ t = TypeType

(* as_type(const_eval(e)) = t                                              *)
Denotes(e, t) == e.kind = "Name" /\ e.name = "Int32" /\ t = Int32

(* TypeItem-Function, with TypeExpr-FunctionType and TypeExpr-Return.      *)
WellTyped(i) == /\ HasType(i.return_type, TypeType)
                /\ \E t \in {Int32, TypeType} :
                      Denotes(i.return_type, t) /\ HasType(i.value, t)

(* The number a literal is written for: each digit counts by its place,    *)
(* the number of digits after it.                                          *)
NumberOf(e) ==
    LET digits == {i \in DOMAIN e.digits : e.digits[i] < e.base}
        place(i) == Cardinality({j \in digits : j > i})
    IN FoldFunction(+, 0, [i \in digits |-> e.digits[i] * Power(e.base)[place(i)]])

(* type_check accepts only what the rules of spec/type-checking.md accept, *)
(* and refuses only what they do not.                                      *)
AcceptsBySpec ==
    /\ pc = "checked" => WellTyped(item)
    /\ pc = "reported" => ~WellTyped(item)

(* The item is ill-typed and something has come of it: then it is an error *)
(* message.  TypeExpr-FunctionType of spec/type-checking.md asks that a    *)
(* return type is a type.                                                  *)
RefusesBySpec ==
    (pc \in {"reported", "checked", "crash"} /\ ~WellTyped(item)) => pc = "reported"

(* What is reported is so, and is the first thing wrong with the item: the *)
(* name has no declaration, or the value has the type that is called       *)
(* actual and the return type stands for the other one.                    *)
ErrorsTrue ==
    pc = "reported" =>
        \/ /\ result.kind = "UndeclaredName"
           /\ LET e == IF HasType(item.return_type, TypeType) THEN item.value
                                                             ELSE item.return_type
              IN e.kind = "Name" /\ e.name = result.name /\ ~HasType(e, TypeType)
        \/ /\ result.kind = "ExpectedType"
           /\ HasType(item.value, result.actual)
           /\ Denotes(item.return_type, result.expected)
           /\ result.actual # result.expected

(* The assertions of compile_expr, that it meets no type and no name, hold *)
(* of every item that type checking lets through.                          *)
CompilesWhatTypeChecks == pc # "abort"

(* A literal that an Int32 can hold goes through the tokens, the tree and  *)
(* the code unchanged, and the function pushes it and returns it; the code *)
(* is bytes.                                                               *)
LiteralKept ==
    /\ \A i \in DOMAIN code : code[i] \in 0 .. Byte - 1
    /\ (pc = "dumped" /\ NumberOf(item.value) < Uint32Mod \div 2) =>
          printed = << [opcode |-> Opcode_PushInt32, operand |-> NumberOf(item.value)],
                       [opcode |-> Opcode_Return] >>
=============================================================================
