--------------------------- MODULE FrontendProofs ---------------------------
(***************************************************************************)
(* Theorems about Compilation and Frontend, for any items, any lists of    *)
(* tokens and any width of a byte:                                         *)
(*   Spec          type_check of src/sema/type_checking.c accepts and      *)
(*                 reports by the rules of spec/type-checking.md, and the  *)
(*                 code has the literal of the item                        *)
(*   FrontendSpec  that too, of what is parsed, and the dump shows the     *)
(*                 item                                                    *)
(***************************************************************************)
EXTENDS ParserProofs

-----------------------------------------------------------------------------
(* The return type is the one type that has a name.                        *)
NamesInt32 == item.return_type.kind = "Name" /\ item.return_type.name = "Int32"

(* What each answer kept in a node says of the item.                       *)
Answers ==
    /\ type \in [Nodes -> {NULL, Int32, TypeType, NeverType}]
    /\ const_eval \in [Nodes -> Nodes \cup {NULL}]
    /\ as_type \in [Nodes -> {NULL, Int32, FunctionType(Int32)}]
    /\ const_eval["return_expr"] \in {NULL, "prelude", "return_expr"}
    /\ const_eval["return_expr"] = "prelude" => NamesInt32
    /\ const_eval["return_expr"] = "return_expr" => item.return_type.kind = "IntLiteral"
    /\ type["value"] # NULL => HasType(item.value, type["value"])
    /\ type["body"] # NULL => HasType(item.value, Int32)
    /\ as_type["return_expr"] = NULL
    /\ as_type["prelude"] \in {NULL, Int32}
    /\ as_type["evaluated"] # NULL => as_type["evaluated"] = FunctionType(Int32) /\ NamesInt32

Prelude == [n \in {"Int32"} |-> Int32Decl]
Success == [kind |-> "Success"]

Evaluating ==
    /\ scopes = <<Prelude>> /\ result = Success
    /\ \/ calls = <<Call("const_eval", "item_type")>>
       \/ calls = <<Call("const_eval", "return_expr"), Call("const_eval", "item_type")>>
       \/ calls = << >> /\ const_eval["item_type"] = "evaluated"
                        /\ const_eval["return_expr"] # NULL

Evaluated == const_eval["item_type"] = "evaluated" /\ const_eval["return_expr"] # NULL

TypingItemType ==
    /\ scopes = <<Prelude>> /\ result = Success /\ Evaluated
    /\ \/ calls = <<Call("type_expr", "evaluated")>>
       \/ calls = << >> /\ type["evaluated"] = TypeType

Lifting ==
    /\ scopes = <<Prelude>> /\ result = Success /\ Evaluated
    /\ \/ calls = <<Call("as_type", "evaluated")>>
       \/ calls = <<Call("as_type", const_eval["return_expr"]), Call("as_type", "evaluated")>>
       \/ calls = << >> /\ as_type["evaluated"] # NULL

TypingBody ==
    /\ scopes = <<Scopes!NoScope, Prelude>> /\ result = Success
    /\ return_type = Int32 /\ NamesInt32
    /\ \/ calls = <<Call("type_expr", "body")>>
       \/ calls = <<Call("type_expr", "value"), Call("type_expr", "body")>>
       \/ calls = << >> /\ type["body"] # NULL

(* Typing is over: what was found is what the item is.                     *)
Accepted == result = Success /\ NamesInt32 /\ HasType(item.value, Int32)
Refused ==
    \/ /\ result.kind = "UndeclaredName"
       /\ LET e == IF NamesInt32 THEN item.value ELSE item.return_type
          IN e.kind = "Name" /\ e.name # "Int32" /\ result.name = e.name
    \/ /\ result.kind = "ExpectedType" /\ NamesInt32
       /\ HasType(item.value, result.actual)
       /\ result.expected = Int32 /\ result.actual # Int32

Passes == {"const_eval", "type_item_type", "as_type", "type_body"}
CompileSteps == {"checked", "compile_return", "dump", "dumped"}

Course ==
    /\ IsSimple(item.return_type) /\ IsSimple(item.value)
    /\ pc \in Passes \cup CompileSteps \cup {"destroy", "reported", "crash"}
    /\ pc = "const_eval" => Evaluating
    /\ pc = "type_item_type" => TypingItemType
    /\ pc = "as_type" => Lifting
    /\ pc = "type_body" => TypingBody
    /\ pc \notin Passes => calls = << >>
    /\ pc = "destroy" => Accepted \/ Refused
    /\ pc = "reported" => Refused
    /\ pc \in CompileSteps => Accepted

CInv == Answers /\ Course

-----------------------------------------------------------------------------
LEMMA ShortSequences ==
    ASSUME NEW a, NEW b
    PROVE  /\ <<a>> # << >> /\ Head(<<a>>) = a /\ Tail(<<a>>) = << >>
           /\ <<a, b>> # << >> /\ Head(<<a, b>>) = a /\ Tail(<<a, b>>) = <<b>>
           /\ <<a>> \o <<b>> = <<a, b>>
           /\ <<a>> = <<b>> => a = b
  <1> DEFINE S == {a, b}
  <1>1. <<a>> \in Seq(S) /\ <<b>> \in Seq(S) /\ <<a, b>> \in Seq(S) /\ << >> \in Seq(S)
    BY SMT
  <1>2. /\ Len(<<a>>) = 1 /\ <<a>>[1] = a /\ Len(<<b>>) = 1 /\ <<b>>[1] = b
        /\ Len(<<a, b>>) = 2 /\ <<a, b>>[1] = a /\ <<a, b>>[2] = b /\ Len(<< >>) = 0
    BY SMT
  <1>3. <<a>> # << >> /\ <<a, b>> # << >>
    BY <1>2
  <1>4. Head(<<a>>) = a /\ Head(<<a, b>>) = a
    BY SMT
  <1>5. Tail(<<a>>) = << >>
    <2>1. Tail(<<a>>) \in Seq(S) /\ Len(Tail(<<a>>)) = 0
      BY <1>1, <1>2, <1>3, HeadTailProperties
    <2> QED BY <2>1, <1>1, EmptySeq
  <1>6. Tail(<<a, b>>) = <<b>>
    <2> DEFINE t == Tail(<<a, b>>)
    <2>1. t \in Seq(S) /\ Len(t) = 1 /\ t[1] = b
      <3>1. /\ t \in Seq(S) /\ Len(t) = 2 - 1
            /\ \A n \in 1 .. Len(t) : t[n] = <<a, b>>[n + 1]
        BY <1>1, <1>2, <1>3, HeadTailProperties
      <3> HIDE DEF t
      <3> QED BY <3>1, <1>2
    <2> HIDE DEF t
    <2>2. t = <<b>>
      <3>1. \A n \in 1 .. Len(t) : t[n] = <<b>>[n]
        BY <2>1, <1>2
      <3> QED BY <2>1, <3>1, <1>1, <1>2, SeqEqual
    <2> QED BY <2>2 DEF t
  <1>7. <<a>> \o <<b>> = <<a, b>>
    <2> DEFINE c == <<a>> \o <<b>>
    <2>1. c \in Seq(S) /\ Len(c) = 2 /\ c[1] = a /\ c[2] = b
      <3>1. /\ c \in Seq(S) /\ Len(c) = 1 + 1
            /\ \A n \in 1 .. 1 + 1 : c[n] = IF n <= 1 THEN <<a>>[n] ELSE <<b>>[n - 1]
        BY <1>1, <1>2, ConcatProperties
      <3> HIDE DEF c
      <3> QED BY <3>1, <1>2
    <2> HIDE DEF c
    <2>2. c = <<a, b>>
      <3>1. \A n \in 1 .. Len(c) : c[n] = <<a, b>>[n]
        BY <2>1, <1>2
      <3> QED BY <2>1, <3>1, <1>1, <1>2, SeqEqual
    <2> QED BY <2>2 DEF c
  <1> QED BY <1>2, <1>3, <1>4, <1>5, <1>6, <1>7

LEMMA LastCall ==
    ASSUME NEW a, NEW b, NEW s, Tail(s) = << >>
    PROVE  s # <<a, b>>
  <1>1. Tail(<<a, b>>) = <<b>> /\ <<b>> # << >>
    BY ShortSequences
  <1> QED BY <1>1

LEMMA TypesDiffer ==
    /\ Int32 # TypeType /\ Int32 # NeverType /\ TypeType # NeverType
    /\ FunctionType(Int32) = <<"Function", "Int32">>
    /\ Tail(FunctionType(Int32)) = Int32
    /\ FunctionType(Int32) # Int32
  <1>1. Int32 # TypeType /\ Int32 # NeverType /\ TypeType # NeverType
    BY DEF Int32, TypeType, NeverType
  <1>2. FunctionType(Int32) = <<"Function", "Int32">>
    BY ShortSequences DEF Int32, FunctionType
  <1>3. Tail(<<"Function", "Int32">>) = Int32
    BY ShortSequences DEF Int32
  <1>4. FunctionType(Int32) # Int32
    <2>1. Len(<<"Function", "Int32">>) = 2 /\ Len(<<"Int32">>) = 1
      OBVIOUS
    <2> QED BY <1>2, <2>1 DEF Int32
  <1> QED BY <1>1, <1>2, <1>3, <1>4

LEMMA KindsOfNodes ==
    /\ Kind("item_type") = "FunctionType" /\ Kind("evaluated") = "FunctionType"
    /\ Kind("body") = "Return" /\ Kind("prelude") = "SimpleType"
    /\ Kind("return_expr") = item.return_type.kind
    /\ Kind("value") = item.value.kind
  BY DEF Kind, Literal

LEMMA ChildrenOfNodes ==
    /\ Child("item_type") = "return_expr" /\ Child("body") = "value"
    /\ Child("evaluated") = const_eval["return_expr"]
  BY DEF Child

LEMMA LeastOfOne ==
    ASSUME NEW n \in Nat
    PROVE  Min({n}) = n
  BY SMT DEF Min

(* Below an empty scope or not, the prelude declares Int32 and only that.  *)
LEMMA LookupPrelude ==
    ASSUME scopes = <<Prelude>> \/ scopes = <<Scopes!NoScope, Prelude>>
    PROVE  /\ Scopes!Lookup("Int32") = Int32Decl
           /\ \A n : n # "Int32" => Scopes!Lookup(n) = NULL
  <1>1. DOMAIN Prelude = {"Int32"} /\ Prelude["Int32"] = Int32Decl
    BY DEF Prelude
  <1>2. DOMAIN Scopes!NoScope = {}
    BY DEF Scopes!NoScope
  <1>3. \E k \in {1, 2} :
           /\ scopes[k] = Prelude /\ k \in Nat
           /\ Scopes!Declaring("Int32") = {k}
           /\ \A n : n # "Int32" => Scopes!Declaring(n) = {}
    <2>1. CASE scopes = <<Prelude>>
      <3>1. DOMAIN scopes = {1} /\ scopes[1] = Prelude
        BY <2>1, SMT
      <3> QED BY <3>1, <1>1 DEF Scopes!Declaring
    <2>2. CASE scopes = <<Scopes!NoScope, Prelude>>
      <3> DEFINE empty == Scopes!NoScope
      <3>1. DOMAIN scopes = {1, 2} /\ scopes[1] = empty /\ scopes[2] = Prelude
        <4> HIDE DEF empty
        <4> QED BY <2>2, SMT DEF empty
      <3>2. DOMAIN empty = {}
        BY <1>2
      <3> HIDE DEF empty
      <3> QED BY <3>1, <3>2, <1>1 DEF Scopes!Declaring
    <2> QED BY <2>1, <2>2
  <1>4. PICK k \in {1, 2} :
           /\ scopes[k] = Prelude /\ k \in Nat
           /\ Scopes!Declaring("Int32") = {k}
           /\ \A n : n # "Int32" => Scopes!Declaring(n) = {}
    BY <1>3, Zenon
  <1>5. Scopes!Min({k}) = k
    BY <1>4, SMT DEF Scopes!Min
  <1>6. Scopes!Lookup("Int32") = Int32Decl
    BY <1>1, <1>4, <1>5 DEF Scopes!Lookup
  <1>7. \A n : n # "Int32" => Scopes!Lookup(n) = NULL
    BY <1>4, Zenon DEF Scopes!Lookup
  <1> QED BY <1>6, <1>7

LEMMA WhatInt32Has ==
    ASSUME NEW e
    PROVE  /\ HasType(e, Int32) <=> e.kind = "IntLiteral"
           /\ HasType(e, TypeType) <=> e.kind = "Name" /\ e.name = "Int32"
  BY TypesDiffer DEF HasType

(* Which call runs, and in which part of type_function_item.               *)
Frames ==
    /\ Head(calls).f = "const_eval" =>
          /\ pc = "const_eval" /\ Evaluating
          /\ \/ Top = "item_type" /\ Tail(calls) = << >>
             \/ Top = "return_expr" /\ Tail(calls) = <<Call("const_eval", "item_type")>>
    /\ Head(calls).f = "type_expr" =>
          \/ pc = "type_item_type" /\ TypingItemType
             /\ Top = "evaluated" /\ Tail(calls) = << >>
          \/ pc = "type_body" /\ TypingBody
             /\ \/ Top = "body" /\ Tail(calls) = << >>
                \/ Top = "value" /\ Tail(calls) = <<Call("type_expr", "body")>>
    /\ Head(calls).f = "as_type" =>
          /\ pc = "as_type" /\ Lifting
          /\ \/ Top = "evaluated" /\ Tail(calls) = << >>
             \/ Top = const_eval["return_expr"]
                /\ Tail(calls) = <<Call("as_type", "evaluated")>>

LEMMA CallFields ==
    ASSUME NEW f, NEW n
    PROVE  Call(f, n).f = f /\ Call(f, n).of = n
  BY DEF Call

LEMMA FramesOf ==
    ASSUME CInv, calls # << >>
    PROVE  Frames
  <1>1. ASSUME NEW f, NEW n, calls = <<Call(f, n)>>
        PROVE  Head(calls).f = f /\ Top = n /\ Tail(calls) = << >>
    <2>1. Head(calls) = Call(f, n) /\ Tail(calls) = << >>
      BY <1>1, ShortSequences
    <2> QED BY <2>1, CallFields DEF Top
  <1>2. ASSUME NEW f, NEW n, NEW g, NEW m, calls = <<Call(f, n), Call(g, m)>>
        PROVE  Head(calls).f = f /\ Top = n /\ Tail(calls) = <<Call(g, m)>>
    <2>1. Head(calls) = Call(f, n) /\ Tail(calls) = <<Call(g, m)>>
      BY <1>2, ShortSequences
    <2> QED BY <2>1, CallFields DEF Top
  <1>3. pc \in Passes
    BY DEF CInv, Course
  <1>4. CASE pc = "const_eval"
    <2>1. Evaluating
      BY <1>4 DEF CInv, Course
    <2>2. Head(calls).f = "const_eval"
          /\ \/ Top = "item_type" /\ Tail(calls) = << >>
             \/ Top = "return_expr" /\ Tail(calls) = <<Call("const_eval", "item_type")>>
      BY <1>1, <1>2, <2>1, Zenon DEF Evaluating
    <2> QED BY <1>4, <2>1, <2>2 DEF Frames
  <1>5. CASE pc = "type_item_type"
    <2>1. TypingItemType
      BY <1>5 DEF CInv, Course
    <2>2. Head(calls).f = "type_expr" /\ Top = "evaluated" /\ Tail(calls) = << >>
      BY <1>1, <2>1, Zenon DEF TypingItemType
    <2> QED BY <1>5, <2>1, <2>2 DEF Frames
  <1>6. CASE pc = "as_type"
    <2>1. Lifting
      BY <1>6 DEF CInv, Course
    <2>2. Head(calls).f = "as_type"
          /\ \/ Top = "evaluated" /\ Tail(calls) = << >>
             \/ Top = const_eval["return_expr"]
                /\ Tail(calls) = <<Call("as_type", "evaluated")>>
      BY <1>1, <1>2, <2>1 DEF Lifting
    <2> QED BY <1>6, <2>1, <2>2 DEF Frames
  <1>7. CASE pc = "type_body"
    <2>1. TypingBody
      BY <1>7 DEF CInv, Course
    <2>2. Head(calls).f = "type_expr"
          /\ \/ Top = "body" /\ Tail(calls) = << >>
             \/ Top = "value" /\ Tail(calls) = <<Call("type_expr", "body")>>
      BY <1>1, <1>2, <2>1, Zenon DEF TypingBody
    <2> QED BY <1>7, <2>1, <2>2 DEF Frames
  <1> QED BY <1>3, <1>4, <1>5, <1>6, <1>7 DEF Passes

-----------------------------------------------------------------------------
LEMMA InitCInv == Init => CInv
  <1> SUFFICES ASSUME Init PROVE CInv
    OBVIOUS
  <1>1. Answers
    BY TypesDiffer, NullAssumption DEF Init, Prepared, Answers, Nodes
  <1>2. Evaluating
    BY DEF Init, Prepared, Evaluating, Prelude, Success
  <1>3. Course
    BY <1>2, ItemsAssumption DEF Init, Course, Passes, CompileSteps
  <1> QED BY <1>1, <1>3 DEF CInv

LEMMA AnswersKept ==
    ASSUME CInv, UNCHANGED <<item, fields>>
    PROVE  Answers'
  BY DEF CInv, Answers, fields, NamesInt32, HasType

(* A longjmp to the end of type_check, with what is wrong.                 *)
LEMMA ExitRefused ==
    ASSUME CInv, NEW r, Exit(r), Refused'
    PROVE  CInv'
  <1>1. Answers'
    BY AnswersKept DEF Exit
  <1>2. Course'
    BY DEF Exit, CInv, Course, Passes, CompileSteps
  <1> QED BY <1>1, <1>2 DEF CInv

LEMMA UndeclaredStep == CInv /\ Undeclared => CInv'
  <1> SUFFICES ASSUME CInv, Undeclared PROVE CInv'
    OBVIOUS
  <1> DEFINE e == Literal(Top)
             r == UndeclaredName(e.name)
  <1>1. /\ calls # << >> /\ Kind(Top) = "Name"
        /\ Head(calls).f \in {"const_eval", "type_expr"}
        /\ Scopes!Lookup(e.name) = NULL /\ Exit(r)
    BY DEF Undeclared, Running, Top
  <1>2. Frames
    BY <1>1, FramesOf
  <1>3. scopes = <<Prelude>> \/ scopes = <<Scopes!NoScope, Prelude>>
    BY <1>1, <1>2 DEF Frames, Evaluating, TypingItemType, TypingBody
  <1>4. e.name # "Int32"
    BY <1>1, <1>3, LookupPrelude, NullAssumption
  <1>5. result'.kind = "UndeclaredName" /\ result'.name = e.name
    BY <1>1 DEF Exit, UndeclaredName
  <1>6. item' = item
    BY <1>1 DEF Exit
  <1>7. \/ e = item.return_type
        \/ e = item.value /\ NamesInt32
    BY <1>1, <1>2, KindsOfNodes DEF Frames, TypingBody, Literal
  <1>8. e.kind = "Name"
    BY <1>1, <1>2, KindsOfNodes DEF Frames, Literal
  <1> HIDE DEF e
  <1>9. Refused'
    BY <1>4, <1>5, <1>6, <1>7, <1>8 DEF Refused, NamesInt32
  <1> QED BY <1>1, <1>9, ExitRefused

-----------------------------------------------------------------------------
(* The pass a step stays in, or goes to.                                   *)
LEMMA StaysEvaluating ==
    ASSUME CInv, item' = item, pc' = "const_eval", Evaluating'
    PROVE  Course'
  BY DEF CInv, Course, Passes, CompileSteps

LEMMA GoesTypingItemType ==
    ASSUME CInv, item' = item, pc' = "type_item_type", TypingItemType'
    PROVE  Course'
  BY DEF CInv, Course, Passes, CompileSteps

LEMMA GoesLifting ==
    ASSUME CInv, item' = item, pc' = "as_type", Lifting'
    PROVE  Course'
  BY DEF CInv, Course, Passes, CompileSteps

LEMMA GoesTypingBody ==
    ASSUME CInv, item' = item, pc' = "type_body", TypingBody'
    PROVE  Course'
  BY DEF CInv, Course, Passes, CompileSteps

(* What const_eval finds is what the return type is.                       *)
LEMMA EvalToAnswers ==
    ASSUME CInv, NEW n \in Nodes, NEW e \in Nodes, EvalTo(n, e),
           n = "return_expr" => \/ e = "prelude" /\ NamesInt32
                                \/ e = "return_expr" /\ item.return_type.kind = "IntLiteral"
    PROVE  /\ Answers' /\ const_eval'[n] = e
           /\ \A m \in Nodes \ {n} : const_eval'[m] = const_eval[m]
  <1>1. /\ const_eval' = [const_eval EXCEPT ![n] = e]
        /\ UNCHANGED <<item, type, as_type>>
    BY DEF EvalTo, Checking
  <1>2. const_eval \in [Nodes -> Nodes \cup {NULL}]
    BY DEF CInv, Answers
  <1>3. const_eval' \in [Nodes -> Nodes \cup {NULL}]
    BY <1>1, <1>2
  <1>4. const_eval'[n] = e /\ \A m \in Nodes \ {n} : const_eval'[m] = const_eval[m]
    BY <1>1, <1>2
  <1>5. NamesInt32' = NamesInt32
    BY <1>1 DEF NamesInt32
  <1>6. /\ const_eval'["return_expr"] \in {NULL, "prelude", "return_expr"}
        /\ const_eval'["return_expr"] = "prelude" => NamesInt32
        /\ const_eval'["return_expr"] = "return_expr" => item.return_type.kind = "IntLiteral"
    BY <1>4 DEF CInv, Answers, Nodes
  <1>7. Answers'
    BY <1>1, <1>3, <1>5, <1>6 DEF CInv, Answers, HasType
  <1> QED BY <1>4, <1>7

LEMMA EvalValueStep == CInv /\ EvalValue => CInv'
  <1> SUFFICES ASSUME CInv, EvalValue PROVE CInv'
    OBVIOUS
  <1>1. /\ calls # << >> /\ Head(calls).f = "const_eval"
        /\ Kind(Top) = "IntLiteral" /\ EvalTo(Top, Top)
    BY DEF EvalValue, Running, Top
  <1>2. /\ pc = "const_eval" /\ Evaluating /\ Top = "return_expr"
        /\ Tail(calls) = <<Call("const_eval", "item_type")>>
    BY <1>1, FramesOf, KindsOfNodes DEF Frames
  <1>3. item.return_type.kind = "IntLiteral"
    BY <1>1, <1>2, KindsOfNodes
  <1>4. Answers'
    BY <1>1, <1>2, <1>3, EvalToAnswers DEF Nodes
  <1>5. Evaluating' /\ item' = item /\ pc' = "const_eval"
    BY <1>1, <1>2 DEF Evaluating, EvalTo, Checking, context
  <1> QED BY <1>4, <1>5, StaysEvaluating DEF CInv

LEMMA EvalNameStep == CInv /\ EvalName => CInv'
  <1> SUFFICES ASSUME CInv, EvalName PROVE CInv'
    OBVIOUS
  <1> DEFINE decl == Scopes!Lookup(Literal(Top).name)
  <1>1. /\ calls # << >> /\ Head(calls).f = "const_eval"
        /\ Kind(Top) = "Name" /\ decl # NULL /\ EvalTo(Top, decl.value)
    BY DEF EvalName, Running, Top, Declared
  <1>2. /\ pc = "const_eval" /\ Evaluating /\ Top = "return_expr"
        /\ Tail(calls) = <<Call("const_eval", "item_type")>>
    BY <1>1, FramesOf, KindsOfNodes DEF Frames
  <1>3. Literal(Top) = item.return_type /\ item.return_type.kind = "Name"
    BY <1>1, <1>2, KindsOfNodes DEF Literal
  <1>4. decl = Int32Decl /\ item.return_type.name = "Int32"
    BY <1>1, <1>2, <1>3, LookupPrelude DEF Evaluating
  <1>5. EvalTo("return_expr", "prelude") /\ NamesInt32
    BY <1>1, <1>2, <1>3, <1>4 DEF Int32Decl, NamesInt32
  <1>6. Answers'
    BY <1>5, EvalToAnswers DEF Nodes
  <1>7. Evaluating' /\ item' = item /\ pc' = "const_eval"
    BY <1>2, <1>5 DEF Evaluating, EvalTo, Checking, context
  <1> QED BY <1>6, <1>7, StaysEvaluating DEF CInv

LEMMA EvalFunctionTypeStep == CInv /\ EvalFunctionType => CInv'
  <1> SUFFICES ASSUME CInv, EvalFunctionType PROVE CInv'
    OBVIOUS
  <1>1. /\ calls # << >> /\ Head(calls).f = "const_eval" /\ Kind(Top) = "FunctionType"
    BY DEF EvalFunctionType, Running, Top
  <1>2. pc = "const_eval" /\ Evaluating /\ Frames
    BY <1>1, FramesOf DEF Frames
  <1>3. item.return_type.kind \in {"Name", "IntLiteral"}
    BY DEF CInv, Course, IsSimple
  <1>4. Top = "item_type" /\ calls = <<Call("const_eval", "item_type")>>
        /\ Tail(calls) = << >> /\ Child(Top) = "return_expr"
    <2>1. Top = "item_type" /\ Tail(calls) = << >>
      BY <1>1, <1>2, <1>3, KindsOfNodes DEF Frames
    <2>2. calls = <<Call("const_eval", "item_type")>>
      <3>1. calls # <<Call("const_eval", "return_expr"), Call("const_eval", "item_type")>>
        BY <2>1, LastCall
      <3> QED BY <1>1, <1>2, <3>1 DEF Evaluating
    <2> QED BY <2>1, <2>2, ChildrenOfNodes
  <1>5. CASE const_eval["return_expr"] = NULL
    <2>1. calls' = <<Call("const_eval", "return_expr")>> \o calls
          /\ UNCHANGED fields /\ Checking
      BY <1>4, <1>5 DEF EvalFunctionType, Enter
    <2>2. calls' = <<Call("const_eval", "return_expr"), Call("const_eval", "item_type")>>
      BY <1>4, <2>1, ShortSequences
    <2>3. Evaluating' /\ item' = item /\ pc' = "const_eval"
      BY <1>2, <2>1, <2>2 DEF Evaluating, Checking, context
    <2> QED BY <2>1, <2>3, AnswersKept, StaysEvaluating DEF CInv, Checking
  <1>6. CASE const_eval["return_expr"] # NULL
    <2>1. EvalTo("item_type", "evaluated") /\ calls' = << >>
      BY <1>4, <1>6 DEF EvalFunctionType, EvalTo
    <2>2. Answers' /\ const_eval'["item_type"] = "evaluated"
          /\ const_eval'["return_expr"] # NULL
      BY <1>6, <2>1, EvalToAnswers DEF Nodes
    <2>3. Evaluating' /\ item' = item /\ pc' = "const_eval"
      BY <1>2, <2>1, <2>2 DEF Evaluating, EvalTo, Checking, context
    <2> QED BY <2>2, <2>3, StaysEvaluating DEF CInv
  <1> QED BY <1>5, <1>6

-----------------------------------------------------------------------------
(* What type_expr finds is the type of the value.                          *)
LEMMA TypeAsAnswers ==
    ASSUME CInv, NEW n \in Nodes, NEW t \in {Int32, TypeType, NeverType}, TypeAs(n, t),
           n = "value" => HasType(item.value, t),
           n = "body" => HasType(item.value, Int32)
    PROVE  /\ Answers' /\ type'[n] = t
           /\ \A m \in Nodes \ {n} : type'[m] = type[m]
  <1>1. /\ type' = [type EXCEPT ![n] = t]
        /\ UNCHANGED <<item, const_eval, as_type>>
    BY DEF TypeAs, Checking
  <1>2. type \in [Nodes -> {NULL, Int32, TypeType, NeverType}]
    BY DEF CInv, Answers
  <1>3. type' \in [Nodes -> {NULL, Int32, TypeType, NeverType}]
    BY <1>1, <1>2
  <1>4. type'[n] = t /\ \A m \in Nodes \ {n} : type'[m] = type[m]
    BY <1>1, <1>2
  <1>5. NamesInt32' = NamesInt32
    BY <1>1 DEF NamesInt32
  <1>6. \A u : HasType(item.value, u)' <=> HasType(item.value, u)
    BY <1>1 DEF HasType
  <1>7. /\ type'["value"] # NULL => HasType(item.value, type'["value"])
        /\ type'["body"] # NULL => HasType(item.value, Int32)
    BY <1>4 DEF CInv, Answers, Nodes
  <1>8. Answers'
    BY <1>1, <1>3, <1>5, <1>7 DEF CInv, Answers, HasType
  <1> QED BY <1>4, <1>8

LEMMA TypeLiteralStep == CInv /\ TypeLiteral => CInv'
  <1> SUFFICES ASSUME CInv, TypeLiteral PROVE CInv'
    OBVIOUS
  <1>1. /\ calls # << >> /\ Head(calls).f = "type_expr"
        /\ Kind(Top) = "IntLiteral" /\ TypeAs(Top, Int32)
    BY DEF TypeLiteral, Running, Top
  <1>2. /\ pc = "type_body" /\ TypingBody /\ Top = "value"
        /\ Tail(calls) = <<Call("type_expr", "body")>>
    BY <1>1, FramesOf, KindsOfNodes DEF Frames
  <1>3. HasType(item.value, Int32)
    BY <1>1, <1>2, KindsOfNodes, WhatInt32Has
  <1>4. Answers'
    BY <1>1, <1>2, <1>3, TypeAsAnswers DEF Nodes
  <1>5. TypingBody' /\ item' = item /\ pc' = "type_body"
    BY <1>1, <1>2 DEF TypingBody, TypeAs, Checking, context, NamesInt32
  <1> QED BY <1>4, <1>5, GoesTypingBody DEF CInv

LEMMA TypeNameStep == CInv /\ TypeName => CInv'
  <1> SUFFICES ASSUME CInv, TypeName PROVE CInv'
    OBVIOUS
  <1> DEFINE decl == Scopes!Lookup(Literal(Top).name)
  <1>1. /\ calls # << >> /\ Head(calls).f = "type_expr"
        /\ Kind(Top) = "Name" /\ decl # NULL /\ TypeAs(Top, decl.type)
    BY DEF TypeName, Running, Top, Declared
  <1>2. /\ pc = "type_body" /\ TypingBody /\ Top = "value"
        /\ Tail(calls) = <<Call("type_expr", "body")>>
    BY <1>1, FramesOf, KindsOfNodes DEF Frames
  <1>3. Literal(Top) = item.value /\ item.value.kind = "Name"
    BY <1>1, <1>2, KindsOfNodes DEF Literal
  <1>4. decl = Int32Decl /\ item.value.name = "Int32"
    BY <1>1, <1>2, <1>3, LookupPrelude DEF TypingBody
  <1>5. TypeAs("value", TypeType) /\ HasType(item.value, TypeType)
    BY <1>1, <1>2, <1>3, <1>4, WhatInt32Has DEF Int32Decl
  <1>6. Answers'
    BY <1>5, TypeAsAnswers DEF Nodes
  <1>7. TypingBody' /\ item' = item /\ pc' = "type_body"
    BY <1>2, <1>5 DEF TypingBody, TypeAs, Checking, context, NamesInt32
  <1> QED BY <1>6, <1>7, GoesTypingBody DEF CInv

LEMMA TypeFunctionTypeStep == CInv /\ TypeFunctionType => CInv'
  <1> SUFFICES ASSUME CInv, TypeFunctionType PROVE CInv'
    OBVIOUS
  <1>1. /\ calls # << >> /\ Head(calls).f = "type_expr"
        /\ Kind(Top) = "FunctionType" /\ TypeAs(Top, TypeType)
    BY DEF TypeFunctionType, Running, Top
  <1>2. item.value.kind \in {"Name", "IntLiteral"}
    BY DEF CInv, Course, IsSimple
  <1>3. /\ pc = "type_item_type" /\ TypingItemType /\ Top = "evaluated"
        /\ Tail(calls) = << >>
    BY <1>1, <1>2, FramesOf, KindsOfNodes DEF Frames
  <1>4. Answers' /\ type'["evaluated"] = TypeType
    BY <1>1, <1>3, TypeAsAnswers DEF Nodes
  <1>5. TypingItemType' /\ item' = item /\ pc' = "type_item_type"
    BY <1>1, <1>3, <1>4 DEF TypingItemType, TypeAs, Checking, context, Evaluated
  <1> QED BY <1>4, <1>5, GoesTypingItemType DEF CInv

LEMMA TypeReturnStep == CInv /\ TypeReturn => CInv'
  <1> SUFFICES ASSUME CInv, TypeReturn PROVE CInv'
    OBVIOUS
  <1>1. calls # << >> /\ Head(calls).f = "type_expr" /\ Kind(Top) = "Return"
    BY DEF TypeReturn, Running, Top
  <1>2. item.value.kind \in {"Name", "IntLiteral"}
    BY DEF CInv, Course, IsSimple
  <1>3. /\ pc = "type_body" /\ TypingBody /\ Top = "body" /\ Tail(calls) = << >>
        /\ Child(Top) = "value"
    BY <1>1, <1>2, FramesOf, KindsOfNodes, ChildrenOfNodes DEF Frames
  <1>4. calls = <<Call("type_expr", "body")>>
    <2>1. calls # <<Call("type_expr", "value"), Call("type_expr", "body")>>
      BY <1>3, LastCall
    <2> QED BY <1>1, <1>3, <2>1 DEF TypingBody
  <1>5. CASE type["value"] = NULL
    <2>1. calls' = <<Call("type_expr", "value")>> \o calls
          /\ UNCHANGED fields /\ Checking
      BY <1>3, <1>5 DEF TypeReturn, Enter
    <2>2. calls' = <<Call("type_expr", "value"), Call("type_expr", "body")>>
      BY <1>4, <2>1, ShortSequences
    <2>3. TypingBody' /\ item' = item /\ pc' = "type_body"
      BY <1>3, <2>1, <2>2 DEF TypingBody, Checking, context, NamesInt32
    <2> QED BY <2>1, <2>3, AnswersKept, GoesTypingBody DEF CInv, Checking
  <1>6. CASE type["value"] # NULL /\ Int32 = type["value"]
    <2>1. TypeAs("body", NeverType) /\ calls' = << >>
      BY <1>3, <1>6 DEF TypeReturn, TypeAs, Type_equal, TypingBody
    <2>2. HasType(item.value, Int32)
      BY <1>6 DEF CInv, Answers
    <2>3. Answers' /\ type'["body"] # NULL
      BY <2>1, <2>2, TypeAsAnswers, NullAssumption DEF Nodes
    <2>4. TypingBody' /\ item' = item /\ pc' = "type_body"
      BY <1>3, <2>1, <2>3 DEF TypingBody, TypeAs, Checking, context, NamesInt32
    <2> QED BY <2>3, <2>4, GoesTypingBody DEF CInv
  <1>7. CASE type["value"] # NULL /\ Int32 # type["value"]
    <2> DEFINE r == ExpectedType(type["value"], Int32)
    <2>1. Exit(r)
      BY <1>3, <1>7 DEF TypeReturn, Type_equal, TypingBody
    <2>2. r.kind = "ExpectedType" /\ r.actual = type["value"] /\ r.expected = Int32
      BY DEF ExpectedType
    <2>3. HasType(item.value, type["value"])
      BY <1>7 DEF CInv, Answers
    <2>4. NamesInt32 /\ item' = item /\ result' = r
      BY <1>3, <2>1 DEF TypingBody, Exit
    <2> HIDE DEF r
    <2>5. Refused'
      BY <1>7, <2>2, <2>3, <2>4 DEF Refused, NamesInt32, HasType
    <2> QED BY <2>1, <2>5, ExitRefused
  <1> QED BY <1>5, <1>6, <1>7

-----------------------------------------------------------------------------
(* What as_type finds is the type that the return type names.              *)
LEMMA LiftToAnswers ==
    ASSUME CInv, NEW n, NEW t, LiftTo(n, t),
           \/ n = "prelude" /\ t = Int32
           \/ n = "evaluated" /\ t = FunctionType(Int32) /\ NamesInt32
    PROVE  /\ Answers' /\ as_type'[n] = t
  <1>1. /\ as_type' = [as_type EXCEPT ![n] = t]
        /\ UNCHANGED <<item, const_eval, type>>
    BY DEF LiftTo, Checking
  <1>2. as_type \in [Nodes -> {NULL, Int32, FunctionType(Int32)}] /\ n \in Nodes
    BY DEF CInv, Answers, Nodes
  <1>3. as_type' \in [Nodes -> {NULL, Int32, FunctionType(Int32)}]
    BY <1>1, <1>2
  <1>4. as_type'[n] = t /\ \A m \in Nodes \ {n} : as_type'[m] = as_type[m]
    BY <1>1, <1>2
  <1>5. NamesInt32' = NamesInt32
    BY <1>1 DEF NamesInt32
  <1>6. /\ as_type'["return_expr"] = NULL
        /\ as_type'["prelude"] \in {NULL, Int32}
        /\ as_type'["evaluated"] # NULL =>
              as_type'["evaluated"] = FunctionType(Int32) /\ NamesInt32
    BY <1>4 DEF CInv, Answers, Nodes
  <1>7. Answers'
    BY <1>1, <1>3, <1>5, <1>6 DEF CInv, Answers, HasType
  <1> QED BY <1>4, <1>7

LEMMA LiftSimpleTypeStep == CInv /\ LiftSimpleType => CInv'
  <1> SUFFICES ASSUME CInv, LiftSimpleType PROVE CInv'
    OBVIOUS
  <1>1. /\ calls # << >> /\ Head(calls).f = "as_type"
        /\ Kind(Top) = "SimpleType" /\ LiftTo(Top, Int32)
    BY DEF LiftSimpleType, Running, Top
  <1>2. item.return_type.kind \in {"Name", "IntLiteral"}
    BY DEF CInv, Course, IsSimple
  <1>3. /\ pc = "as_type" /\ Lifting /\ Top = const_eval["return_expr"]
        /\ Tail(calls) = <<Call("as_type", "evaluated")>>
    BY <1>1, FramesOf, KindsOfNodes DEF Frames
  <1>4. Top = "prelude"
    BY <1>1, <1>2, <1>3, KindsOfNodes DEF CInv, Answers, Lifting, Evaluated
  <1>5. Answers'
    BY <1>1, <1>4, LiftToAnswers
  <1>6. Lifting' /\ item' = item /\ pc' = "as_type"
    BY <1>1, <1>3 DEF Lifting, LiftTo, Checking, context, Evaluated
  <1> QED BY <1>5, <1>6, GoesLifting DEF CInv

LEMMA LiftFunctionTypeStep == CInv /\ LiftFunctionType => CInv'
  <1> SUFFICES ASSUME CInv, LiftFunctionType PROVE CInv'
    OBVIOUS
  <1>1. calls # << >> /\ Head(calls).f = "as_type" /\ Kind(Top) = "FunctionType"
    BY DEF LiftFunctionType, Running, Top
  <1>2. item.return_type.kind \in {"Name", "IntLiteral"}
    BY DEF CInv, Course, IsSimple
  <1>3. pc = "as_type" /\ Lifting /\ Frames
    BY <1>1, FramesOf DEF Frames
  <1>4. /\ Top = "evaluated" /\ Tail(calls) = << >>
        /\ Child(Top) = const_eval["return_expr"]
    <2>1. ~(Top = const_eval["return_expr"])
      BY <1>1, <1>2, <1>3, KindsOfNodes DEF CInv, Answers, Lifting, Evaluated
    <2> QED BY <1>1, <1>3, <2>1, ChildrenOfNodes DEF Frames
  <1>5. calls = <<Call("as_type", "evaluated")>>
    <2>1. calls # <<Call("as_type", const_eval["return_expr"]), Call("as_type", "evaluated")>>
      BY <1>4, LastCall
    <2> QED BY <1>1, <1>3, <2>1 DEF Lifting
  <1> DEFINE child == const_eval["return_expr"]
  <1>6. CASE as_type[child] = NULL
    <2>1. calls' = <<Call("as_type", child)>> \o calls
          /\ UNCHANGED fields /\ Checking
      BY <1>4, <1>6 DEF LiftFunctionType, Enter
    <2>2. calls' = <<Call("as_type", child), Call("as_type", "evaluated")>>
      BY <1>5, <2>1, ShortSequences
    <2>3. Lifting' /\ item' = item /\ pc' = "as_type"
      BY <1>3, <2>1, <2>2 DEF Lifting, Checking, context, fields, Evaluated
    <2> QED BY <2>1, <2>3, AnswersKept, GoesLifting DEF CInv, Checking
  <1>7. CASE as_type[child] # NULL
    <2>1. child = "prelude" /\ as_type[child] = Int32 /\ NamesInt32
      BY <1>3, <1>7 DEF CInv, Answers, Lifting, Evaluated
    <2>2. LiftTo("evaluated", FunctionType(Int32)) /\ calls' = << >>
      BY <1>4, <1>7, <2>1 DEF LiftFunctionType, LiftTo
    <2>3. Answers' /\ as_type'["evaluated"] # NULL
      BY <2>1, <2>2, LiftToAnswers, NullAssumption
    <2>4. Lifting' /\ item' = item /\ pc' = "as_type"
      BY <1>3, <2>2, <2>3 DEF Lifting, LiftTo, Checking, context, Evaluated
    <2> QED BY <2>3, <2>4, GoesLifting DEF CInv
  <1> QED BY <1>6, <1>7

LEMMA LiftNothingStep == CInv /\ LiftNothing => CInv'
  <1> SUFFICES ASSUME CInv, LiftNothing PROVE CInv'
    OBVIOUS
  <1>1. Answers'
    BY AnswersKept DEF LiftNothing
  <1>2. Course'
    BY DEF LiftNothing, CInv, Course, Passes, CompileSteps
  <1> QED BY <1>1, <1>2 DEF CInv

-----------------------------------------------------------------------------
LEMMA ItemSteps ==
    CInv /\ (TypeItemType \/ LiftItemType \/ TypeBody) => CInv'
  <1> SUFFICES ASSUME CInv, TypeItemType \/ LiftItemType \/ TypeBody PROVE CInv'
    OBVIOUS
  <1>1. CASE TypeItemType
    <2>1. Evaluating /\ calls = << >>
      BY <1>1 DEF TypeItemType, Idle, CInv, Course
    <2>2. Evaluated
      BY <2>1 DEF Evaluating, Evaluated
    <2>3. /\ GoTo("type_item_type", Call("type_expr", "evaluated"))
          /\ UNCHANGED context
      BY <1>1, <2>2 DEF TypeItemType, Evaluated
    <2>4. Answers'
      BY <2>3, AnswersKept DEF GoTo
    <2>5. TypingItemType' /\ item' = item /\ pc' = "type_item_type"
      BY <2>1, <2>2, <2>3 DEF TypingItemType, GoTo, Evaluated, Evaluating, context, fields
    <2> QED BY <2>4, <2>5, GoesTypingItemType DEF CInv
  <1>2. CASE LiftItemType
    <2>1. TypingItemType /\ calls = << >>
      BY <1>2 DEF LiftItemType, Idle, CInv, Course
    <2>2. Evaluated /\ type["evaluated"] = TypeType
      BY <2>1 DEF TypingItemType
    <2>3. /\ GoTo("as_type", Call("as_type", "evaluated"))
          /\ UNCHANGED context
      BY <1>2, <2>2 DEF LiftItemType, Evaluated, Type_equal
    <2>4. Answers'
      BY <2>3, AnswersKept DEF GoTo
    <2>5. Lifting' /\ item' = item /\ pc' = "as_type"
      BY <2>1, <2>2, <2>3 DEF Lifting, TypingItemType, GoTo, Evaluated, context, fields
    <2> QED BY <2>4, <2>5, GoesLifting DEF CInv
  <1>3. CASE TypeBody
    <2>1. Lifting /\ calls = << >>
      BY <1>3 DEF TypeBody, Idle, CInv, Course
    <2>2. Evaluated /\ as_type["evaluated"] # NULL
      BY <2>1 DEF Lifting
    <2>3. as_type["evaluated"] = FunctionType(Int32) /\ NamesInt32
      BY <2>2 DEF CInv, Answers
    <2>4. /\ scopes' = <<Scopes!NoScope>> \o scopes
          /\ return_type' = Int32
          /\ GoTo("type_body", Call("type_expr", "body"))
      BY <1>3, <2>2, <2>3, TypesDiffer DEF TypeBody, Evaluated
    <2>5. scopes' = <<Scopes!NoScope, Prelude>>
      <3>1. scopes = <<Prelude>>
        BY <2>1 DEF Lifting
      <3> QED BY <2>4, <3>1, ShortSequences
    <2>6. Answers'
      BY <2>4, AnswersKept DEF GoTo
    <2>7. TypingBody' /\ item' = item /\ pc' = "type_body"
      BY <2>1, <2>3, <2>4, <2>5 DEF TypingBody, Lifting, GoTo, NamesInt32
    <2> QED BY <2>6, <2>7, GoesTypingBody DEF CInv
  <1> QED BY <1>1, <1>2, <1>3

LEMMA LeaveItemStep == CInv /\ LeaveItem => CInv'
  <1> SUFFICES ASSUME CInv, LeaveItem PROVE CInv'
    OBVIOUS
  <1>1. TypingBody /\ calls = << >> /\ pc' = "destroy"
        /\ UNCHANGED <<item, calls, fields, result>>
    BY DEF LeaveItem, Idle, CInv, Course
  <1>2. Accepted
    BY <1>1 DEF TypingBody, Accepted, CInv, Answers
  <1>3. Accepted'
    BY <1>1, <1>2 DEF Accepted, NamesInt32, HasType
  <1>4. Answers'
    BY <1>1, AnswersKept
  <1> QED BY <1>1, <1>3, <1>4 DEF CInv, Course, Passes, CompileSteps

LEMMA VerdictKept ==
    ASSUME UNCHANGED <<item, result>>
    PROVE  (Accepted => Accepted') /\ (Refused => Refused')
  BY DEF Accepted, Refused, NamesInt32, HasType

LEMMA DestroyScopesStep == CInv /\ DestroyScopes => CInv'
  <1> SUFFICES ASSUME CInv, DestroyScopes PROVE CInv'
    OBVIOUS
  <1>1. /\ pc = "destroy" /\ UNCHANGED <<item, calls, fields, result>>
        /\ pc' = IF result.kind = "Success" THEN "checked" ELSE "reported"
    BY DEF DestroyScopes
  <1>2. Accepted \/ Refused
    BY <1>1 DEF CInv, Course
  <1>3. Answers'
    BY <1>1, AnswersKept
  <1>4. CASE Accepted
    <2>1. pc' = "checked" /\ Accepted'
      BY <1>1, <1>4, VerdictKept DEF Accepted, Success
    <2> QED BY <1>1, <1>3, <2>1 DEF CInv, Course, Passes, CompileSteps
  <1>5. CASE Refused
    <2>1. pc' = "reported" /\ Refused'
      BY <1>1, <1>5, VerdictKept DEF Refused
    <2> QED BY <1>1, <1>3, <2>1 DEF CInv, Course, Passes, CompileSteps
  <1> QED BY <1>2, <1>4, <1>5

LEMMA CompilerSteps ==
    CInv /\ (CompileValue \/ CompileReturn \/ DumpPush \/ DumpOther \/ DumpEnd) => CInv'
  <1> SUFFICES ASSUME CInv, CompileValue \/ CompileReturn \/ DumpPush \/ DumpOther \/ DumpEnd
               PROVE  CInv'
    OBVIOUS
  <1>1. pc \in CompileSteps /\ UNCHANGED <<item, calls, fields, result>>
    BY DEF CompileValue, CompileReturn, DumpPush, DumpOther, DumpEnd, Dumping,
           CompileSteps, Compiling
  <1>2. Accepted /\ Accepted'
    BY <1>1, VerdictKept DEF CInv, Course
  <1>3. pc' \in CompileSteps
    <2>1. Kind("value") = "IntLiteral"
      BY <1>2, WhatInt32Has, KindsOfNodes DEF Accepted
    <2> QED BY <1>1, <2>1 DEF CompileValue, CompileReturn, DumpPush, DumpOther, DumpEnd,
               CompileSteps
  <1>4. Answers'
    BY <1>1, AnswersKept
  <1> QED BY <1>1, <1>2, <1>3, <1>4 DEF CInv, Course, Passes, CompileSteps

LEMMA AlwaysCInv == Spec => []CInv
  <1>1. CInv /\ [Next]_vars => CInv'
    <2> SUFFICES ASSUME CInv, [Next]_vars PROVE CInv'
      OBVIOUS
    <2>1. CASE UNCHANGED vars
      <3>1. UNCHANGED <<item, pc, calls, fields, scopes, return_type, result>>
        BY <2>1 DEF vars, context
      <3>2. Answers'
        BY <3>1, AnswersKept
      <3>3. Course'
        BY <3>1, VerdictKept DEF CInv, Course, fields, Evaluating, TypingItemType, Lifting,
           TypingBody, Evaluated, NamesInt32
      <3> QED BY <3>2, <3>3 DEF CInv
    <2> QED BY <2>1, UndeclaredStep, EvalValueStep, EvalNameStep, EvalFunctionTypeStep,
               TypeLiteralStep, TypeFunctionTypeStep, TypeNameStep, TypeReturnStep,
               LiftSimpleTypeStep, LiftFunctionTypeStep, LiftNothingStep,
               ItemSteps, LeaveItemStep, DestroyScopesStep, CompilerSteps DEF Next
  <1> QED BY InitCInv, <1>1, PTL DEF Spec

-----------------------------------------------------------------------------
LEMMA TypedBySpec == CInv => AcceptsBySpec
  <1> SUFFICES ASSUME CInv PROVE AcceptsBySpec
    OBVIOUS
  <1>1. ASSUME Accepted PROVE WellTyped(item)
    <2>1. HasType(item.return_type, TypeType) /\ Denotes(item.return_type, Int32)
          /\ HasType(item.value, Int32)
      BY <1>1, WhatInt32Has DEF Accepted, NamesInt32, Denotes
    <2> QED BY <2>1 DEF WellTyped
  <1>2. ASSUME Refused, WellTyped(item) PROVE FALSE
    <2>1. HasType(item.return_type, TypeType) /\ HasType(item.value, Int32)
      BY <1>2 DEF WellTyped, Denotes
    <2>2. NamesInt32 /\ item.value.kind = "IntLiteral"
      BY <2>1, WhatInt32Has DEF NamesInt32
    <2>3. \A t : HasType(item.value, t) => t = Int32
      BY <2>2 DEF HasType
    <2> QED BY <1>2, <2>2, <2>3 DEF Refused
  <1> QED BY <1>1, <1>2 DEF CInv, Course, CompileSteps, AcceptsBySpec

LEMMA ReportedIsWrong == CInv => ErrorsTrue
  <1> SUFFICES ASSUME CInv, pc = "reported"
               PROVE  \/ /\ result.kind = "UndeclaredName"
                         /\ LET e == IF HasType(item.return_type, TypeType)
                                     THEN item.value ELSE item.return_type
                            IN e.kind = "Name" /\ e.name = result.name
                               /\ ~HasType(e, TypeType)
                      \/ /\ result.kind = "ExpectedType"
                         /\ HasType(item.value, result.actual)
                         /\ Denotes(item.return_type, result.expected)
                         /\ result.actual # result.expected
    BY DEF ErrorsTrue
  <1>1. Refused
    BY DEF CInv, Course
  <1>2. HasType(item.return_type, TypeType) <=> NamesInt32
    BY WhatInt32Has DEF NamesInt32
  <1>3. CASE result.kind = "UndeclaredName"
    <2> DEFINE e == IF NamesInt32 THEN item.value ELSE item.return_type
    <2>1. e.kind = "Name" /\ e.name # "Int32" /\ result.name = e.name
      BY <1>1, <1>3 DEF Refused
    <2>2. ~HasType(e, TypeType)
      BY <2>1, WhatInt32Has
    <2> QED BY <1>2, <1>3, <2>1, <2>2
  <1>4. CASE result.kind = "ExpectedType"
    BY <1>1, <1>4 DEF Refused, NamesInt32, Denotes
  <1> QED BY <1>1, <1>3, <1>4 DEF Refused

LEMMA LiteralsCompiled == CInv => CompilesWhatTypeChecks
  BY DEF CInv, Course, Passes, CompileSteps, CompilesWhatTypeChecks

(* Under the scope of the prelude, type checking accepts only items that   *)
(* the rules of spec/type-checking.md derive, and reports only those that  *)
(* they do not, whatever names and literals the items are made of.         *)
THEOREM TypesBySpec == Spec => []AcceptsBySpec
  BY TypedBySpec, AlwaysCInv, PTL

(* What type_check reports is there, and is the first thing wrong with the *)
(* item.                                                                   *)
THEOREM ReportsWhatIsWrong == Spec => []ErrorsTrue
  BY ReportedIsWrong, AlwaysCInv, PTL

(* The assertions of compile_expr never fail: only literals reach it.      *)
THEOREM OnlyLiteralsCompiled == Spec => []CompilesWhatTypeChecks
  BY LiteralsCompiled, AlwaysCInv, PTL

-----------------------------------------------------------------------------
(* Which fields a pass fills in, as far as the dump shows them.            *)
Filled ==
    /\ type["item_type"] = NULL /\ const_eval["value"] = NULL
    /\ type["body"] \in {NULL, NeverType}
    /\ type["body"] # NULL => type["value"] # NULL
    /\ pc \in {"type_item_type", "as_type", "type_body"} \cup CompileSteps =>
          const_eval["return_expr"] # NULL
    /\ (pc = "destroy" /\ result = Success) =>
          const_eval["return_expr"] # NULL /\ type["body"] # NULL
    /\ pc \in CompileSteps => type["body"] # NULL

LEMMA EvalFills ==
    ASSUME CInv, Filled, pc = "const_eval", calls # << >>, NEW e, EvalTo(Top, e),
           Top \in {"item_type", "return_expr"}
    PROVE  Filled'
  <1>1. /\ const_eval' = [const_eval EXCEPT ![Top] = e] /\ UNCHANGED <<type, pc>>
    BY DEF EvalTo, Checking
  <1>2. const_eval \in [Nodes -> Nodes \cup {NULL}]
    BY DEF CInv, Answers
  <1>3. const_eval'["value"] = const_eval["value"]
    BY <1>1, <1>2 DEF Nodes
  <1> QED BY <1>1, <1>3 DEF Filled, CompileSteps

LEMMA TypeFills ==
    ASSUME CInv, Filled, pc \in {"type_item_type", "type_body"}, NEW n, NEW t, TypeAs(n, t),
           \/ n \in {"evaluated", "value"} /\ t # NULL
           \/ n = "body" /\ t = NeverType /\ type["value"] # NULL
    PROVE  Filled'
  <1>1. /\ type' = [type EXCEPT ![n] = t] /\ UNCHANGED <<const_eval, pc, result>>
    BY DEF TypeAs, Checking
  <1>2. type \in [Nodes -> {NULL, Int32, TypeType, NeverType}]
    BY DEF CInv, Answers
  <1>3. n \in Nodes /\ type'[n] = t /\ \A m \in Nodes \ {n} : type'[m] = type[m]
    BY <1>1, <1>2 DEF Nodes
  <1>4. /\ type'["item_type"] = type["item_type"]
        /\ type'["body"] = type["body"] \/ (n = "body" /\ type'["body"] = NeverType)
        /\ type["value"] # NULL => type'["value"] # NULL
    BY <1>3 DEF Nodes
  <1> QED BY <1>1, <1>4 DEF Filled, CompileSteps

LEMMA FilledSame ==
    ASSUME Filled, UNCHANGED <<fields, pc, result>>
    PROVE  Filled'
  BY DEF Filled, fields

LEMMA ExitFills ==
    ASSUME Filled, NEW r, Exit(r), r.kind # "Success"
    PROVE  Filled'
  BY DEF Filled, Exit, fields, Success, CompileSteps

LEMMA FilledKept ==
    ASSUME CInv, Filled, Next
    PROVE  Filled'
  <1>1. CASE Undeclared
    <2>1. PICK n : Exit(UndeclaredName(n))
      BY <1>1 DEF Undeclared
    <2>2. UndeclaredName(n).kind # "Success"
      BY DEF UndeclaredName
    <2> QED BY <2>1, <2>2, ExitFills
  <1>2. CASE EvalValue \/ EvalName \/ EvalFunctionType
    <2>1. calls # << >> /\ Head(calls).f = "const_eval"
      BY <1>2 DEF EvalValue, EvalName, EvalFunctionType, Running
    <2>2. pc = "const_eval" /\ Top \in {"item_type", "return_expr"}
      BY <2>1, FramesOf DEF Frames
    <2>3. CASE \E e : EvalTo(Top, e)
      BY <2>1, <2>2, <2>3, EvalFills
    <2>4. CASE UNCHANGED fields /\ Checking
      BY <2>4, FilledSame DEF Checking
    <2> QED BY <1>2, <2>3, <2>4 DEF EvalValue, EvalName, EvalFunctionType, Enter
  <1>3. CASE TypeLiteral \/ TypeName
    <2>1. calls # << >> /\ Head(calls).f = "type_expr" /\ Kind(Top) \in {"IntLiteral", "Name"}
      BY <1>3 DEF TypeLiteral, TypeName, Running, Top
    <2>2. pc = "type_body" /\ Top = "value" /\ TypingBody
      BY <2>1, FramesOf, KindsOfNodes DEF Frames
    <2>3. CASE TypeLiteral
      <3>1. TypeAs("value", Int32)
        BY <2>2, <2>3 DEF TypeLiteral
      <3> QED BY <2>2, <3>1, TypeFills, NullAssumption
    <2>4. CASE TypeName
      <3> DEFINE decl == Scopes!Lookup(Literal(Top).name)
      <3>1. TypeAs("value", decl.type) /\ decl # NULL
        BY <2>2, <2>4 DEF TypeName, Declared
      <3>2. decl = Int32Decl
        BY <2>2, <3>1, LookupPrelude DEF TypingBody
      <3>3. TypeAs("value", TypeType)
        BY <3>1, <3>2 DEF Int32Decl
      <3> QED BY <2>2, <3>3, TypeFills, NullAssumption
    <2> QED BY <1>3, <2>3, <2>4
  <1>4. CASE TypeFunctionType
    <2>1. calls # << >> /\ Head(calls).f = "type_expr" /\ Kind(Top) = "FunctionType"
      BY <1>4 DEF TypeFunctionType, Running, Top
    <2>2. item.value.kind \in {"Name", "IntLiteral"}
      BY DEF CInv, Course, IsSimple
    <2>3. pc = "type_item_type" /\ Top = "evaluated"
      BY <2>1, <2>2, FramesOf, KindsOfNodes DEF Frames
    <2>4. TypeAs("evaluated", TypeType)
      BY <1>4, <2>3 DEF TypeFunctionType
    <2> QED BY <2>3, <2>4, TypeFills, NullAssumption
  <1>5. CASE TypeReturn
    <2>1. calls # << >> /\ Head(calls).f = "type_expr" /\ Kind(Top) = "Return"
      BY <1>5 DEF TypeReturn, Running, Top
    <2>2. item.value.kind \in {"Name", "IntLiteral"}
      BY DEF CInv, Course, IsSimple
    <2>3. pc = "type_body" /\ Top = "body" /\ Child(Top) = "value"
      BY <2>1, <2>2, FramesOf, KindsOfNodes, ChildrenOfNodes DEF Frames
    <2>4. CASE type["value"] = NULL
      <3>1. UNCHANGED fields /\ Checking
        BY <1>5, <2>3, <2>4 DEF TypeReturn, Enter
      <3> QED BY <3>1, FilledSame DEF Checking
    <2>5. CASE type["value"] # NULL /\ TypeAs("body", NeverType)
      BY <2>3, <2>5, TypeFills
    <2>6. CASE \E a, b : Exit(ExpectedType(a, b))
      <3>1. PICK a, b : Exit(ExpectedType(a, b))
        BY <2>6
      <3>2. ExpectedType(a, b).kind # "Success"
        BY DEF ExpectedType
      <3> QED BY <3>1, <3>2, ExitFills
    <2> QED BY <1>5, <2>3, <2>4, <2>5, <2>6 DEF TypeReturn
  <1>6. CASE LiftSimpleType \/ LiftFunctionType
    <2>1. UNCHANGED <<type, const_eval, pc, result>>
      BY <1>6 DEF LiftSimpleType, LiftFunctionType, LiftTo, Enter, fields, Checking
    <2> QED BY <2>1 DEF Filled
  <1>7. CASE LiftNothing
    BY <1>7 DEF LiftNothing, Filled, fields, CompileSteps
  <1>8. CASE TypeItemType
    <2>1. pc = "const_eval" /\ calls = << >> /\ pc' = "type_item_type"
              /\ UNCHANGED <<fields, result>>
      BY <1>8 DEF TypeItemType, Idle, GoTo
    <2>2. const_eval["return_expr"] # NULL
      BY <2>1 DEF CInv, Course, Evaluating
    <2> QED BY <2>1, <2>2 DEF Filled, fields, CompileSteps
  <1>9. CASE LiftItemType
    <2>1. pc = "type_item_type" /\ calls = << >>
      BY <1>9 DEF LiftItemType, Idle
    <2>2. type[const_eval["item_type"]] = TypeType
      BY <2>1 DEF CInv, Course, TypingItemType, Evaluated
    <2>3. pc' = "as_type" /\ UNCHANGED <<fields, result>>
      BY <1>9, <2>2 DEF LiftItemType, Type_equal, GoTo
    <2> QED BY <2>1, <2>3 DEF Filled, fields, CompileSteps
  <1>10. CASE TypeBody
    <2>1. pc = "as_type" /\ pc' = "type_body" /\ UNCHANGED <<fields, result>>
      BY <1>10 DEF TypeBody, Idle, GoTo
    <2> QED BY <2>1 DEF Filled, fields, CompileSteps
  <1>11. CASE LeaveItem
    <2>1. pc = "type_body" /\ calls = << >> /\ pc' = "destroy" /\ UNCHANGED <<fields, result>>
      BY <1>11 DEF LeaveItem, Idle
    <2>2. type["body"] # NULL
      BY <2>1 DEF CInv, Course, TypingBody
    <2> QED BY <2>1, <2>2 DEF Filled, fields, CompileSteps
  <1>12. CASE DestroyScopes
    <2>1. /\ pc = "destroy" /\ UNCHANGED <<fields, result>>
          /\ pc' = IF result.kind = "Success" THEN "checked" ELSE "reported"
      BY <1>12 DEF DestroyScopes
    <2>2. result.kind = "Success" => result = Success
      BY <2>1 DEF CInv, Course, Accepted, Refused
    <2> QED BY <2>1, <2>2 DEF Filled, fields, CompileSteps
  <1>13. CASE CompileValue \/ CompileReturn \/ DumpPush \/ DumpOther \/ DumpEnd
    <2>1. pc \in CompileSteps /\ UNCHANGED <<fields, result>>
      BY <1>13 DEF CompileValue, CompileReturn, DumpPush, DumpOther, DumpEnd, Dumping,
             CompileSteps, Compiling
    <2>2. pc' # "destroy"
      BY <1>13 DEF CompileValue, CompileReturn, DumpPush, DumpOther, DumpEnd, Dumping
    <2> QED BY <2>1, <2>2 DEF Filled, fields
  <1> QED BY <1>1, <1>2, <1>3, <1>4, <1>5, <1>6, <1>7, <1>8, <1>9, <1>10, <1>11, <1>12, <1>13
          DEF Next

-----------------------------------------------------------------------------
(* The commands: where they are, what has been done until there.           *)
CheckSteps == Passes \cup CompileSteps \cup {"destroy", "reported", "crash"}
Unevaluated == /\ type = [n \in Nodes |-> NULL]
               /\ const_eval = [n \in Nodes |-> NULL]

FInv ==
    /\ pc \in {"parse", "syntax_reported", "dump_item", "item_dumped"} \cup CheckSteps
    /\ pc = "parse" => Prepared
    /\ pc \notin CheckSteps => calls = << >>
    /\ pc \notin {"parse", "syntax_reported"} =>
          parse_pc = "done" /\ parse_result.kind = "Success" /\ item = ParsedItem
    /\ pc \in CheckSteps => CInv /\ Filled
    /\ pc \in {"dump_item", "item_dumped"} =>
          IF command = "parse" THEN Unevaluated
          ELSE /\ Answers /\ Filled /\ Accepted /\ type["body"] # NULL
               /\ const_eval["return_expr"] # NULL
    /\ pc = "item_dumped" => printed = FunctionItem

LEMMA ParsedItemSimple ==
    ASSUME PInv, parse_pc = "done", parse_result.kind = "Success"
    PROVE  IsSimple(ParsedItem.return_type) /\ IsSimple(ParsedItem.value)
  <1>1. Finished
    BY DEF PInv, Recovering, Reporting, Placed, Sound
  <1>2. PICK N \in Deepest, M \in Deepest :
           /\ Len(tokens) = 12 + 2 * N + 2 * M /\ Follows(Len(tokens), N, M)
           /\ parse_result = [kind |-> "Success", item |-> ItemNode(N, M)]
    BY <1>1 DEF Finished
  <1>3. IsTokenList(tokens) /\ N \in Nat /\ M \in Nat
    BY <1>1, FrontendAssumption DEF Finished, Deepest
  <1>4. PICK n \in Nat, q \in Nat, r \in Nat :
           /\ n = 12 + 2 * N + 2 * M /\ q = 6 + N /\ r = 9 + 2 * N + M
           /\ q \in 1 .. n /\ r \in 1 .. n /\ q >= 1 /\ r >= 1
    BY <1>3
  <1>5. tokens[q].kind \in LeafKinds /\ tokens[r].kind \in LeafKinds
    <2>1. KindsAt(N, M, q) = LeafKinds /\ KindsAt(N, M, r) = LeafKinds
      BY <1>3, <1>4, KindsAtIs
    <2> QED BY <1>2, <1>4, <2>1 DEF Follows
  <1>6. IsToken(tokens[q]) /\ IsToken(tokens[r])
    BY <1>2, <1>3, <1>4, TokenListIs
  <1>7. \A t : t.kind \in LeafKinds /\ IsToken(t) => IsSimple(LeafExpr(t))
    BY DEF LeafKinds, IsToken, LeafExpr, IsSimple
  <1>8. ParsedItem.return_type = LeafExpr(tokens[q]) /\ ParsedItem.value = LeafExpr(tokens[r])
    BY <1>2, <1>4 DEF ParsedItem, ItemNode, TypeNode, BodyNode
  <1> QED BY <1>5, <1>6, <1>7, <1>8

LEMMA PreparedStarts ==
    ASSUME Prepared, calls = <<Call("const_eval", "item_type")>>, pc = "const_eval",
           IsSimple(item.return_type), IsSimple(item.value)
    PROVE  CInv /\ Filled
  <1>1. Answers
    BY TypesDiffer, NullAssumption DEF Prepared, Answers, Nodes
  <1>2. Evaluating
    BY DEF Prepared, Evaluating, Prelude, Success
  <1>3. Course
    BY <1>2 DEF Course, Passes, CompileSteps
  <1>4. Filled
    BY DEF Filled, Prepared, Nodes, CompileSteps
  <1> QED BY <1>1, <1>3, <1>4 DEF CInv

LEMMA NextInCheck ==
    ASSUME Next
    PROVE  pc \in CheckSteps \/ calls # << >>
  BY DEF Next, Undeclared, EvalValue, EvalName, EvalFunctionType, TypeLiteral, TypeFunctionType,
         TypeName, TypeReturn, LiftSimpleType, LiftFunctionType, LiftNothing, TypeItemType,
         LiftItemType, TypeBody, LeaveItem, DestroyScopes, CompileValue, CompileReturn, DumpPush,
         DumpOther, DumpEnd, Dumping, Running, Idle, CheckSteps, Passes, CompileSteps

LEMMA NextKeepsItem ==
    ASSUME Next
    PROVE  item' = item
  <1>1. CASE Undeclared
    BY <1>1 DEF Undeclared, Exit
  <1>2. CASE EvalValue \/ EvalName \/ EvalFunctionType
    BY <1>2 DEF EvalValue, EvalName, EvalFunctionType, EvalTo, Checking
  <1>3. CASE TypeLiteral \/ TypeFunctionType \/ TypeName
    BY <1>3 DEF TypeLiteral, TypeFunctionType, TypeName, TypeAs, Checking
  <1>4. CASE TypeReturn
    BY <1>4 DEF TypeReturn, TypeAs, Checking, Exit
  <1>5. CASE LiftSimpleType \/ LiftFunctionType \/ LiftNothing
    BY <1>5 DEF LiftSimpleType, LiftFunctionType, LiftNothing, LiftTo, Checking
  <1>6. CASE TypeItemType \/ LiftItemType \/ TypeBody
    BY <1>6 DEF TypeItemType, LiftItemType, TypeBody, GoTo, Exit
  <1>7. CASE LeaveItem \/ DestroyScopes
    BY <1>7 DEF LeaveItem, DestroyScopes
  <1>8. CASE CompileValue \/ CompileReturn \/ DumpPush \/ DumpOther \/ DumpEnd
    BY <1>8 DEF CompileValue, CompileReturn, DumpPush, DumpOther, DumpEnd, Compiling
  <1> QED BY <1>1, <1>2, <1>3, <1>4, <1>5, <1>6, <1>7, <1>8 DEF Next

LEMMA CInvStep ==
    ASSUME CInv, Next
    PROVE  CInv'
  BY UndeclaredStep, EvalValueStep, EvalNameStep, EvalFunctionTypeStep,
     TypeLiteralStep, TypeFunctionTypeStep, TypeNameStep, TypeReturnStep,
     LiftSimpleTypeStep, LiftFunctionTypeStep, LiftNothingStep,
     ItemSteps, LeaveItemStep, DestroyScopesStep, CompilerSteps DEF Next

LEMMA NotCheckSteps ==
    /\ "parse" \notin CheckSteps /\ "syntax_reported" \notin CheckSteps
    /\ "dump_item" \notin CheckSteps /\ "item_dumped" \notin CheckSteps
    /\ "const_eval" \in CheckSteps /\ "checked" \in CheckSteps
  BY DEF CheckSteps, Passes, CompileSteps

LEMMA FInvStart == FrontendInit => FInv
  <1> SUFFICES ASSUME FrontendInit PROVE FInv
    OBVIOUS
  <1>1. pc = "parse" /\ calls = << >> /\ Prepared
    BY DEF FrontendInit
  <1> QED BY <1>1, NotCheckSteps DEF FInv

LEMMA FInvParse ==
    ASSUME FInv, PInv, Parse
    PROVE  FInv'
  <1>1. pc = "parse" /\ UNCHANGED vars
    BY DEF Parse
  <1>2. Prepared'
    BY <1>1 DEF FInv, vars, fields, context, output, Prepared
  <1>3. pc' = "parse" /\ calls' = << >>
    BY <1>1, NotCheckSteps DEF FInv, vars
  <1> QED BY <1>2, <1>3, NotCheckSteps DEF FInv

LEMMA FInvParsed ==
    ASSUME FInv, PInv, DumpParsed \/ StartCheck \/ ReportParse
    PROVE  FInv'
  <1>1. pc = "parse" /\ Prepared /\ parse_pc = "done" /\ calls = << >>
    BY NotCheckSteps DEF FInv, DumpParsed, StartCheck, ReportParse, Parsed
  <1>2. CASE DumpParsed
    <2>1. /\ parse_result.kind = "Success" /\ command = "parse" /\ item' = ParsedItem
          /\ pc' = "dump_item" /\ UNCHANGED <<command, syntax, calls, fields>>
      BY <1>2 DEF DumpParsed, Parsed
    <2>2. ParsedItem' = ParsedItem /\ parse_result' = parse_result /\ parse_pc' = parse_pc
      BY <2>1 DEF ParsedItem, syntax
    <2>3. Unevaluated'
      BY <1>1, <2>1 DEF Unevaluated, Prepared, fields
    <2> QED BY <1>1, <2>1, <2>2, <2>3, NotCheckSteps DEF FInv
  <1>3. CASE StartCheck
    <2>1. /\ parse_result.kind = "Success" /\ item' = ParsedItem
          /\ pc' = "const_eval" /\ calls' = <<Call("const_eval", "item_type")>>
          /\ UNCHANGED <<command, syntax, fields, context, result, output>>
      BY <1>3 DEF StartCheck, Parsed
    <2>2. ParsedItem' = ParsedItem /\ parse_result' = parse_result /\ parse_pc' = parse_pc
      BY <2>1 DEF ParsedItem, syntax
    <2>3. Prepared'
      BY <1>1, <2>1 DEF Prepared, fields, context, output
    <2>4. IsSimple(item'.return_type) /\ IsSimple(item'.value)
      BY <1>1, <2>1, ParsedItemSimple
    <2>5. CInv' /\ Filled'
      <3>1. Answers'
        BY <2>3, TypesDiffer, NullAssumption DEF Prepared, Answers, Nodes
      <3>2. Evaluating'
        BY <2>1, <2>3 DEF Prepared, Evaluating, Prelude, Success, Call
      <3>3. Course'
        BY <2>1, <2>4, <3>2 DEF Course, Passes, CompileSteps, IsSimple
      <3>4. Filled'
        BY <2>1, <2>3 DEF Filled, Prepared, Nodes, CompileSteps
      <3> QED BY <3>1, <3>3, <3>4 DEF CInv
    <2>6. /\ pc' \in CheckSteps /\ parse_pc' = "done" /\ parse_result'.kind = "Success"
          /\ item' = ParsedItem'
      BY <1>1, <2>1, <2>2, NotCheckSteps
    <2> QED BY <2>1, <2>5, <2>6, NotCheckSteps DEF FInv
  <1>4. CASE ReportParse
    <2>1. pc' = "syntax_reported" /\ calls' = << >>
      BY <1>1, <1>4 DEF ReportParse
    <2> QED BY <2>1, NotCheckSteps DEF FInv
  <1> QED BY <1>2, <1>3, <1>4

LEMMA FInvCheck ==
    ASSUME FInv, Check
    PROVE  FInv'
  <1>1. Next /\ UNCHANGED <<command, syntax>>
    BY DEF Check
  <1>2. pc \in CheckSteps
    BY <1>1, NextInCheck DEF FInv
  <1>3. /\ CInv /\ Filled /\ parse_pc = "done" /\ parse_result.kind = "Success"
        /\ item = ParsedItem
    BY <1>2, NotCheckSteps DEF FInv
  <1>4. CInv' /\ Filled'
    BY <1>1, <1>3, CInvStep, FilledKept
  <1>5. pc' \in CheckSteps
    BY <1>4 DEF CInv, Course, CheckSteps
  <1>6. ParsedItem' = ParsedItem /\ parse_result' = parse_result /\ parse_pc' = parse_pc
    BY <1>1 DEF ParsedItem, syntax
  <1>7. item' = ParsedItem'
    BY <1>1, <1>3, <1>6, NextKeepsItem
  <1>8. pc' \notin {"parse", "syntax_reported", "dump_item", "item_dumped"}
    BY <1>5, NotCheckSteps
  <1> QED BY <1>3, <1>4, <1>5, <1>6, <1>7, <1>8 DEF FInv

LEMMA FInvDump ==
    ASSUME FInv, DumpChecked \/ DumpItem
    PROVE  FInv'
  <1>1. CASE DumpChecked
    <2>1. /\ pc = "checked" /\ command = "check" /\ pc' = "dump_item"
          /\ UNCHANGED <<command, syntax, item, calls, fields, context, result, output>>
      BY <1>1 DEF DumpChecked
    <2>2. /\ CInv /\ Filled /\ parse_pc = "done" /\ parse_result.kind = "Success"
          /\ item = ParsedItem
      BY <2>1, NotCheckSteps DEF FInv
    <2>3. Accepted /\ calls = << >> /\ type["body"] # NULL /\ const_eval["return_expr"] # NULL
      BY <2>1, <2>2 DEF CInv, Course, CompileSteps, Passes, Filled
    <2>4. Answers' /\ Accepted'
      BY <2>1, <2>2, <2>3, AnswersKept, VerdictKept
    <2>5. Filled' /\ type'["body"] # NULL /\ const_eval'["return_expr"] # NULL
      BY <2>1, <2>2, <2>3 DEF Filled, fields, CompileSteps
    <2>6. /\ item' = ParsedItem' /\ parse_result' = parse_result /\ parse_pc' = parse_pc
      BY <2>1, <2>2 DEF ParsedItem, syntax
    <2>7. calls' = << >> /\ command' # "parse"
      BY <2>1, <2>3
    <2> QED BY <2>1, <2>2, <2>4, <2>5, <2>6, <2>7, NotCheckSteps DEF FInv
  <1>2. CASE DumpItem
    <2>1. /\ pc = "dump_item" /\ pc' = "item_dumped" /\ printed' = FunctionItem
          /\ UNCHANGED <<command, syntax, item, calls, fields, result>>
      BY <1>2 DEF DumpItem
    <2>2. /\ parse_pc = "done" /\ parse_result.kind = "Success" /\ item = ParsedItem
          /\ calls = << >>
          /\ IF command = "parse" THEN Unevaluated
             ELSE /\ Answers /\ Filled /\ Accepted /\ type["body"] # NULL
                  /\ const_eval["return_expr"] # NULL
      BY <2>1, NotCheckSteps DEF FInv
    <2>3. FunctionItem' = FunctionItem
      BY <2>1 DEF FunctionItem, FunctionTypeExpr, ReturnExpr, Field, TypeLine, TypeText, ExprText,
                  Shown, Child, Kind, Literal, fields
    <2>4. IF command' = "parse" THEN Unevaluated'
          ELSE /\ Answers' /\ Filled' /\ Accepted' /\ type'["body"] # NULL
               /\ const_eval'["return_expr"] # NULL
      <3>1. CASE command = "parse"
        BY <2>1, <2>2, <3>1 DEF Unevaluated, fields
      <3>2. CASE command # "parse"
        <4>1. Accepted'
          BY <2>1, <2>2, <3>2, VerdictKept
        <4>2. Answers'
          BY <2>1, <2>2, <3>2 DEF Answers, fields, NamesInt32, HasType
        <4>3. Filled' /\ type'["body"] # NULL /\ const_eval'["return_expr"] # NULL
          BY <2>1, <2>2, <3>2 DEF Filled, fields, CompileSteps
        <4> QED BY <2>1, <3>2, <4>1, <4>2, <4>3
      <3> QED BY <3>1, <3>2
    <2>5. /\ item' = ParsedItem' /\ parse_result' = parse_result /\ parse_pc' = parse_pc
      BY <2>1, <2>2 DEF ParsedItem, syntax
    <2>6. printed' = FunctionItem'
      BY <2>1, <2>3
    <2> QED BY <2>1, <2>2, <2>4, <2>5, <2>6, NotCheckSteps DEF FInv
  <1> QED BY <1>1, <1>2

LEMMA FInvSame ==
    ASSUME FInv, UNCHANGED all_vars
    PROVE  FInv'
  <1>1. UNCHANGED <<command, item, pc, calls, type, const_eval, as_type, scopes, return_type,
                    result, code, at, printed, parse_pc, parse_result>>
    BY DEF all_vars, syntax, vars, fields, context, output
  <1>2. Prepared' = Prepared /\ ParsedItem' = ParsedItem /\ Unevaluated' = Unevaluated
    BY <1>1 DEF Prepared, ParsedItem, Unevaluated
  <1>3. NamesInt32' = NamesInt32 /\ \A t : HasType(item.value, t)' = HasType(item.value, t)
    BY <1>1 DEF NamesInt32, HasType
  <1>4. Answers' = Answers
    BY <1>1 DEF Answers, NamesInt32, HasType
  <1>5. Filled' = Filled
    BY <1>1 DEF Filled
  <1>6. Accepted' = Accepted /\ Refused' = Refused
    BY <1>1 DEF Accepted, Refused, NamesInt32, HasType
  <1>7. Course' = Course
    BY <1>1, <1>6 DEF Course, Evaluating, TypingItemType, Lifting, TypingBody, Evaluated,
                      NamesInt32, Call
  <1>8. FunctionItem' = FunctionItem
    BY <1>1 DEF FunctionItem, FunctionTypeExpr, ReturnExpr, Field, TypeLine, TypeText, ExprText,
                Shown, Child, Kind, Literal
  <1> QED BY <1>1, <1>2, <1>4, <1>5, <1>6, <1>7, <1>8 DEF FInv, CInv

LEMMA FInvHolds == FrontendSpec => [](PInv /\ FInv)
  <1>1. PInv /\ FInv /\ [FrontendNext]_all_vars => FInv'
    <2> SUFFICES ASSUME PInv, FInv, [FrontendNext]_all_vars PROVE FInv'
      OBVIOUS
    <2> QED BY FInvParse, FInvParsed, FInvCheck, FInvDump, FInvSame DEF FrontendNext
  <1>2. FrontendSpec => []PInv
    BY PInvHolds
  <1> QED BY FInvStart, <1>1, <1>2, PTL DEF FrontendSpec

-----------------------------------------------------------------------------
(* The states in which a pass has run satisfy its invariant.               *)
LEMMA ChecksAsAlone ==
    FInv => AcceptsBySpec /\ ErrorsTrue /\ CompilesWhatTypeChecks
  <1> SUFFICES ASSUME FInv PROVE AcceptsBySpec /\ ErrorsTrue /\ CompilesWhatTypeChecks
    OBVIOUS
  <1>1. CASE pc \in CheckSteps
    <2>1. CInv
      BY <1>1 DEF FInv
    <2> QED BY <2>1, TypedBySpec, ReportedIsWrong, LiteralsCompiled
  <1>2. CASE pc \notin CheckSteps
    <2>1. pc \notin {"checked", "reported", "abort"}
      BY <1>2 DEF FInv, CheckSteps, CompileSteps
    <2> QED BY <2>1 DEF AcceptsBySpec, ErrorsTrue, CompilesWhatTypeChecks
  <1> QED BY <1>1, <1>2

(* What type_check accepts and refuses of the items that parse makes of a  *)
(* file, and what it reports, is as the rules of spec/type-checking.md     *)
(* say; do_compile meets no assertion of compile_expr.                     *)
THEOREM ChecksWhatIsParsed ==
    FrontendSpec => [](AcceptsBySpec /\ ErrorsTrue /\ CompilesWhatTypeChecks)
  BY ChecksAsAlone, FInvHolds, PTL

-----------------------------------------------------------------------------
(* Functions defined by recursion on the numbers.                          *)
IsRecursion(f, n, V, a, g) ==
    f \in [0 .. n -> V] /\ f[0] = a /\ \A k \in 1 .. n : f[k] = g[k][f[k - 1]]

LEMMA RecursionTo ==
    ASSUME NEW n \in Nat, NEW V, NEW a \in V, NEW g \in [Nat -> [V -> V]]
    PROVE  \E f : IsRecursion(f, n, V, a, g)
  <1> DEFINE T == {m \in 0 .. n : \E f : IsRecursion(f, m, V, a, g)}
  <1>1. 0 \in T
    <2>1. IsRecursion([k \in 0 .. 0 |-> a], 0, V, a, g)
      BY DEF IsRecursion
    <2> QED BY <2>1
  <1>2. ASSUME NEW m \in 0 + 1 .. n, m - 1 \in T PROVE m \in T
    <2>1. PICK f : IsRecursion(f, m - 1, V, a, g)
      BY <1>2
    <2> DEFINE h == [k \in 0 .. m |-> IF k = m THEN g[m][f[m - 1]] ELSE f[k]]
    <2>2. /\ f \in [0 .. m - 1 -> V] /\ f[0] = a
          /\ \A k \in 1 .. m - 1 : f[k] = g[k][f[k - 1]]
      BY <2>1 DEF IsRecursion
    <2>3. g[m][f[m - 1]] \in V
      <3>1. f[m - 1] \in V /\ g[m] \in [V -> V]
        BY <2>2
      <3> QED BY <3>1
    <2>4. h \in [0 .. m -> V]
      BY <2>2, <2>3
    <2>5. h[m] = g[m][f[m - 1]] /\ \A k \in 0 .. m - 1 : h[k] = f[k]
      OBVIOUS
    <2> HIDE DEF h
    <2>6. h[0] = a
      BY <2>2, <2>5
    <2>7. \A k \in 1 .. m : h[k] = g[k][h[k - 1]]
      <3> TAKE k \in 1 .. m
      <3>1. CASE k = m
        <4>1. h[m - 1] = f[m - 1]
          BY <2>5
        <4> QED BY <2>5, <3>1, <4>1
      <3>2. CASE k # m
        <4>1. k \in 1 .. m - 1 /\ k \in 0 .. m - 1 /\ k - 1 \in 0 .. m - 1
          BY <3>2
        <4> QED BY <2>2, <2>5, <4>1
      <3> QED BY <3>1, <3>2
    <2>8. IsRecursion(h, m, V, a, g)
      BY <2>4, <2>6, <2>7 DEF IsRecursion
    <2> QED BY <2>8
  <1>3. \A m \in 0 .. n : m \in T
    <2> HIDE DEF T
    <2> QED BY <1>1, <1>2, UpTo
  <1> QED BY <1>3

LEMMA RecursionsAgree ==
    ASSUME NEW n \in Nat, NEW m \in Nat, NEW V, NEW a, NEW g, NEW f, NEW h,
           IsRecursion(f, n, V, a, g), IsRecursion(h, m, V, a, g), n <= m
    PROVE  f[n] = h[n]
  <1> DEFINE T == {k \in 0 .. n : f[k] = h[k]}
  <1>1. 0 \in T
    BY DEF IsRecursion
  <1>2. ASSUME NEW k \in 0 + 1 .. n, k - 1 \in T PROVE k \in T
    <2>1. k \in 1 .. n /\ k \in 1 .. m /\ f[k - 1] = h[k - 1]
      BY <1>2
    <2> QED BY <2>1 DEF IsRecursion
  <1> HIDE DEF T
  <1>3. \A k \in 0 .. n : k \in T
    BY <1>1, <1>2, UpTo
  <1> QED BY <1>3 DEF T

GoesOn(f, V, a, g) ==
    f \in [Nat -> V] /\ f[0] = a /\ \A k \in Nat : f[k + 1] = g[k + 1][f[k]]

LEMMA RecursionOnNat ==
    ASSUME NEW V, NEW a \in V, NEW g \in [Nat -> [V -> V]]
    PROVE  \E f : GoesOn(f, V, a, g)
  <1> DEFINE to(n) == CHOOSE f : IsRecursion(f, n, V, a, g)
             f == [n \in Nat |-> to(n)[n]]
  <1>1. \A n \in Nat : IsRecursion(to(n), n, V, a, g)
    BY RecursionTo
  <1> HIDE DEF to
  <1>2. \A n \in Nat : to(n)[n] \in V
    <2> TAKE n \in Nat
    <2>1. to(n) \in [0 .. n -> V] /\ n \in 0 .. n
      BY <1>1 DEF IsRecursion
    <2> QED BY <2>1
  <1>3. f \in [Nat -> V] /\ \A n \in Nat : f[n] = to(n)[n]
    BY <1>2
  <1>4. f[0] = a
    BY <1>1, <1>3 DEF IsRecursion
  <1>5. \A k \in Nat : f[k + 1] = g[k + 1][f[k]]
    <2> TAKE k \in Nat
    <2>1. PICK m \in Nat : m = k + 1
      OBVIOUS
    <2>2. m \in 1 .. m /\ m - 1 = k /\ k <= m
      BY <2>1
    <2>3. to(m)[m] = g[m][to(m)[k]]
      BY <1>1, <2>2 DEF IsRecursion
    <2>4. to(k)[k] = to(m)[k]
      BY <1>1, <2>2, RecursionsAgree
    <2> QED BY <1>3, <2>1, <2>3, <2>4
  <1>6. GoesOn(f, V, a, g)
    <2> HIDE DEF f
    <2> QED BY <1>3, <1>4, <1>5 DEF GoesOn
  <1> QED BY <1>6

LEMMA PowerIs ==
    ASSUME NEW b \in Nat
    PROVE  /\ Power(b) \in [Nat -> Nat] /\ Power(b)[0] = 1
           /\ \A n \in Nat : Power(b)[n + 1] = b * Power(b)[n]
  <1> DEFINE Rec(p) == p = [n \in Nat |-> IF n = 0 THEN 1 ELSE b * p[n - 1]]
             g == [k \in Nat |-> [x \in Nat |-> b * x]]
  <1>1. g \in [Nat -> [Nat -> Nat]]
    OBVIOUS
  <1> HIDE DEF g
  <1>p. PICK one \in Nat : one = 1
    OBVIOUS
  <1>q. PICK f : GoesOn(f, Nat, one, g)
    BY <1>1, RecursionOnNat
  <1>2. f \in [Nat -> Nat] /\ f[0] = 1 /\ \A k \in Nat : f[k + 1] = g[k + 1][f[k]]
    BY <1>p, <1>q DEF GoesOn
  <1>3. \A k \in Nat : f[k + 1] = b * f[k]
    <2> TAKE k \in Nat
    <2>1. PICK m \in Nat : m = k + 1
      OBVIOUS
    <2>2. \A i \in Nat : \A x \in Nat : g[i][x] = b * x
      BY DEF g
    <2>3. g[m][f[k]] = b * f[k]
      BY <1>2, <2>2
    <2> QED BY <1>2, <2>1, <2>3
  <1>4. \A n \in Nat : f[n] = IF n = 0 THEN 1 ELSE b * f[n - 1]
    <2> TAKE n \in Nat
    <2>1. CASE n = 0
      BY <1>2, <2>1
    <2>2. CASE n # 0
      <3>1. n - 1 \in Nat /\ (n - 1) + 1 = n
        BY <2>2
      <3>2. f[(n - 1) + 1] = b * f[n - 1]
        BY <1>3, <3>1
      <3> QED BY <2>2, <3>1, <3>2
    <2> QED BY <2>1, <2>2
  <1>5. Rec(f)
    <2>1. f = [n \in Nat |-> f[n]]
      BY <1>2
    <2> QED BY <1>4, <2>1
  <1>6. Power(b) = CHOOSE p : Rec(p)
    BY DEF Power
  <1>7. Rec(Power(b))
    <2> HIDE DEF Rec
    <2> QED BY <1>5, <1>6
  <1> DEFINE p == Power(b)
  <1> HIDE DEF p
  <1>8. p = [n \in Nat |-> IF n = 0 THEN 1 ELSE b * p[n - 1]]
    BY <1>7 DEF p
  <1>9. \A n \in Nat : p[n] = IF n = 0 THEN 1 ELSE b * p[n - 1]
    BY <1>8
  <1>10. p[0] = 1 /\ \A n \in Nat : p[n + 1] = b * p[n]
    <2>1. ASSUME NEW n \in Nat PROVE p[n + 1] = b * p[n]
      <3>1. n + 1 \in Nat /\ n + 1 # 0 /\ (n + 1) - 1 = n
        OBVIOUS
      <3> QED BY <1>9, <3>1
    <2> QED BY <1>9, <2>1
  <1>11. \A n \in Nat : p[n] \in Nat
    <2> DEFINE T == {n \in Nat : p[n] \in Nat}
    <2>1. 0 \in T
      BY <1>10
    <2>2. ASSUME NEW n \in Nat, n \in T PROVE n + 1 \in T
      BY <1>10, <2>2
    <2> HIDE DEF T
    <2>3. ASSUME NEW n \in Nat PROVE n \in T
      <3>1. \A k \in 0 + 1 .. n : k - 1 \in T => k \in T
        <4> TAKE k \in 0 + 1 .. n
        <4>1. k - 1 \in Nat /\ (k - 1) + 1 = k
          OBVIOUS
        <4> QED BY <2>2, <4>1
      <3>2. \A k \in 0 .. n : k \in T
        BY <2>1, <3>1, UpTo
      <3> QED BY <3>2
    <2> QED BY <2>3 DEF T
  <1>12. p \in [Nat -> Nat]
    <2>1. p = [n \in Nat |-> p[n]]
      BY <1>8
    <2> QED BY <1>11, <2>1
  <1> QED BY <1>10, <1>12 DEF p

-----------------------------------------------------------------------------
(* What the folds of the community modules are: a function of the subsets  *)
(* of a set that takes one element after the other.                        *)
IsFold(iter, S, W, a, st, pick) ==
    /\ iter \in [SUBSET S -> W] /\ iter[{}] = a
    /\ \A s \in (SUBSET S) \ {{}} : iter[s] = st[pick[s]][iter[s \ {pick[s]}]]

Picks(pick, S) == \A s \in (SUBSET S) \ {{}} : pick[s] \in s

LEMMA SubsetSize ==
    ASSUME NEW S, IsFiniteSet(S), NEW s \in SUBSET S
    PROVE  /\ IsFiniteSet(s) /\ Cardinality(s) \in 0 .. Cardinality(S)
           /\ Cardinality(S) \in Nat
           /\ Cardinality(s) = 0 <=> s = {}
           /\ \A x \in s : Cardinality(s \ {x}) = Cardinality(s) - 1 /\ s \ {x} \in SUBSET S
  <1>1. IsFiniteSet(s) /\ Cardinality(s) <= Cardinality(S)
    BY FS_Subset
  <1>2. Cardinality(s) \in Nat /\ Cardinality(S) \in Nat
    BY <1>1, FS_CardinalityType
  <1>3. \A x \in s : Cardinality(s \ {x}) = Cardinality(s) - 1
    BY <1>1, FS_RemoveElement
  <1>4. Cardinality(s) = 0 <=> s = {}
    BY <1>1, FS_EmptySet
  <1> QED BY <1>1, <1>2, <1>3, <1>4

LEMMA FoldExists ==
    ASSUME NEW S, IsFiniteSet(S), NEW W, NEW a \in W, NEW st \in [S -> [W -> W]],
           NEW pick, Picks(pick, S)
    PROVE  \E iter : IsFold(iter, S, W, a, st, pick)
  <1> DEFINE V == [SUBSET S -> W]
             n == Cardinality(S)
             start == [s \in SUBSET S |-> a]
             next(c, F) == [s \in SUBSET S |->
                               IF s # {} /\ Cardinality(s) = c
                               THEN st[pick[s]][F[s \ {pick[s]}]] ELSE F[s]]
             g == [c \in Nat |-> [F \in V |-> next(c, F)]]
  <1>1. n \in Nat /\ \A s \in SUBSET S : Cardinality(s) \in 0 .. n
    BY SubsetSize
  <1>2. start \in V
    OBVIOUS
  <1>3. \A c \in Nat : \A F \in V : next(c, F) \in V
    <2> SUFFICES ASSUME NEW c \in Nat, NEW F \in V, NEW s \in SUBSET S
                 PROVE  (IF s # {} /\ Cardinality(s) = c
                         THEN st[pick[s]][F[s \ {pick[s]}]] ELSE F[s]) \in W
      OBVIOUS
    <2>1. CASE s # {}
      <3>1. pick[s] \in S /\ s \ {pick[s]} \in SUBSET S
        BY <2>1 DEF Picks
      <3>2. st[pick[s]] \in [W -> W] /\ F[s \ {pick[s]}] \in W
        BY <3>1
      <3> QED BY <3>2
    <2> QED BY <2>1
  <1>4. g \in [Nat -> [V -> V]]
    <2> HIDE DEF next, V
    <2> QED BY <1>3
  <1>5. PICK f : IsRecursion(f, n, V, start, g)
    <2> HIDE DEF n, V, g, start
    <2> QED BY <1>1, <1>2, <1>4, RecursionTo
  <1>6. /\ \A c \in 0 .. n : f[c] \in V
        /\ f[0] = start
        /\ \A c \in 1 .. n : f[c] = next(c, f[c - 1])
    <2>1. /\ f \in [0 .. n -> V] /\ f[0] = start
          /\ \A c \in 1 .. n : f[c] = g[c][f[c - 1]]
      BY <1>5 DEF IsRecursion
    <2> HIDE DEF next, V, n, start
    <2>2. \A c \in 1 .. n : f[c] = next(c, f[c - 1])
      <3> TAKE c \in 1 .. n
      <3>1. c \in Nat /\ c - 1 \in 0 .. n
        BY <1>1
      <3>2. g[c] = [F \in V |-> next(c, F)]
        BY <3>1
      <3> HIDE DEF g
      <3>3. f[c - 1] \in V
        BY <2>1, <3>1
      <3> QED BY <2>1, <3>2, <3>3
    <2> QED BY <2>1, <2>2
  <1>7. \A c \in 1 .. n : \A s \in SUBSET S :
            f[c][s] = IF s # {} /\ Cardinality(s) = c
                      THEN st[pick[s]][f[c - 1][s \ {pick[s]}]] ELSE f[c - 1][s]
    <2> TAKE c \in 1 .. n
    <2> TAKE s \in SUBSET S
    <2>1. \A F : next(c, F)[s] = IF s # {} /\ Cardinality(s) = c
                                THEN st[pick[s]][F[s \ {pick[s]}]] ELSE F[s]
      OBVIOUS
    <2>2. f[c] = next(c, f[c - 1])
      BY <1>6
    <2> HIDE DEF next
    <2> QED BY <2>1, <2>2
  <1> HIDE DEF next, g, n
  <1>8. ASSUME NEW s \in SUBSET S
        PROVE  \A c \in Cardinality(s) .. n : f[c][s] = f[Cardinality(s)][s]
    <2>1. PICK m \in 0 .. n : m = Cardinality(s)
      BY <1>1
    <2> DEFINE T == {c \in m .. n : f[c][s] = f[m][s]}
    <2>2. m \in T
      BY <1>1
    <2>3. ASSUME NEW c \in m + 1 .. n, c - 1 \in T PROVE c \in T
      <3>1. c \in 1 .. n /\ c # Cardinality(s)
        BY <1>1, <2>1
      <3>2. f[c][s] = f[c - 1][s]
        BY <1>7, <3>1
      <3> QED BY <1>1, <2>3, <3>2
    <2>4. m \in Nat
      BY <1>1
    <2> HIDE DEF T
    <2>5. \A c \in m .. n : c \in T
      BY <1>1, <2>2, <2>3, <2>4, UpTo
    <2> QED BY <2>1, <2>5 DEF T
  <1>9. \A s \in SUBSET S : f[n][s] = f[Cardinality(s)][s]
    BY <1>1, <1>8
  <1>10. f[n] \in [SUBSET S -> W]
    <2>1. n \in 0 .. n
      BY <1>1
    <2>2. f[n] \in V
      BY <1>6, <2>1
    <2> QED BY <2>2
  <1>11. f[n][{}] = a
    <2>1. Cardinality({}) = 0 /\ {} \in SUBSET S
      BY FS_EmptySet
    <2> QED BY <1>6, <1>9, <2>1
  <1>12. ASSUME NEW s \in (SUBSET S) \ {{}}
         PROVE  f[n][s] = st[pick[s]][f[n][s \ {pick[s]}]]
    <2>1. pick[s] \in s
      BY <1>12 DEF Picks
    <2>2. /\ Cardinality(s) \in 1 .. n /\ s \ {pick[s]} \in SUBSET S
          /\ Cardinality(s \ {pick[s]}) = Cardinality(s) - 1
      <3>1. /\ Cardinality(s) \in 0 .. n /\ Cardinality(s) # 0
            /\ Cardinality(s \ {pick[s]}) = Cardinality(s) - 1
        <4>1. PICK p \in s : p = pick[s]
          BY <2>1
        <4>2. /\ Cardinality(s) \in 0 .. Cardinality(S) /\ Cardinality(s) # 0
              /\ Cardinality(s \ {p}) = Cardinality(s) - 1
          BY <1>12, SubsetSize
        <4> QED BY <4>1, <4>2 DEF n
      <3> QED BY <1>1, <3>1
    <2>3. f[Cardinality(s)][s] = st[pick[s]][f[Cardinality(s) - 1][s \ {pick[s]}]]
      <3>1. PICK c \in 1 .. n : c = Cardinality(s)
        BY <2>2
      <3>2. f[c][s] = IF s # {} /\ Cardinality(s) = c
                      THEN st[pick[s]][f[c - 1][s \ {pick[s]}]] ELSE f[c - 1][s]
        BY <1>7
      <3>3. s # {} /\ Cardinality(s) = c
        BY <1>12, <3>1
      <3> QED BY <3>1, <3>2, <3>3
    <2>4. f[n][s \ {pick[s]}] = f[Cardinality(s) - 1][s \ {pick[s]}]
      BY <1>9, <2>2
    <2> QED BY <1>9, <2>3, <2>4
  <1> DEFINE it == f[n]
  <1>13. IsFold(it, S, W, a, st, pick)
    <2>1. \A s \in (SUBSET S) \ {{}} : it[s] = st[pick[s]][it[s \ {pick[s]}]]
      BY <1>12
    <2> HIDE DEF it
    <2> QED BY <1>10, <1>11, <2>1 DEF IsFold, it
  <1> QED BY <1>13

-----------------------------------------------------------------------------
Added(D, v) == [x \in D |-> [y \in Nat |-> v[x] + y]]

LEMMA SumIsFold ==
    ASSUME NEW D, IsFiniteSet(D), NEW v \in [D -> Nat]
    PROVE  \E iter, pick : /\ Picks(pick, D)
                           /\ IsFold(iter, D, Nat, 0, Added(D, v), pick)
                           /\ FoldFunction(+, 0, v) = iter[D]
  <1> DEFINE pick == [s \in SUBSET D |-> CHOOSE x \in s : TRUE]
             st == Added(D, v)
             step(s, iter) == v[CHOOSE x \in s : TRUE] + iter[s \ {CHOOSE x \in s : TRUE}]
             Rec(iter) == iter = [s \in SUBSET D |-> IF s = {} THEN 0 ELSE step(s, iter)]
  <1>1. Picks(pick, D)
    BY DEF Picks
  <1>2. st \in [D -> [Nat -> Nat]]
    BY DEF Added
  <1>p. PICK zero \in Nat : zero = 0
    OBVIOUS
  <1>3. PICK iter : IsFold(iter, D, Nat, zero, st, pick)
    <2> HIDE DEF st, pick
    <2> QED BY <1>1, <1>2, FoldExists
  <1>4. \A s \in (SUBSET D) \ {{}} : \A y \in Nat :
            st[pick[s]][y] = v[CHOOSE x \in s : TRUE] + y
    <2> TAKE s \in (SUBSET D) \ {{}}
    <2>1. pick[s] \in D /\ pick[s] = CHOOSE x \in s : TRUE
      BY <1>1 DEF Picks
    <2> HIDE DEF pick
    <2> QED BY <2>1 DEF Added
  <1>5. /\ iter \in [SUBSET D -> Nat] /\ iter[{}] = 0
        /\ \A s \in (SUBSET D) \ {{}} : iter[s] = st[pick[s]][iter[s \ {pick[s]}]]
    BY <1>3, <1>p DEF IsFold
  <1>6. \A s \in SUBSET D : iter[s] = IF s = {} THEN 0 ELSE step(s, iter)
    <2> TAKE s \in SUBSET D
    <2>1. CASE s = {}
      BY <1>5, <2>1
    <2>2. CASE s # {}
      <3>1. pick[s] = CHOOSE x \in s : TRUE
        OBVIOUS
      <3>2. iter[s \ {pick[s]}] \in Nat
        BY <1>5
      <3>3. iter[s] = st[pick[s]][iter[s \ {pick[s]}]]
        BY <1>5, <2>2
      <3> HIDE DEF pick, st
      <3>4. iter[s] = v[CHOOSE x \in s : TRUE] + iter[s \ {pick[s]}]
        BY <1>4, <2>2, <3>2, <3>3
      <3> QED BY <2>2, <3>1, <3>4
    <2> QED BY <2>1, <2>2
  <1>7. Rec(iter)
    <2> HIDE DEF step
    <2>1. iter = [s \in SUBSET D |-> iter[s]]
      BY <1>5
    <2> QED BY <1>6, <2>1
  <1>8. FoldFunction(+, 0, v) = (CHOOSE i : Rec(i))[D]
    BY DEF FoldFunction, FoldFunctionOnSet, MapThenFoldSet
  <1> DEFINE f == CHOOSE i : Rec(i)
  <1>9. Rec(f)
    <2> HIDE DEF Rec
    <2> QED BY <1>7
  <1>10. \A s \in SUBSET D : f[s] = IF s = {} THEN 0 ELSE step(s, f)
    <2> HIDE DEF f, step
    <2> QED BY <1>9
  <1> HIDE DEF f
  <1>11. ASSUME NEW m \in Nat, NEW k \in 0 + 1 .. m,
                \A s \in SUBSET D : Cardinality(s) = k - 1 => f[s] = iter[s]
         PROVE  \A s \in SUBSET D : Cardinality(s) = k => f[s] = iter[s]
    <2> SUFFICES ASSUME NEW s \in SUBSET D, Cardinality(s) = k PROVE f[s] = iter[s]
      OBVIOUS
    <2>1. s # {}
      BY FS_EmptySet
    <2>2. PICK x \in s : x = CHOOSE y \in s : TRUE
      BY <2>1
    <2>3. Cardinality(s \ {x}) = k - 1 /\ s \ {x} \in SUBSET D
      BY SubsetSize
    <2>4. f[s \ {x}] = iter[s \ {x}]
      BY <1>11, <2>3
    <2>5. f[s] = v[x] + f[s \ {x}] /\ iter[s] = v[x] + iter[s \ {x}]
      BY <1>6, <1>10, <2>1, <2>2
    <2> QED BY <2>4, <2>5
  <1> DEFINE T == {k \in Nat : \A s \in SUBSET D : Cardinality(s) = k => f[s] = iter[s]}
  <1>12. 0 \in T
    <2>1. \A s \in SUBSET D : Cardinality(s) = 0 => s = {}
      BY SubsetSize
    <2> QED BY <1>5, <1>10, <2>1
  <1>13. \A m \in Nat : m \in T
    <2> TAKE m \in Nat
    <2>1. \A k \in 0 + 1 .. m : k - 1 \in T => k \in T
      BY <1>11
    <2> HIDE DEF T
    <2>2. \A k \in 0 .. m : k \in T
      BY <1>12, <2>1, UpTo
    <2> QED BY <2>2
  <1>14. Cardinality(D) \in Nat /\ D \in SUBSET D
    BY FS_CardinalityType
  <1>15. f[D] = iter[D]
    BY <1>13, <1>14
  <1>16. IsFold(iter, D, Nat, 0, Added(D, v), pick)
    BY <1>3, <1>p
  <1>17. FoldFunction(+, 0, v) = iter[D]
    BY <1>8, <1>15 DEF f
  <1> HIDE DEF pick, f
  <1> QED BY <1>1, <1>16, <1>17

-----------------------------------------------------------------------------
(* It does not matter which element is added first.                        *)
IsSum(sum, D, v) == /\ sum \in [SUBSET D -> Nat] /\ sum[{}] = 0
                    /\ \A s \in SUBSET D : \A x \in s : sum[s] = v[x] + sum[s \ {x}]

LEMMA SumInAnyOrder ==
    ASSUME NEW D, IsFiniteSet(D), NEW v \in [D -> Nat], NEW pick, Picks(pick, D),
           NEW sum, IsFold(sum, D, Nat, 0, Added(D, v), pick)
    PROVE  IsSum(sum, D, v)
  <1>1. /\ sum \in [SUBSET D -> Nat] /\ sum[{}] = 0
        /\ \A s \in (SUBSET D) \ {{}} : sum[s] = Added(D, v)[pick[s]][sum[s \ {pick[s]}]]
    BY DEF IsFold
  <1>2. ASSUME NEW s \in SUBSET D, s # {}
        PROVE  pick[s] \in s /\ sum[s] = v[pick[s]] + sum[s \ {pick[s]}]
    <2>1. PICK p \in s : p = pick[s]
      BY <1>2 DEF Picks
    <2>2. p \in D /\ s \ {p} \in SUBSET D
      OBVIOUS
    <2>3. sum[s \ {p}] \in Nat
      BY <1>1, <2>2
    <2>4. Added(D, v)[p][sum[s \ {p}]] = v[p] + sum[s \ {p}]
      BY <2>2, <2>3 DEF Added
    <2>5. sum[s] = Added(D, v)[p][sum[s \ {p}]]
      BY <1>1, <1>2, <2>1
    <2> QED BY <2>1, <2>4, <2>5
  <1> DEFINE T == {k \in Nat : \A s \in SUBSET D : Cardinality(s) = k =>
                      \A x \in s : sum[s] = v[x] + sum[s \ {x}]}
  <1>3. 0 \in T
    <2>1. \A s \in SUBSET D : Cardinality(s) = 0 => s = {}
      BY SubsetSize
    <2> QED BY <2>1
  <1>4. ASSUME NEW m \in Nat, NEW k \in 0 + 1 .. m, k - 1 \in T PROVE k \in T
    <2> SUFFICES ASSUME NEW s \in SUBSET D, Cardinality(s) = k, NEW x \in s
                 PROVE  sum[s] = v[x] + sum[s \ {x}]
      OBVIOUS
    <2>1. PICK p \in s : p = pick[s] /\ sum[s] = v[p] + sum[s \ {p}]
      BY <1>2
    <2>2. CASE p = x
      BY <2>1, <2>2
    <2>3. CASE p # x
      <3>1. /\ Cardinality(s \ {p}) = k - 1 /\ s \ {p} \in SUBSET D
            /\ Cardinality(s \ {x}) = k - 1 /\ s \ {x} \in SUBSET D
        BY SubsetSize
      <3>2. \A t \in SUBSET D : Cardinality(t) = k - 1 =>
                \A y \in t : sum[t] = v[y] + sum[t \ {y}]
        BY <1>4
      <3>3. sum[s \ {p}] = v[x] + sum[(s \ {p}) \ {x}]
        BY <2>3, <3>1, <3>2
      <3>4. sum[s \ {x}] = v[p] + sum[(s \ {x}) \ {p}]
        BY <2>3, <3>1, <3>2
      <3>5. (s \ {x}) \ {p} = (s \ {p}) \ {x} /\ (s \ {p}) \ {x} \in SUBSET D
        OBVIOUS
      <3>6. sum[(s \ {p}) \ {x}] \in Nat /\ v[x] \in Nat /\ v[p] \in Nat
        BY <1>1, <3>5
      <3>7. PICK r \in Nat : r = sum[(s \ {p}) \ {x}]
        BY <3>6
      <3>8. sum[s \ {p}] = v[x] + r /\ sum[s \ {x}] = v[p] + r
        BY <3>3, <3>4, <3>5, <3>7
      <3> QED BY <2>1, <3>6, <3>8
    <2> QED BY <2>2, <2>3
  <1>5. \A m \in Nat : m \in T
    <2> TAKE m \in Nat
    <2>1. \A k \in 0 + 1 .. m : k - 1 \in T => k \in T
      BY <1>4
    <2> HIDE DEF T
    <2>2. \A k \in 0 .. m : k \in T
      BY <1>3, <2>1, UpTo
    <2> QED BY <2>2
  <1>6. \A s \in SUBSET D : Cardinality(s) \in Nat
    <2> TAKE s \in SUBSET D
    <2>1. IsFiniteSet(s)
      BY FS_Subset
    <2> QED BY <2>1, FS_CardinalityType
  <1>7. \A s \in SUBSET D : \A x \in s : sum[s] = v[x] + sum[s \ {x}]
    BY <1>5, <1>6
  <1> QED BY <1>1, <1>7 DEF IsSum

LEMMA FoldIsSum ==
    ASSUME NEW D, IsFiniteSet(D), NEW v \in [D -> Nat]
    PROVE  \E sum : IsSum(sum, D, v) /\ FoldFunction(+, 0, v) = sum[D]
  BY SumIsFold, SumInAnyOrder

(* The sum of the numbers up to k goes on with the next one.               *)
SumStep(sum, D, v, k, m) ==
    sum[D \cap (1 .. k)] = IF k \in D THEN v[k] + sum[D \cap (1 .. m)]
                           ELSE sum[D \cap (1 .. m)]

LEMMA SumGoesOn ==
    ASSUME NEW n \in Nat, NEW D \in SUBSET (1 .. n), NEW v, NEW sum, IsSum(sum, D, v),
           NEW k \in 1 .. n, NEW m, m = k - 1
    PROVE  SumStep(sum, D, v, k, m)
  <1>1. CASE k \in D
    <2>1. k \in D \cap (1 .. k) /\ (D \cap (1 .. k)) \ {k} = D \cap (1 .. k - 1)
      BY <1>1
    <2>2. D \cap (1 .. k) \in SUBSET D
      OBVIOUS
    <2> QED BY <1>1, <2>1, <2>2 DEF IsSum, SumStep
  <1>2. CASE k \notin D
    <2>1. D \cap (1 .. k) = D \cap (1 .. k - 1)
      BY <1>2
    <2> QED BY <1>2, <2>1 DEF SumStep
  <1> QED BY <1>1, <1>2

-----------------------------------------------------------------------------
(* The widths of the code, as products.                                    *)
LEMMA PowerAt ==
    ASSUME NEW b \in Nat
    PROVE  /\ Power(b)[0] = 1 /\ Power(b)[1] = b /\ Power(b)[2] = b * b
           /\ Power(b)[3] = b * (b * b) /\ Power(b)[4] = b * (b * (b * b))
           /\ Power(b)[8] = b * (b * (b * (b * (b * (b * (b * b))))))
  <1> DEFINE p == Power(b)
  <1>1. p[0] = 1 /\ \A n \in Nat : p[n + 1] = b * p[n] /\ p[n] \in Nat
    BY PowerIs
  <1> HIDE DEF p
  <1>2. p[1] = b
    <2>1. p[0 + 1] = b * p[0]
      BY <1>1
    <2> QED BY <1>1, <2>1
  <1>3. p[1 + 1] = b * p[1] /\ p[2 + 1] = b * p[2] /\ p[3 + 1] = b * p[3]
        /\ p[4 + 1] = b * p[4] /\ p[5 + 1] = b * p[5] /\ p[6 + 1] = b * p[6]
        /\ p[7 + 1] = b * p[7]
    BY <1>1
  <1>4. p[2] = b * p[1] /\ p[3] = b * p[2] /\ p[4] = b * p[3]
        /\ p[5] = b * p[4] /\ p[6] = b * p[5] /\ p[7] = b * p[6] /\ p[8] = b * p[7]
    BY <1>3
  <1>5. p[0] = 1 /\ p[1] = b /\ p[2] = b * b /\ p[3] = b * (b * b)
        /\ p[4] = b * (b * (b * b))
        /\ p[8] = b * (b * (b * (b * (b * (b * (b * b))))))
    <2>1. p[2] = b * b /\ p[3] = b * (b * b) /\ p[4] = b * (b * (b * b))
      BY <1>2, <1>4
    <2>2. p[5] = b * (b * (b * (b * b)))
      BY <1>4, <2>1
    <2>3. p[6] = b * (b * (b * (b * (b * b))))
      BY <1>4, <2>2
    <2>4. p[7] = b * (b * (b * (b * (b * (b * b)))))
      BY <1>4, <2>3
    <2>5. p[8] = b * (b * (b * (b * (b * (b * (b * b))))))
      BY <1>4, <2>4
    <2> QED BY <1>1, <1>2, <2>1, <2>5
  <1> QED BY <1>5 DEF p

LEMMA ProductGrows ==
    ASSUME NEW a \in Nat, NEW b \in Nat, NEW c \in Nat, a >= c
    PROVE  a * b \in Nat /\ a * b >= c * b /\ b * a >= b * c
  OBVIOUS

LEMMA Widths ==
    /\ Byte \in Nat /\ Byte > 2
    /\ Uint32Mod \in Nat /\ Uint32Mod > 80 /\ UintMod \in Nat
    /\ Uint32Mod = Byte * (Byte * (Byte * Byte))
    /\ UintMod = Uint32Mod * Uint32Mod
  <1>1. Byte \in Nat /\ Byte > 2
    BY CompilationAssumption
  <1>2. PICK b \in Nat : b = Byte
    BY <1>1
  <1>3. PICK q \in Nat : q = b * b
    OBVIOUS
  <1>4. q >= 9
    BY <1>1, <1>2, <1>3
  <1>5. Uint32Mod = b * (b * (b * b)) /\ UintMod = b * (b * (b * (b * (b * (b * (b * b))))))
    BY <1>2, PowerAt DEF Uint32Mod, UintMod
  <1>6. b * (b * (b * b)) = q * q
    BY <1>3
  <1>7. q * q >= 81 /\ q * q \in Nat
    BY <1>4
  <1>8. PICK w \in Nat : w = q * q
    BY <1>7
  <1>9. b * (b * (b * (b * (b * (b * (b * b)))))) = w * w
    BY <1>3, <1>8
  <1>10. w * w \in Nat
    OBVIOUS
  <1> QED BY <1>1, <1>2, <1>5, <1>6, <1>7, <1>8, <1>9, <1>10

LEMMA MaxOfInterval ==
    ASSUME NEW k \in Nat \ {0}
    PROVE  Max(1 .. k) = k
  <1>1. k \in 1 .. k /\ \A y \in 1 .. k : k >= y
    OBVIOUS
  <1>2. \A x \in 1 .. k : (\A y \in 1 .. k : x >= y) => x = k
    BY <1>1
  <1> QED BY <1>1, <1>2 DEF Max

LEMMA MaxIsMember ==
    ASSUME NEW n \in Nat, NEW s \in SUBSET (1 .. n), s # {}
    PROVE  Max(s) \in s
  <1> DEFINE R == {n - x : x \in s}
  <1>1. R \subseteq Nat /\ R # {}
    <2>1. \A x \in s : n - x \in Nat
      OBVIOUS
    <2>2. PICK x \in s : TRUE
      OBVIOUS
    <2>3. n - x \in R
      OBVIOUS
    <2> QED BY <2>1, <2>3
  <1>2. PICK r \in R : \A y \in R : r <= y
    <2> HIDE DEF R
    <2> QED BY <1>1, LeastNat
  <1>3. PICK x \in s : r = n - x
    OBVIOUS
  <1>4. \A y \in s : x >= y
    <2> TAKE y \in s
    <2>1. n - y \in R
      OBVIOUS
    <2>2. n - x <= n - y
      BY <1>2, <1>3, <2>1
    <2> QED BY <2>2
  <1> QED BY <1>4 DEF Max

-----------------------------------------------------------------------------
(* BigInt_parse goes through the digits from the first to the last.        *)
Read(u, digit, base) == IF digit >= base THEN u ELSE (u * base + digit) % UintMod

IsLoop(u, digits, base) ==
    u[0] = 0 /\ \A k \in 1 .. Len(digits) : u[k] = Read(u[k - 1], digits[k], base)

LEMMA ReadIsNat ==
    ASSUME NEW u \in Nat, NEW digit \in Nat, NEW base \in Nat
    PROVE  Read(u, digit, base) \in Nat
  <1>1. PICK r \in Nat : r = u * base + digit
    OBVIOUS
  <1>2. PICK m \in Nat : m = UintMod /\ m > 0
    <2>1. PICK w \in Nat : w = Uint32Mod /\ w > 80 /\ UintMod = w * w
      BY Widths
    <2>2. w * w \in Nat /\ w * w > 0
      BY <2>1
    <2> QED BY <2>1, <2>2
  <1>3. r % m \in Nat
    BY <1>1, <1>2
  <1> QED BY <1>1, <1>2, <1>3 DEF Read

LEMMA ParseIsLoop ==
    ASSUME NEW digits \in Seq(0 .. 36), NEW base \in 2 .. 36
    PROVE  \E u : /\ IsLoop(u, digits, base)
                  /\ BigInt_parse(digits, base) = BigInt_from_uint(u[Len(digits)])
  <1> DEFINE D == DOMAIN digits
             n == Len(digits)
             pick == [s \in SUBSET D |-> Max(s)]
             st == [x \in D |-> [y \in Nat |-> Read(y, digits[x], base)]]
             step(s, iter) == Read(iter[s \ {Max(s)}], digits[Max(s)], base)
             Rec(iter) == iter = [s \in SUBSET D |-> IF s = {} THEN 0 ELSE step(s, iter)]
             f == CHOOSE i : Rec(i)
  <1>1. n \in Nat /\ D = 1 .. n /\ IsFiniteSet(D) /\ \A x \in D : digits[x] \in Nat
    <2>1. PICK m \in Nat : m = Len(digits)
      OBVIOUS
    <2>2. PICK one \in Int : one = 1
      OBVIOUS
    <2>3. IsFiniteSet(one .. m)
      BY FS_Interval
    <2>4. D = 1 .. m /\ \A x \in 1 .. m : digits[x] \in Nat
      <3>1. D = 1 .. m
        BY <2>1
      <3>2. ASSUME NEW x \in 1 .. m PROVE digits[x] \in Nat
        <4>1. digits[x] \in 0 .. 36
          BY <2>1
        <4>2. \A d \in 0 .. 36 : d \in Nat
          OBVIOUS
        <4> QED BY <4>1, <4>2, Zenon
      <3> QED BY <3>1, <3>2
    <2> QED BY <2>1, <2>2, <2>3, <2>4
  <1>2. Picks(pick, D)
    BY <1>1, MaxIsMember DEF Picks
  <1>3. st \in [D -> [Nat -> Nat]]
    <2>1. \A x \in D : \A y \in Nat : Read(y, digits[x], base) \in Nat
      <3> TAKE x \in D, y \in Nat
      <3>1. PICK d \in Nat : d = digits[x]
        BY <1>1
      <3>2. base \in Nat
        OBVIOUS
      <3>3. Read(y, d, base) \in Nat
        BY <3>2, ReadIsNat
      <3> QED BY <3>1, <3>3
    <2> QED BY <2>1
  <1>p. PICK zero \in Nat : zero = 0
    OBVIOUS
  <1>4. PICK iter : IsFold(iter, D, Nat, zero, st, pick)
    <2> HIDE DEF st, pick, D
    <2> QED BY <1>1, <1>2, <1>3, FoldExists
  <1>5. /\ iter \in [SUBSET D -> Nat] /\ iter[{}] = 0
        /\ \A s \in (SUBSET D) \ {{}} : iter[s] = st[pick[s]][iter[s \ {pick[s]}]]
    BY <1>4, <1>p DEF IsFold
  <1>6. \A s \in SUBSET D : iter[s] = IF s = {} THEN 0 ELSE step(s, iter)
    <2> TAKE s \in SUBSET D
    <2>1. CASE s = {}
      BY <1>5, <2>1
    <2>2. CASE s # {}
      <3>1. PICK x \in D : x = Max(s) /\ pick[s] = x
        BY <1>2, <2>2 DEF Picks
      <3>2. iter[s \ {x}] \in Nat
        BY <1>5
      <3>3. iter[s] = st[x][iter[s \ {x}]]
        BY <1>5, <2>2, <3>1
      <3>4. st[x][iter[s \ {x}]] = Read(iter[s \ {x}], digits[x], base)
        BY <3>2
      <3> HIDE DEF pick, st
      <3> QED BY <2>2, <3>1, <3>3, <3>4
    <2> QED BY <2>1, <2>2
  <1>7. Rec(iter)
    <2> HIDE DEF step
    <2>1. iter = [s \in SUBSET D |-> iter[s]]
      BY <1>5
    <2> QED BY <1>6, <2>1
  <1>8. Rec(f)
    <2> HIDE DEF Rec
    <2> QED BY <1>7
  <1>9. \A s \in SUBSET D : f[s] = IF s = {} THEN 0 ELSE step(s, f)
    <2> HIDE DEF f, step
    <2> QED BY <1>8
  <1>10. BigInt_parse(digits, base) = BigInt_from_uint(f[D])
    BY DEF BigInt_parse, FoldLeft, MapThenFoldSet, Read
  <1> HIDE DEF f
  <1> DEFINE u == [k \in 0 .. n |-> f[1 .. k]]
  <1>11. u[0] = 0 /\ u[n] = f[D]
    <2>1. 1 .. 0 = {} /\ {} \in SUBSET D
      OBVIOUS
    <2>2. f[{}] = 0
      BY <1>9
    <2> QED BY <1>1, <2>1, <2>2
  <1>12. ASSUME NEW k \in 1 .. n PROVE u[k] = Read(u[k - 1], digits[k], base)
    <2>1. Max(1 .. k) = k /\ 1 .. k \in SUBSET D /\ 1 .. k # {}
      BY <1>1, MaxOfInterval
    <2>2. (1 .. k) \ {k} = 1 .. k - 1
      BY <1>1
    <2>3. f[1 .. k] = Read(f[1 .. k - 1], digits[k], base)
      BY <1>9, <2>1, <2>2
    <2>4. k - 1 \in 0 .. n /\ k \in 0 .. n
      BY <1>1
    <2>5. u[k] = f[1 .. k] /\ u[k - 1] = f[1 .. k - 1]
      BY <2>4
    <2> QED BY <2>3, <2>5
  <1>13. IsLoop(u, digits, base)
    <2> HIDE DEF u
    <2> QED BY <1>11, <1>12 DEF IsLoop
  <1> HIDE DEF u
  <1> QED BY <1>10, <1>11, <1>13

-----------------------------------------------------------------------------
(* The number of digits that come after a place.                           *)
Places(D, i) == Cardinality({j \in D : j > i})

LEMMA PlacesAre ==
    ASSUME NEW n \in Nat, NEW D \in SUBSET (1 .. n)
    PROVE  /\ \A i \in Nat : Places(D, i) \in Nat
           /\ Places(D, n) = 0
  <1>1. IsFiniteSet(1 .. n)
    <2>1. PICK one \in Int : one = 1
      OBVIOUS
    <2>2. n \in Int
      OBVIOUS
    <2>3. IsFiniteSet(one .. n)
      BY <2>2, FS_Interval
    <2> QED BY <2>1, <2>3
  <1>2. ASSUME NEW i \in Nat PROVE Places(D, i) \in Nat
    <2>1. PICK A \in SUBSET (1 .. n) : A = {j \in D : j > i}
      OBVIOUS
    <2>2. IsFiniteSet(A)
      BY <1>1, FS_Subset
    <2>3. Cardinality(A) \in Nat
      BY <2>2, FS_CardinalityType
    <2> QED BY <2>1, <2>3 DEF Places
  <1>3. {j \in D : j > n} = {}
    <2>1. \A j \in 1 .. n : ~(j > n)
      OBVIOUS
    <2> QED BY <2>1
  <1> QED BY <1>2, <1>3, FS_EmptySet DEF Places

PlacesStep(D, k, m) ==
    Places(D, m) = IF k \in D THEN Places(D, k) + 1 ELSE Places(D, k)

LEMMA PlacesGrow ==
    ASSUME NEW n \in Nat, NEW D \in SUBSET (1 .. n), NEW k \in 1 .. n, NEW m, m = k - 1
    PROVE  PlacesStep(D, k, m)
  <1>1. IsFiniteSet(1 .. n)
    <2>1. PICK one \in Int : one = 1
      OBVIOUS
    <2>2. n \in Int
      OBVIOUS
    <2>3. IsFiniteSet(one .. n)
      BY <2>2, FS_Interval
    <2> QED BY <2>1, <2>3
  <1> DEFINE A == {j \in D : j > k}
             B == {j \in D : j > m}
  <1>2. IsFiniteSet(A)
    <2>1. A \in SUBSET (1 .. n)
      OBVIOUS
    <2> HIDE DEF A
    <2> QED BY <1>1, <2>1, FS_Subset
  <1>3. \A j \in 1 .. n : (j > m <=> j > k \/ j = k) /\ ~(k > k)
    OBVIOUS
  <1>4. Cardinality(B) = IF k \in D THEN Cardinality(A) + 1 ELSE Cardinality(A)
    <2>1. CASE k \in D
      <3>1. B = A \cup {k} /\ k \notin A
        BY <1>3, <2>1
      <3> HIDE DEF A, B
      <3> QED BY <1>2, <2>1, <3>1, FS_AddElement
    <2>2. CASE k \notin D
      <3>1. B = A
        BY <1>3, <2>2
      <3> QED BY <2>2, <3>1
    <2> QED BY <2>1, <2>2
  <1> HIDE DEF A, B
  <1>5. Places(D, k) = Cardinality(A) /\ Places(D, m) = Cardinality(B)
    BY DEF Places, A, B
  <1> QED BY <1>4, <1>5 DEF PlacesStep

(* The loop without the width of its variable.                             *)
WithDigit(u, digit, base) == IF digit >= base THEN u ELSE u * base + digit

IsShifted(h, digits, base) ==
    /\ h \in [0 .. Len(digits) -> Nat] /\ h[0] = 0
    /\ \A k \in 1 .. Len(digits) : h[k] = WithDigit(h[k - 1], digits[k], base)

LEMMA ShiftIsNat ==
    ASSUME NEW u \in Nat, NEW digit \in Nat, NEW base \in Nat, base >= 2
    PROVE  WithDigit(u, digit, base) \in Nat /\ u <= WithDigit(u, digit, base)
  <1>1. PICK r \in Nat : r = u * base
    OBVIOUS
  <1>2. r >= u
    BY <1>1
  <1> QED BY <1>1, <1>2 DEF WithDigit

LEMMA DigitsAre ==
    ASSUME NEW digits \in Seq(0 .. 36)
    PROVE  /\ Len(digits) \in Nat /\ DOMAIN digits = 1 .. Len(digits)
           /\ \A k \in 1 .. Len(digits) : digits[k] \in Nat
  <1>1. PICK m \in Nat : m = Len(digits)
    OBVIOUS
  <1>2. DOMAIN digits = 1 .. m
    BY <1>1
  <1>3. ASSUME NEW x \in 1 .. m PROVE digits[x] \in Nat
    <2>1. digits[x] \in 0 .. 36
      BY <1>1
    <2>2. \A d \in 0 .. 36 : d \in Nat
      OBVIOUS
    <2> QED BY <2>1, <2>2, Zenon
  <1> QED BY <1>1, <1>2, <1>3

LEMMA ShiftedExists ==
    ASSUME NEW digits \in Seq(0 .. 36), NEW base \in 2 .. 36
    PROVE  \E h : IsShifted(h, digits, base)
  <1> DEFINE n == Len(digits)
             to(k, x) == IF k \in 1 .. n THEN WithDigit(x, digits[k], base) ELSE x
             g == [k \in Nat |-> [x \in Nat |-> to(k, x)]]
  <1>1. n \in Nat /\ \A k \in 1 .. n : digits[k] \in Nat
    BY DigitsAre
  <1>2. \A k \in Nat : \A x \in Nat : to(k, x) \in Nat
    <2> TAKE k \in Nat, x \in Nat
    <2>1. CASE k \in 1 .. n
      <3>1. PICK d \in Nat : d = digits[k]
        BY <1>1, <2>1
      <3>2. base \in Nat /\ base >= 2
        OBVIOUS
      <3>3. WithDigit(x, d, base) \in Nat
        BY <3>2, ShiftIsNat
      <3> QED BY <2>1, <3>1, <3>3
    <2> QED BY <2>1
  <1>3. g \in [Nat -> [Nat -> Nat]]
    <2> HIDE DEF to
    <2> QED BY <1>2
  <1>4. PICK zero \in Nat : zero = 0
    OBVIOUS
  <1>5. PICK f : IsRecursion(f, n, Nat, zero, g)
    <2> HIDE DEF g, n
    <2> QED BY <1>1, <1>3, RecursionTo
  <1>6. /\ f \in [0 .. n -> Nat] /\ f[0] = 0
        /\ \A k \in 1 .. n : f[k] = g[k][f[k - 1]]
    BY <1>4, <1>5 DEF IsRecursion
  <1>7. \A k \in 1 .. n : f[k] = WithDigit(f[k - 1], digits[k], base)
    <2> TAKE k \in 1 .. n
    <2>1. k \in Nat /\ f[k - 1] \in Nat
      BY <1>1, <1>6
    <2>2. g[k][f[k - 1]] = to(k, f[k - 1])
      <3> HIDE DEF to
      <3> QED BY <2>1
    <2> HIDE DEF g
    <2> QED BY <1>6, <2>2
  <1> QED BY <1>6, <1>7 DEF IsShifted

LEMMA Distribute ==
    ASSUME NEW a \in Nat, NEW b \in Nat, NEW c \in Nat, NEW p \in Nat
    PROVE  c * p + a * (b * p) = (a * b + c) * p
  OBVIOUS

DigitsOf(digits, base) == {i \in DOMAIN digits : digits[i] < base}
WeightsOf(digits, base) ==
    [i \in DigitsOf(digits, base) |->
        digits[i] * Power(base)[Places(DigitsOf(digits, base), i)]]

(* Each digit counts by its place: what the loop makes of the digits so    *)
(* far stands for, with those that follow.                                 *)
LEMMA Horner ==
    ASSUME NEW digits \in Seq(0 .. 36), NEW base \in 2 .. 36, NEW sum, NEW h,
           IsSum(sum, DigitsOf(digits, base), WeightsOf(digits, base)),
           IsShifted(h, digits, base)
    PROVE  sum[DigitsOf(digits, base)] = h[Len(digits)]
  <1>d. PICK D, v : D = DigitsOf(digits, base) /\ v = WeightsOf(digits, base)
    OBVIOUS
  <1>s. IsSum(sum, D, v)
    BY <1>d
  <1>1. PICK n \in Nat : n = Len(digits)
    BY DigitsAre
  <1>2. DOMAIN digits = 1 .. n /\ \A k \in 1 .. n : digits[k] \in Nat
    BY <1>1, DigitsAre
  <1>3. D \in SUBSET (1 .. n) /\ \A k \in 1 .. n : k \in D <=> digits[k] < base
    BY <1>2, <1>d DEF DigitsOf
  <1>e. D \in SUBSET (1 .. n)
    BY <1>3
  <1>b. PICK b \in Nat : b = base
    OBVIOUS
  <1>4. /\ \A i \in Nat : Power(b)[i] \in Nat /\ Power(b)[i + 1] = b * Power(b)[i]
        /\ Power(b)[0] = 1
    BY PowerIs
  <1>5. h \in [0 .. n -> Nat] /\ h[0] = 0
        /\ \A k \in 1 .. n : h[k] = WithDigit(h[k - 1], digits[k], b)
    BY <1>1, <1>b DEF IsShifted
  <1> DEFINE T == {k \in 0 .. n : sum[D \cap (1 .. k)] = h[k] * Power(b)[Places(D, k)]}
  <1>6. (\A i \in Nat : Places(D, i) \in Nat) /\ Places(D, n) = 0
    BY <1>3, PlacesAre
  <1>7. 0 \in T
    <2>1. D \cap (1 .. 0) = {}
      OBVIOUS
    <2>2. sum[{}] = 0
      BY <1>s DEF IsSum
    <2>3. PICK p \in Nat : p = Power(b)[Places(D, 0)]
      BY <1>4, <1>6
    <2>4. h[0] * p = 0
      BY <1>5
    <2> QED BY <2>1, <2>2, <2>3, <2>4
  <1>8. ASSUME NEW k \in 0 + 1 .. n, k - 1 \in T PROVE k \in T
    <2>1. k \in 1 .. n /\ k \in 0 .. n /\ k \in Nat
      OBVIOUS
    <2>m. PICK m \in 0 .. n : m = k - 1
      OBVIOUS
    <2>2. PICK p \in Nat : p = Power(b)[Places(D, k)]
      BY <1>4, <1>6, <2>1
    <2>3. PICK a \in Nat : a = h[m]
      BY <1>5
    <2>4. PICK d \in Nat : d = digits[k]
      BY <1>2, <2>1
    <2>5. sum[D \cap (1 .. m)] = a * Power(b)[Places(D, m)]
      BY <1>8, <2>m, <2>3
    <2>6. sum[D \cap (1 .. k)] = IF k \in D THEN v[k] + sum[D \cap (1 .. m)]
                                 ELSE sum[D \cap (1 .. m)]
      <3>1. SumStep(sum, D, v, k, m)
        BY <1>e, <1>s, <2>1, <2>m, SumGoesOn
      <3> QED BY <3>1 DEF SumStep
    <2>7. h[k] = WithDigit(a, d, b)
      BY <1>5, <2>1, <2>m, <2>3, <2>4
    <2>p. Places(D, m) = IF k \in D THEN Places(D, k) + 1 ELSE Places(D, k)
      <3>1. PlacesStep(D, k, m)
        BY <1>e, <2>1, <2>m, PlacesGrow
      <3> QED BY <3>1 DEF PlacesStep
    <2>8. CASE k \in D
      <3>1. Power(b)[Places(D, m)] = b * p
        <4>1. PICK q \in Nat : q = Places(D, k)
          BY <1>6, <2>1
        <4>2. Places(D, m) = q + 1
          BY <2>p, <2>8, <4>1
        <4> QED BY <1>4, <2>2, <4>1, <4>2
      <3>2. v[k] = d * p
        <4>1. v = [i \in D |-> digits[i] * Power(base)[Places(D, i)]]
          BY <1>d DEF WeightsOf
        <4> QED BY <1>b, <2>2, <2>4, <2>8, <4>1
      <3>3. h[k] = a * b + d
        BY <1>3, <1>b, <2>1, <2>4, <2>7, <2>8 DEF WithDigit
      <3>4. d * p + a * (b * p) = (a * b + d) * p
        BY Distribute
      <3>5. sum[D \cap (1 .. k)] = d * p + a * (b * p)
        BY <2>5, <2>6, <2>8, <3>1, <3>2
      <3>6. sum[D \cap (1 .. k)] = h[k] * Power(b)[Places(D, k)]
        BY <2>2, <3>3, <3>4, <3>5
      <3> QED BY <2>1, <3>6
    <2>9. CASE k \notin D
      <3>1. Places(D, m) = Places(D, k)
        BY <2>p, <2>9
      <3>2. h[k] = a
        BY <1>3, <1>b, <2>1, <2>4, <2>7, <2>9 DEF WithDigit
      <3>3. sum[D \cap (1 .. k)] = h[k] * Power(b)[Places(D, k)]
        BY <2>5, <2>6, <2>9, <3>1, <3>2
      <3> QED BY <2>1, <3>3
    <2> QED BY <2>8, <2>9
  <1> HIDE DEF T
  <1>9. \A k \in 0 .. n : k \in T
    BY <1>7, <1>8, UpTo
  <1>10. sum[D \cap (1 .. n)] = h[n] * Power(b)[Places(D, n)]
    <2>1. n \in T
      BY <1>9
    <2> QED BY <2>1 DEF T
  <1>11. D \cap (1 .. n) = D
    BY <1>3
  <1>12. PICK x \in Nat : x = h[n]
    BY <1>5
  <1>13. Power(b)[Places(D, n)] = 1
    BY <1>4, <1>6
  <1>14. sum[D] = x * 1
    BY <1>10, <1>11, <1>12, <1>13
  <1> QED BY <1>1, <1>d, <1>12, <1>14

-----------------------------------------------------------------------------
(* BIGINT_INLINE_MAX is below the width of the loop's variable, and the    *)
(* integers of 32 bits are below it.                                       *)
LEMMA InlineBounds ==
    /\ BIGINT_INLINE_MAX \in Int /\ BIGINT_INLINE_MAX < UintMod /\ UintMod \in Nat
    /\ Uint32Mod \div 2 <= BIGINT_INLINE_MAX
  <1>1. PICK w \in Nat : w = Uint32Mod /\ w > 80 /\ UintMod = w * w
    BY Widths
  <1>2. PICK u \in Nat : u = w * w /\ u >= 80 * w
    <2>1. w * w \in Nat /\ w * w >= 80 * w
      BY <1>1
    <2> QED BY <2>1
  <1>3. UintMod = u
    BY <1>1, <1>2
  <1>4. PICK q \in Nat : q = u \div 4 /\ 4 * q <= u /\ u < 4 * q + 4
    BY <1>2
  <1>5. BIGINT_INLINE_MAX = q - 1
    BY <1>3, <1>4 DEF BIGINT_INLINE_MAX
  <1>6. PICK h \in Nat : h = w \div 2 /\ 2 * h <= w
    BY <1>1
  <1>7. h <= q - 1
    BY <1>1, <1>2, <1>4, <1>6
  <1> QED BY <1>1, <1>2, <1>3, <1>4, <1>5, <1>6, <1>7

(* As long as the number has room, the loop loses nothing.                 *)
LEMMA LoopKeeps ==
    ASSUME NEW digits \in Seq(0 .. 36), NEW base \in 2 .. 36, NEW u, NEW h,
           IsLoop(u, digits, base), IsShifted(h, digits, base), h[Len(digits)] < UintMod
    PROVE  u[Len(digits)] = h[Len(digits)]
  <1>1. PICK n \in Nat : n = Len(digits)
    BY DigitsAre
  <1>2. \A k \in 1 .. n : digits[k] \in Nat
    BY <1>1, DigitsAre
  <1>3. h \in [0 .. n -> Nat] /\ h[0] = 0
        /\ \A k \in 1 .. n : h[k] = WithDigit(h[k - 1], digits[k], base)
    BY <1>1 DEF IsShifted
  <1>4. u[0] = 0 /\ \A k \in 1 .. n : u[k] = Read(u[k - 1], digits[k], base)
    BY <1>1 DEF IsLoop
  <1>5. base \in Nat /\ base >= 2
    OBVIOUS
  <1>6. \A k \in 1 .. n : h[k - 1] <= h[k]
    <2> TAKE k \in 1 .. n
    <2>1. PICK a \in Nat : a = h[k - 1]
      BY <1>3
    <2>2. PICK d \in Nat : d = digits[k]
      BY <1>2
    <2>3. a <= WithDigit(a, d, base)
      BY <1>5, ShiftIsNat
    <2> QED BY <1>3, <2>1, <2>2, <2>3
  <1>7. PICK m \in Nat : m = UintMod
    BY InlineBounds
  <1>8. \A k \in 0 .. n : h[k] < m
    <2> DEFINE T == {k \in 0 .. n : h[n - k] < m}
    <2>1. 0 \in T
      BY <1>1, <1>7
    <2>2. ASSUME NEW k \in 0 + 1 .. n, k - 1 \in T PROVE k \in T
      <3>1. PICK i \in 1 .. n : i = n - (k - 1)
        OBVIOUS
      <3>2. h[i] < m /\ i - 1 = n - k /\ i - 1 \in 0 .. n /\ i \in 0 .. n /\ k \in 0 .. n
        BY <2>2, <3>1
      <3>3. h[i - 1] <= h[i] /\ h[i] \in Nat /\ h[i - 1] \in Nat
        BY <1>3, <1>6, <3>2
      <3>4. h[i - 1] < m
        BY <3>2, <3>3
      <3> QED BY <3>2, <3>4
    <2> HIDE DEF T
    <2>3. \A k \in 0 .. n : k \in T
      BY <2>1, <2>2, UpTo
    <2> TAKE k \in 0 .. n
    <2>4. n - k \in 0 .. n /\ n - (n - k) = k
      OBVIOUS
    <2> QED BY <2>3, <2>4 DEF T
  <1> DEFINE T == {k \in 0 .. n : u[k] = h[k]}
  <1>9. 0 \in T
    BY <1>3, <1>4
  <1>10. ASSUME NEW k \in 0 + 1 .. n, k - 1 \in T PROVE k \in T
    <2>1. k \in 1 .. n /\ k \in 0 .. n /\ k - 1 \in 0 .. n
      OBVIOUS
    <2>2. PICK a \in Nat : a = h[k - 1] /\ a = u[k - 1]
      BY <1>3, <1>10, <2>1
    <2>3. PICK d \in Nat : d = digits[k]
      BY <1>2, <2>1
    <2>4. u[k] = Read(a, d, base) /\ h[k] = WithDigit(a, d, base)
      BY <1>3, <1>4, <2>1, <2>2, <2>3
    <2>5. PICK r \in Nat : r = h[k] /\ r < m
      BY <1>3, <1>8, <2>1
    <2>6. r % m = r
      BY <2>5
    <2>7. Read(a, d, base) = WithDigit(a, d, base)
      BY <1>7, <2>4, <2>5, <2>6 DEF Read, WithDigit
    <2> QED BY <2>1, <2>4, <2>7
  <1> HIDE DEF T
  <1>11. \A k \in 0 .. n : k \in T
    BY <1>9, <1>10, UpTo
  <1>12. n \in T
    BY <1>11
  <1> QED BY <1>1, <1>12 DEF T

(* BigInt_parse makes of a literal the number it is written for, with the  *)
(* tag bit, if that number is no larger than an inline integer can be.     *)
LEMMA ParseKeeps ==
    ASSUME NEW e, e.kind = "IntLiteral", IsSimple(e)
    PROVE  /\ NumberOf(e) \in Nat
           /\ NumberOf(e) <= BIGINT_INLINE_MAX =>
                  BigInt_parse(e.digits, e.base) = 2 * NumberOf(e) + 1
  <1>1. e.base \in 2 .. 36 /\ e.digits \in Seq(0 .. 36)
    BY DEF IsSimple
  <1>2. PICK digits \in Seq(0 .. 36) : digits = e.digits
    BY <1>1
  <1>3. PICK base \in 2 .. 36 : base = e.base
    BY <1>1
  <1> DEFINE D == {i \in DOMAIN digits : digits[i] < base}
             v == [i \in D |-> digits[i] * Power(base)[Places(D, i)]]
  <1>4. PICK n \in Nat : n = Len(digits) /\ DOMAIN digits = 1 .. n
    BY DigitsAre
  <1>5. \A i \in 1 .. n : digits[i] \in Nat
    BY <1>4, DigitsAre
  <1>6. D \in SUBSET (1 .. n)
    BY <1>4
  <1>7. IsFiniteSet(D)
    <2>1. PICK one \in Int : one = 1
      OBVIOUS
    <2>2. n \in Int
      OBVIOUS
    <2>3. IsFiniteSet(one .. n)
      BY <2>2, FS_Interval
    <2> HIDE DEF D
    <2> QED BY <1>6, <2>1, <2>3, FS_Subset
  <1>8. v \in [D -> Nat]
    <2>1. ASSUME NEW i \in D PROVE digits[i] * Power(base)[Places(D, i)] \in Nat
      <3>1. i \in Nat /\ digits[i] \in Nat
        BY <1>5, <1>6
      <3>2. Places(D, i) \in Nat
        <4> HIDE DEF D
        <4> QED BY <1>6, <3>1, PlacesAre
      <3>3. base \in Nat
        OBVIOUS
      <3>4. Power(base)[Places(D, i)] \in Nat
        BY <3>2, <3>3, PowerIs
      <3>5. PICK x \in Nat : x = Power(base)[Places(D, i)]
        BY <3>4
      <3>6. PICK y \in Nat : y = digits[i]
        BY <3>1
      <3> QED BY <3>5, <3>6
    <2> HIDE DEF D
    <2> QED BY <2>1
  <1>9. NumberOf(e) = FoldFunction(+, 0, v)
    BY <1>2, <1>3 DEF NumberOf, Places
  <1> HIDE DEF v
  <1>10. PICK sum : IsSum(sum, D, v) /\ FoldFunction(+, 0, v) = sum[D]
    <2> HIDE DEF D
    <2> QED BY <1>7, <1>8, FoldIsSum
  <1>11. PICK h : IsShifted(h, digits, base)
    BY ShiftedExists
  <1>12. sum[D] = h[n]
    <2>1. D = DigitsOf(digits, base) /\ v = WeightsOf(digits, base)
      BY DEF v, DigitsOf, WeightsOf
    <2> HIDE DEF D
    <2>2. IsSum(sum, DigitsOf(digits, base), WeightsOf(digits, base))
      BY <1>10, <2>1
    <2>3. sum[DigitsOf(digits, base)] = h[Len(digits)]
      BY <1>11, <2>2, Horner
    <2> QED BY <1>4, <2>1, <2>3
  <1> HIDE DEF D
  <1>13. PICK x \in Nat : x = h[n] /\ x = NumberOf(e)
    <2>1. h \in [0 .. n -> Nat] /\ n \in 0 .. n
      BY <1>4, <1>11 DEF IsShifted
    <2>2. h[n] \in Nat
      BY <2>1
    <2> QED BY <1>9, <1>10, <1>12, <2>2
  <1>14. ASSUME x <= BIGINT_INLINE_MAX PROVE BigInt_parse(digits, base) = 2 * x + 1
    <2>1. PICK u : /\ IsLoop(u, digits, base)
                   /\ BigInt_parse(digits, base) = BigInt_from_uint(u[Len(digits)])
      BY ParseIsLoop
    <2>2. h[Len(digits)] < UintMod
      BY <1>4, <1>13, <1>14, InlineBounds
    <2>3. u[Len(digits)] = h[Len(digits)]
      BY <1>11, <2>1, <2>2, LoopKeeps
    <2> QED BY <1>4, <1>13, <1>14, <2>1, <2>3 DEF BigInt_from_uint
  <1> QED BY <1>2, <1>3, <1>13, <1>14

-----------------------------------------------------------------------------
(* Division by a width.                                                    *)
LEMMA Divided ==
    ASSUME NEW n \in Nat, NEW d \in Nat, d > 0
    PROVE  \E q \in Nat, r \in Nat :
               q = n \div d /\ r = n % d /\ r < d /\ n = d * q + r
  <1>1. n \div d \in Nat /\ n % d \in Nat /\ n % d < d
    BY SMT
  <1>2. PICK q \in Nat, r \in Nat : q = n \div d /\ r = n % d /\ r < d
    BY <1>1
  <1>3. n = d * q + r
    BY <1>2, SMT
  <1> QED BY <1>2, <1>3

LEMMA DivisionIs ==
    ASSUME NEW n \in Nat, NEW d \in Nat, NEW q \in Nat, NEW m \in Nat, m < d, n = d * q + m
    PROVE  n \div d = q
  <1>1. PICK a \in Nat, r \in Nat : a = n \div d /\ r < d /\ n = d * a + r
    BY Divided
  <1>2. CASE a = q
    BY <1>1, <1>2
  <1>3. CASE a < q
    <2>1. PICK k \in Nat : q = a + 1 + k
      <3>1. q - a - 1 \in Nat /\ q = a + 1 + (q - a - 1)
        BY <1>3
      <3> QED BY <3>1
    <2>2. d * q = d * a + d + d * k /\ d * k \in Nat /\ d * a \in Nat
      BY <2>1
    <2> QED BY <1>1, <2>2
  <1>4. CASE a > q
    <2>1. PICK k \in Nat : a = q + 1 + k
      <3>1. a - q - 1 \in Nat /\ a = q + 1 + (a - q - 1)
        BY <1>4
      <3> QED BY <3>1
    <2>2. d * a = d * q + d + d * k /\ d * k \in Nat /\ d * q \in Nat
      BY <2>1
    <2> QED BY <1>1, <2>2
  <1> QED BY <1>1, <1>2, <1>3, <1>4

LEMMA DividedTwice ==
    ASSUME NEW n \in Nat, NEW b \in Nat, NEW c \in Nat, b > 0, c > 0
    PROVE  n \div (b * c) = (n \div b) \div c
  <1>1. PICK q \in Nat, r \in Nat : q = n \div b /\ r < b /\ n = b * q + r
    BY Divided
  <1>2. PICK s \in Nat, t \in Nat : s = q \div c /\ t < c /\ q = c * s + t
    BY Divided
  <1>3. PICK d \in Nat : d = b * c
    OBVIOUS
  <1>4. PICK m \in Nat : m = b * t + r
    OBVIOUS
  <1>5. n = d * s + m
    BY <1>1, <1>2, <1>3, <1>4
  <1>6. m < d
    <2>1. b * t + b <= b * c
      <3>1. t + 1 <= c
        BY <1>2
      <3>2. b * (t + 1) <= b * c
        BY <3>1
      <3> QED BY <3>2
    <2> QED BY <1>1, <1>3, <1>4, <2>1
  <1>7. n \div d = s
    BY <1>5, <1>6, DivisionIs
  <1> QED BY <1>1, <1>2, <1>3, <1>7

(* The four bytes of emit_u32 are bytes, and together they are the value.  *)
LEMMA BytesAre ==
    ASSUME NEW v \in Nat
    PROVE  /\ Bytes(v) \in [1 .. 4 -> 0 .. Byte - 1]
           /\ v < Uint32Mod =>
                  Bytes(v)[1] + Bytes(v)[2] * Power(Byte)[1] + Bytes(v)[3] * Power(Byte)[2]
                      + Bytes(v)[4] * Power(Byte)[3] = v
  <1>1. PICK b \in Nat : b = Byte /\ b > 2
    BY Widths
  <1>2. PICK b2 \in Nat : b2 = b * b
    OBVIOUS
  <1>3. PICK b3 \in Nat : b3 = b * b2
    OBVIOUS
  <1>4. /\ Power(Byte)[0] = 1 /\ Power(Byte)[1] = b /\ Power(Byte)[2] = b2
        /\ Power(Byte)[3] = b3
    BY <1>1, <1>2, <1>3, PowerAt
  <1>5. b2 > 0 /\ b3 > 0
    BY <1>1, <1>2, <1>3
  <1>6. PICK q1 \in Nat, r1 \in Nat :
            q1 = v \div b /\ r1 = v % b /\ r1 < b /\ v = b * q1 + r1
    BY <1>1, Divided
  <1>7. PICK q2 \in Nat, r2 \in Nat :
            q2 = q1 \div b /\ r2 = q1 % b /\ r2 < b /\ q1 = b * q2 + r2
    BY <1>1, Divided
  <1>8. PICK q3 \in Nat, r3 \in Nat :
            q3 = q2 \div b /\ r3 = q2 % b /\ r3 < b /\ q2 = b * q3 + r3
    BY <1>1, Divided
  <1>9. PICK r4 \in Nat : r4 = q3 % b /\ r4 < b
    BY <1>1, Divided
  <1>10. v \div b2 = q2
    <2>1. v \div (b * b) = (v \div b) \div b
      BY <1>1, DividedTwice
    <2> QED BY <1>2, <1>6, <1>7, <2>1
  <1>11. v \div b3 = q3
    <2>1. v \div (b * b2) = (v \div b) \div b2
      BY <1>1, <1>5, DividedTwice
    <2>2. q1 \div (b * b) = (q1 \div b) \div b
      BY <1>1, DividedTwice
    <2> QED BY <1>2, <1>3, <1>6, <1>7, <1>8, <2>1, <2>2
  <1>12. v \div 1 = v
    OBVIOUS
  <1>13. Bytes(v) = [i \in 1 .. 4 |-> (v \div Power(Byte)[i - 1]) % Byte]
    BY DEF Bytes
  <1>14. \A i \in 1 .. 4 : Bytes(v)[i] = (v \div Power(Byte)[i - 1]) % Byte
    BY <1>13
  <1>15. Bytes(v)[1] = r1 /\ Bytes(v)[2] = r2 /\ Bytes(v)[3] = r3 /\ Bytes(v)[4] = r4
    <2>1. /\ Bytes(v)[1] = (v \div Power(Byte)[0]) % Byte
          /\ Bytes(v)[2] = (v \div Power(Byte)[1]) % Byte
          /\ Bytes(v)[3] = (v \div Power(Byte)[2]) % Byte
          /\ Bytes(v)[4] = (v \div Power(Byte)[3]) % Byte
      BY <1>14
    <2> QED BY <1>1, <1>4, <1>6, <1>7, <1>8, <1>9, <1>10, <1>11, <1>12, <2>1
  <1>16. Bytes(v) \in [1 .. 4 -> 0 .. Byte - 1]
    <2>1. \A i \in 1 .. 4 : Bytes(v)[i] \in 0 .. Byte - 1
      BY <1>1, <1>6, <1>7, <1>8, <1>9, <1>15
    <2>2. Bytes(v) = [i \in 1 .. 4 |-> Bytes(v)[i]]
      BY <1>13
    <2> QED BY <2>1, <2>2
  <1>17. ASSUME v < Uint32Mod PROVE r1 + r2 * b + r3 * b2 + r4 * b3 = v
    <2>1. Uint32Mod = b * b3
      BY <1>1, <1>2, <1>3, Widths
    <2>2. PICK t \in Nat : v = b3 * q3 + t
      <3>1. /\ v \in Nat /\ b3 \in Nat /\ b3 > 0
        BY <1>5
      <3>2. PICK q \in Nat, t \in Nat : q = v \div b3 /\ v = b3 * q + t
        BY <3>1, Divided
      <3> QED BY <1>11, <3>2
    <2>3. q3 < b
      <3> SUFFICES ASSUME q3 >= b PROVE FALSE
        OBVIOUS
      <3>1. b3 * q3 >= b3 * b /\ b3 * b = b * b3
        BY <1>5
      <3> QED BY <1>17, <2>1, <2>2, <3>1
    <2>4. r4 = q3
      BY <1>9, <2>3
    <2>5. v = b * (b * (b * q3 + r3) + r2) + r1
      BY <1>6, <1>7, <1>8
    <2>6. b * (b * (b * q3 + r3) + r2) + r1 = r1 + r2 * b + r3 * b2 + q3 * b3
      BY <1>2, <1>3
    <2> QED BY <2>4, <2>5, <2>6
  <1> QED BY <1>4, <1>15, <1>16, <1>17

-----------------------------------------------------------------------------
(* The code of an item and what is printed of it, so far.                  *)
Pushed == BigInt_as_uint32(BigInt_parse(item.value.digits, item.value.base))
PushCode == <<Opcode_PushInt32>> \o Bytes(Pushed)
WholeCode == Append(PushCode, Opcode_Return)

Operand(c) == c[2] + c[3] * Power(Byte)[1] + c[4] * Power(Byte)[2] + c[5] * Power(Byte)[3]
PushLine == [opcode |-> Opcode_PushInt32, operand |-> Operand(WholeCode)]
ReturnLine == [opcode |-> Opcode_Return]

Coding == {"compile_return", "dump", "dumped"}

KInv ==
    /\ pc \notin Coding =>
          code = << >> /\ at = 0 /\ (pc # "item_dumped" => printed = << >>)
    /\ pc = "compile_return" => code = PushCode /\ at = 0 /\ printed = << >>
    /\ pc \in {"dump", "dumped"} => code = WholeCode
    /\ pc = "dump" => \/ at = 0 /\ printed = << >>
                      \/ at = 5 /\ printed = <<PushLine>>
                      \/ at = 6 /\ printed = <<PushLine, ReturnLine>>
    /\ pc = "dumped" => printed = <<PushLine, ReturnLine>>

LEMMA LoopIsNat ==
    ASSUME NEW digits \in Seq(0 .. 36), NEW base \in 2 .. 36, NEW u, IsLoop(u, digits, base)
    PROVE  u[Len(digits)] \in Nat
  <1>1. PICK n \in Nat : n = Len(digits)
    BY DigitsAre
  <1>2. \A k \in 1 .. n : digits[k] \in Nat
    BY <1>1, DigitsAre
  <1>3. u[0] = 0 /\ \A k \in 1 .. n : u[k] = Read(u[k - 1], digits[k], base)
    BY <1>1 DEF IsLoop
  <1> DEFINE T == {k \in 0 .. n : u[k] \in Nat}
  <1>4. 0 \in T
    BY <1>3
  <1>5. ASSUME NEW k \in 0 + 1 .. n, k - 1 \in T PROVE k \in T
    <2>1. k \in 1 .. n /\ k \in 0 .. n
      OBVIOUS
    <2>2. PICK a \in Nat : a = u[k - 1]
      BY <1>5
    <2>3. PICK d \in Nat : d = digits[k]
      BY <1>2, <2>1
    <2>4. base \in Nat
      OBVIOUS
    <2>5. Read(a, d, base) \in Nat
      BY <2>4, ReadIsNat
    <2> QED BY <1>3, <2>1, <2>2, <2>3, <2>5
  <1> HIDE DEF T
  <1>6. \A k \in 0 .. n : k \in T
    BY <1>4, <1>5, UpTo
  <1>7. n \in T
    BY <1>6
  <1> QED BY <1>1, <1>7 DEF T

LEMMA PushedIsNat ==
    ASSUME item.value.kind = "IntLiteral", IsSimple(item.value)
    PROVE  Pushed \in Nat
  <1>1. PICK digits \in Seq(0 .. 36), base \in 2 .. 36 :
            digits = item.value.digits /\ base = item.value.base
    BY DEF IsSimple
  <1>2. PICK u : /\ IsLoop(u, digits, base)
                 /\ BigInt_parse(digits, base) = BigInt_from_uint(u[Len(digits)])
    BY ParseIsLoop
  <1>3. PICK x \in Nat : x = u[Len(digits)]
    BY <1>2, LoopIsNat
  <1>4. PICK p \in Nat : p = BigInt_parse(digits, base)
    BY <1>2, <1>3 DEF BigInt_from_uint
  <1>5. PICK w \in Nat : w = Uint32Mod /\ w > 0
    BY Widths
  <1>6. PICK r \in Nat : r = p % w
    <2>1. p % w \in Nat
      BY <1>5
    <2> QED BY <2>1
  <1>7. r \div 2 \in Nat
    OBVIOUS
  <1> QED BY <1>1, <1>4, <1>5, <1>6, <1>7 DEF Pushed, BigInt_as_uint32

(* The literal that is pushed is the one that is written.                  *)
LEMMA PushedIsLiteral ==
    ASSUME item.value.kind = "IntLiteral", IsSimple(item.value),
           NumberOf(item.value) < Uint32Mod \div 2
    PROVE  Pushed = NumberOf(item.value) /\ Pushed < Uint32Mod
  <1>1. PICK n \in Nat : n = NumberOf(item.value)
    BY ParseKeeps
  <1>2. PICK w \in Nat : w = Uint32Mod /\ w > 0
    BY Widths
  <1>3. PICK h \in Nat : h = w \div 2 /\ 2 * h <= w
    OBVIOUS
  <1>4. n < h
    BY <1>1, <1>2, <1>3
  <1>5. n <= BIGINT_INLINE_MAX
    <2>1. h <= BIGINT_INLINE_MAX /\ BIGINT_INLINE_MAX \in Int
      BY <1>2, <1>3, InlineBounds
    <2> QED BY <1>4, <2>1
  <1>6. BigInt_parse(item.value.digits, item.value.base) = 2 * n + 1
    BY <1>1, <1>5, ParseKeeps
  <1>7. (2 * n + 1) % w = 2 * n + 1
    <2>1. PICK x \in Nat : x = 2 * n + 1 /\ x < w
      BY <1>3, <1>4
    <2>2. x % w = x
      BY <2>1
    <2> QED BY <2>1, <2>2
  <1>8. (2 * n + 1) \div 2 = n
    OBVIOUS
  <1>9. n < w
    BY <1>3, <1>4
  <1> QED BY <1>1, <1>2, <1>6, <1>7, <1>8, <1>9 DEF Pushed, BigInt_as_uint32

IsCode(c) == /\ Len(c) = 6 /\ c[1] = 2 /\ c[6] = 1
             /\ \A i \in 1 .. 4 : c[i + 1] = Bytes(Pushed)[i]
             /\ \A i \in DOMAIN c : c[i] \in 0 .. Byte - 1

LEMMA CodeIs ==
    ASSUME item.value.kind = "IntLiteral", IsSimple(item.value)
    PROVE  /\ \A i \in DOMAIN PushCode : PushCode[i] \in 0 .. Byte - 1
           /\ IsCode(WholeCode)
  <1>1. Pushed \in Nat
    BY PushedIsNat
  <1>2. PICK b : b = Bytes(Pushed) /\ b \in [1 .. 4 -> 0 .. Byte - 1]
    BY <1>1, BytesAre
  <1>3. Byte \in Nat /\ Byte > 2
    BY Widths
  <1> DEFINE S == 0 .. Byte - 1
  <1>4. 2 \in S /\ 1 \in S
    BY <1>3
  <1> HIDE DEF S
  <1>5. b \in Seq(S) /\ Len(b) = 4
    <2>1. b \in [1 .. 4 -> S]
      BY <1>2 DEF S
    <2>2. PICK n \in Nat : n = 4
      OBVIOUS
    <2>3. b \in [1 .. n -> S]
      BY <2>1, <2>2
    <2>4. b \in Seq(S) /\ Len(b) = n
      BY <2>3
    <2> QED BY <2>2, <2>4
  <1>6. <<2>> \in Seq(S) /\ Len(<<2>>) = 1 /\ <<2>>[1] = 2
    BY <1>4
  <1>7. PICK p : p = <<2>> \o b
    OBVIOUS
  <1>8. p \in Seq(S) /\ Len(p) = 5 /\ p[1] = 2 /\ \A i \in 1 .. 4 : p[i + 1] = b[i]
    <2>1. p \in Seq(S)
      BY <1>5, <1>6, <1>7
    <2>2. PICK a : a = <<2>> /\ a \in Seq(S) /\ Len(a) = 1 /\ a[1] = 2
      BY <1>6
    <2>3. /\ Len(p) = Len(a) + Len(b)
          /\ \A i \in 1 .. Len(a) + Len(b) : p[i] = IF i <= Len(a) THEN a[i] ELSE b[i - Len(a)]
      BY <1>5, <1>7, <2>2, ConcatProperties
    <2>4. /\ Len(p) = 5
          /\ \A i \in 1 .. 5 : p[i] = IF i <= 1 THEN a[i] ELSE b[i - 1]
      BY <1>5, <2>2, <2>3
    <2>5. p[1] = 2
      BY <2>2, <2>4
    <2>6. \A i \in 1 .. 4 : p[i + 1] = b[i]
      BY <2>4
    <2> QED BY <2>1, <2>4, <2>5, <2>6
  <1>9. PICK c : c = Append(p, 1)
    OBVIOUS
  <1>10. /\ c \in Seq(S) /\ Len(c) = 6 /\ c[1] = 2 /\ c[6] = 1
         /\ \A i \in 1 .. 4 : c[i + 1] = b[i]
    <2>1. c \in Seq(S)
      BY <1>4, <1>8, <1>9
    <2>2. Len(c) = 6 /\ c[6] = 1
      BY <1>8, <1>9
    <2>3. \A i \in 1 .. 5 : c[i] = p[i]
      BY <1>8, <1>9
    <2> QED BY <1>8, <2>1, <2>2, <2>3
  <1>11. \A i \in DOMAIN p : p[i] \in S
    BY <1>8, ElementOfSeq, LenProperties
  <1>12. \A i \in DOMAIN c : c[i] \in S
    BY <1>10, ElementOfSeq, LenProperties
  <1>13. PushCode = p /\ WholeCode = c
    BY <1>2, <1>7, <1>9 DEF PushCode, WholeCode, Opcode_PushInt32, Opcode_Return
  <1> QED BY <1>2, <1>10, <1>11, <1>12, <1>13 DEF IsCode, S

LEMMA OperandIs ==
    ASSUME item.value.kind = "IntLiteral", IsSimple(item.value),
           NumberOf(item.value) < Uint32Mod \div 2
    PROVE  Operand(WholeCode) = NumberOf(item.value)
  <1>1. PICK c : c = WholeCode
    OBVIOUS
  <1>2. \A i \in 1 .. 4 : c[i + 1] = Bytes(Pushed)[i]
    BY <1>1, CodeIs DEF IsCode
  <1>3. c[2] = Bytes(Pushed)[1] /\ c[3] = Bytes(Pushed)[2] /\ c[4] = Bytes(Pushed)[3]
        /\ c[5] = Bytes(Pushed)[4]
    BY <1>2
  <1>4. Pushed \in Nat /\ Pushed < Uint32Mod /\ Pushed = NumberOf(item.value)
    BY PushedIsNat, PushedIsLiteral
  <1>5. PICK v \in Nat : v = Pushed
    BY <1>4
  <1>6. Bytes(v)[1] + Bytes(v)[2] * Power(Byte)[1] + Bytes(v)[3] * Power(Byte)[2]
            + Bytes(v)[4] * Power(Byte)[3] = v
    BY <1>4, <1>5, BytesAre
  <1> QED BY <1>1, <1>3, <1>4, <1>5, <1>6, Zenon DEF Operand

-----------------------------------------------------------------------------
LEMMA NotCoding ==
    ASSUME KInv, pc \notin Coding, pc' \notin Coding, pc # "item_dumped",
           UNCHANGED output
    PROVE  KInv'
  BY DEF KInv, Coding, output

LEMMA CheckingCodes ==
    ASSUME CInv, KInv, Next, pc \in Passes \cup {"destroy"}
    PROVE  KInv'
  <1>1. pc \notin Coding /\ pc # "item_dumped" /\ pc \notin CompileSteps
    BY DEF Passes, Coding, CompileSteps
  <1>2. pc' \in Passes \cup {"destroy", "crash", "checked", "reported"} /\ UNCHANGED output
    <2>1. CASE Undeclared \/ EvalValue \/ EvalName \/ EvalFunctionType
      BY <2>1 DEF Undeclared, EvalValue, EvalName, EvalFunctionType, Exit, EvalTo, Enter, Checking
    <2>2. CASE TypeLiteral \/ TypeName \/ TypeFunctionType \/ TypeReturn
      BY <2>2 DEF TypeLiteral, TypeName, TypeFunctionType, TypeReturn, TypeAs, Enter, Checking,
             Exit
    <2>3. CASE LiftSimpleType \/ LiftFunctionType \/ LiftNothing
      BY <2>3 DEF LiftSimpleType, LiftFunctionType, LiftNothing, LiftTo, Enter, Checking
    <2>4. CASE TypeItemType \/ LiftItemType \/ TypeBody
      BY <2>4 DEF TypeItemType, LiftItemType, TypeBody, GoTo, Exit, Passes
    <2>5. CASE LeaveItem \/ DestroyScopes
      BY <2>5 DEF LeaveItem, DestroyScopes
    <2>6. ~(CompileValue \/ CompileReturn \/ DumpPush \/ DumpOther \/ DumpEnd)
      BY <1>1 DEF CompileValue, CompileReturn, DumpPush, DumpOther, DumpEnd, Dumping,
             CompileSteps
    <2> QED BY <2>1, <2>2, <2>3, <2>4, <2>5, <2>6 DEF Next
  <1>3. pc' \notin Coding
    BY <1>2 DEF Passes, Coding
  <1> QED BY <1>1, <1>2, <1>3, NotCoding

LEMMA CodeKept ==
    ASSUME UNCHANGED item
    PROVE  PushCode' = PushCode /\ WholeCode' = WholeCode /\ PushLine' = PushLine
           /\ ReturnLine' = ReturnLine
  BY DEF PushCode, WholeCode, PushLine, ReturnLine, Pushed

(* Where the next instruction is, and where the code ends.                 *)
LEMMA DumpsInOrder ==
    ASSUME KInv, pc = "dump", item.value.kind = "IntLiteral", IsSimple(item.value)
    PROVE  /\ DumpPush => at = 0 /\ at' = 5 /\ printed' = <<PushLine>>
           /\ DumpOther => at = 5 /\ at' = 6 /\ printed' = <<PushLine, ReturnLine>>
           /\ DumpEnd => at = 6
  <1>1. code = WholeCode /\ IsCode(WholeCode) /\ at \in {0, 5, 6}
    BY CodeIs DEF KInv
  <1>2. Len(code) = 6 /\ code[1] = 2 /\ code[6] = 1
    BY <1>1 DEF IsCode
  <1>3. ASSUME DumpPush PROVE at = 0 /\ at' = 5 /\ printed' = <<PushLine>>
    <2>1. at < 6 /\ code[at + 1] = 2
      BY <1>2, <1>3 DEF DumpPush, Dumping, Opcode_PushInt32
    <2>2. at = 0
      BY <1>1, <1>2, <2>1
    <2>3. printed = << >>
      BY <2>2 DEF KInv
    <2>4. PICK line : line = PushLine
      OBVIOUS
    <2>5. printed' = Append(printed, line) /\ at' = at + 5
      BY <1>1, <1>3, <2>4 DEF DumpPush, PushLine, Operand
    <2> QED BY <2>2, <2>3, <2>4, <2>5
  <1>4. ASSUME DumpOther PROVE at = 5 /\ at' = 6 /\ printed' = <<PushLine, ReturnLine>>
    <2>1. at < 6 /\ code[at + 1] # 2 /\ at' = at + 1
          /\ printed' = Append(printed, [opcode |-> code[at + 1]])
      BY <1>2, <1>4 DEF DumpOther, Dumping, Opcode_PushInt32
    <2>2. at = 5
      BY <1>1, <1>2, <2>1
    <2>3. PICK line : line = PushLine
      OBVIOUS
    <2>4. printed = <<line>>
      BY <2>2, <2>3 DEF KInv
    <2>5. code[at + 1] = Opcode_Return
      BY <1>2, <2>2 DEF Opcode_Return
    <2>6. PICK last : last = ReturnLine
      OBVIOUS
    <2>7. printed' = Append(printed, last)
      BY <2>1, <2>5, <2>6 DEF ReturnLine
    <2>8. Append(<<line>>, last) = <<line, last>>
      <3> DEFINE S == {line, last}
      <3>1. last \in S /\ <<line>> \in Seq(S)
        BY SMT
      <3> HIDE DEF S
      <3>2. Append(<<line>>, last) = <<line>> \o <<last>>
        BY <3>1, AppendIsConcat
      <3> QED BY <3>2, ShortSequences
    <2> QED BY <2>1, <2>2, <2>3, <2>4, <2>6, <2>7, <2>8
  <1>5. ASSUME DumpEnd PROVE at = 6
    BY <1>1, <1>2, <1>5 DEF DumpEnd
  <1> QED BY <1>3, <1>4, <1>5

LEMMA CompilingCodes ==
    ASSUME CInv, KInv, CompileValue \/ CompileReturn \/ DumpPush \/ DumpOther \/ DumpEnd
    PROVE  KInv'
  <1>1. pc \in CompileSteps /\ UNCHANGED item
    BY DEF CompileValue, CompileReturn, DumpPush, DumpOther, DumpEnd, Dumping,
           CompileSteps, Compiling
  <1>2. item.value.kind = "IntLiteral" /\ IsSimple(item.value)
    BY <1>1, WhatInt32Has DEF CInv, Course, Accepted
  <1>3. PushCode' = PushCode /\ WholeCode' = WholeCode /\ PushLine' = PushLine
        /\ ReturnLine' = ReturnLine
    BY <1>1, CodeKept
  <1>4. CASE CompileValue
    <2>1. Kind("value") = "IntLiteral"
      BY <1>2, KindsOfNodes
    <2>2. pc = "checked" /\ pc' = "compile_return" /\ code' = PushCode
          /\ UNCHANGED <<at, printed>>
      BY <1>4, <2>1 DEF CompileValue, PushCode, Pushed
    <2> QED BY <1>3, <2>2 DEF KInv, Coding
  <1>5. CASE CompileReturn
    <2>1. /\ pc = "compile_return" /\ pc' = "dump" /\ code' = Append(code, Opcode_Return)
          /\ UNCHANGED <<at, printed>>
      BY <1>5 DEF CompileReturn
    <2>2. code' = WholeCode
      BY <2>1 DEF KInv, WholeCode
    <2> QED BY <1>3, <2>1, <2>2 DEF KInv, Coding
  <1>6. CASE DumpPush
    <2>1. pc = "dump" /\ UNCHANGED <<pc, code>>
      BY <1>6 DEF DumpPush, Dumping
    <2>2. at' = 5 /\ printed' = <<PushLine>>
      BY <1>2, <1>6, <2>1, DumpsInOrder
    <2> QED BY <1>3, <2>1, <2>2 DEF KInv, Coding
  <1>7. CASE DumpOther
    <2>1. pc = "dump" /\ UNCHANGED <<pc, code>>
      BY <1>7 DEF DumpOther, Dumping
    <2>2. at' = 6 /\ printed' = <<PushLine, ReturnLine>>
      BY <1>2, <1>7, <2>1, DumpsInOrder
    <2> QED BY <1>3, <2>1, <2>2 DEF KInv, Coding
  <1>8. CASE DumpEnd
    <2>1. pc = "dump" /\ pc' = "dumped" /\ UNCHANGED output
      BY <1>8 DEF DumpEnd
    <2>2. at = 6
      BY <1>2, <1>8, <2>1, DumpsInOrder
    <2>3. printed = <<PushLine, ReturnLine>>
      BY <2>1, <2>2 DEF KInv
    <2> QED BY <1>3, <2>1, <2>3 DEF KInv, Coding, output
  <1> QED BY <1>4, <1>5, <1>6, <1>7, <1>8

LEMMA NextFrom == CInv /\ Next => pc \in Passes \cup {"destroy"} \cup CompileSteps
  <1> SUFFICES ASSUME CInv, Next, pc \notin {"destroy"} \cup CompileSteps
               PROVE  pc \in Passes
    OBVIOUS
  <1>1. pc \notin Passes => calls = << >>
    BY DEF CInv, Course
  <1>2. CASE calls # << >>
    BY <1>1, <1>2
  <1>3. CASE calls = << >>
    <2>1. TypeItemType \/ LiftItemType \/ TypeBody \/ LeaveItem
      BY <1>3 DEF Next, CompileSteps, Undeclared, EvalValue, EvalName, EvalFunctionType,
             TypeLiteral, TypeFunctionType, TypeName, TypeReturn, LiftSimpleType,
             LiftFunctionType, LiftNothing, Running, DestroyScopes, CompileValue,
             CompileReturn, DumpPush, DumpOther, DumpEnd, Dumping
    <2> QED BY <2>1 DEF TypeItemType, LiftItemType, TypeBody, LeaveItem, Idle, Passes
  <1> QED BY <1>2, <1>3

LEMMA KInvStep ==
    ASSUME CInv, KInv, Next
    PROVE  KInv'
  <1>1. CASE pc \in Passes \cup {"destroy"}
    BY <1>1, CheckingCodes
  <1>2. CASE pc \in CompileSteps
    <2>1. pc \notin Passes \cup {"destroy"}
      BY <1>2 DEF CompileSteps, Passes
    <2>2. calls = << >>
      BY <2>1 DEF CInv, Course
    <2>3. CompileValue \/ CompileReturn \/ DumpPush \/ DumpOther \/ DumpEnd
      BY <2>1, <2>2 DEF Next, Passes, Undeclared, EvalValue, EvalName, EvalFunctionType,
             TypeLiteral, TypeFunctionType, TypeName, TypeReturn, LiftSimpleType,
             LiftFunctionType, LiftNothing, Running, DestroyScopes, TypeItemType,
             LiftItemType, TypeBody, LeaveItem, Idle
    <2> QED BY <2>3, CompilingCodes
  <1> QED BY <1>1, <1>2, NextFrom

LEMMA KInvSame ==
    ASSUME KInv, UNCHANGED <<item, pc, output>>
    PROVE  KInv'
  BY CodeKept DEF KInv, output

LEMMA KInvStart == Prepared /\ pc \notin Coding => KInv
  BY DEF Prepared, KInv, Coding

(* What LiteralKept asks follows where the literals that reach the code    *)
(* are those of the item.                                                  *)
LEMMA KInvKeepsLiteral ==
    ASSUME KInv, pc \in Coding => item.value.kind = "IntLiteral" /\ IsSimple(item.value)
    PROVE  LiteralKept
  <1>1. \A i \in DOMAIN code : code[i] \in 0 .. Byte - 1
    <2>1. CASE pc \notin Coding
      BY <2>1 DEF KInv
    <2>2. CASE pc \in Coding
      <3>1. code = PushCode \/ code = WholeCode
        BY <2>2 DEF KInv, Coding
      <3> QED BY <2>2, <3>1, CodeIs DEF IsCode
    <2> QED BY <2>1, <2>2
  <1>2. ASSUME pc = "dumped", NumberOf(item.value) < Uint32Mod \div 2
        PROVE  printed = << [opcode |-> Opcode_PushInt32, operand |-> NumberOf(item.value)],
                            [opcode |-> Opcode_Return] >>
    <2>1. item.value.kind = "IntLiteral" /\ IsSimple(item.value)
      BY <1>2 DEF Coding
    <2>2. printed = <<PushLine, ReturnLine>>
      BY <1>2 DEF KInv
    <2>3. Operand(WholeCode) = NumberOf(item.value)
      BY <1>2, <2>1, OperandIs
    <2> QED BY <2>2, <2>3 DEF PushLine, ReturnLine
  <1> QED BY <1>1, <1>2 DEF LiteralKept

LEMMA CInvCoding ==
    CInv => (pc \in Coding => item.value.kind = "IntLiteral" /\ IsSimple(item.value))
  BY WhatInt32Has DEF CInv, Course, Coding, CompileSteps, Accepted

(* A literal that an Int32 can hold is what the code of its function       *)
(* pushes, and what BytecodeFunction_dump prints of it.                    *)
THEOREM CodeKeepsLiterals == Spec => []LiteralKept
  <1>1. Init => KInv
    BY KInvStart DEF Init, Coding
  <1>2. CInv /\ KInv /\ [Next]_vars => KInv'
    <2> SUFFICES ASSUME CInv, KInv, [Next]_vars PROVE KInv'
      OBVIOUS
    <2>1. CASE UNCHANGED vars
      BY <2>1, KInvSame DEF vars
    <2> QED BY <2>1, KInvStep
  <1>3. CInv /\ KInv => LiteralKept
    BY CInvCoding, KInvKeepsLiteral
  <1> QED BY <1>1, <1>2, <1>3, AlwaysCInv, PTL DEF Spec

-----------------------------------------------------------------------------
(* The lines of a node, one after the other.                               *)
IsCat(z, S, s, t, m, n) ==
    /\ z \in Seq(S) /\ Len(z) = m + n
    /\ (\A k \in 1 .. m : z[k] = s[k]) /\ (\A k \in 1 .. n : z[m + k] = t[k])

LEMMA CatIs ==
    ASSUME NEW S, NEW s \in Seq(S), NEW t \in Seq(S), NEW m \in Nat, NEW n \in Nat,
           Len(s) = m, Len(t) = n
    PROVE  IsCat(s \o t, S, s, t, m, n)
  <1>1. PICK z : z = s \o t
    OBVIOUS
  <1>2. /\ z \in Seq(S) /\ Len(z) = m + n
        /\ \A k \in 1 .. m + n : z[k] = IF k <= m THEN s[k] ELSE t[k - m]
    BY <1>1, ConcatProperties
  <1>3. \A k \in 1 .. m : z[k] = s[k]
    BY <1>2
  <1>4. \A k \in 1 .. n : z[m + k] = t[k]
    <2> TAKE k \in 1 .. n
    <2>1. m + k \in 1 .. m + n /\ ~(m + k <= m) /\ (m + k) - m = k
      OBVIOUS
    <2> QED BY <1>2, <2>1
  <1> QED BY <1>1, <1>2, <1>3, <1>4 DEF IsCat

LEMMA OneLine ==
    ASSUME NEW S, NEW a \in S
    PROVE  <<a>> \in Seq(S) /\ Len(<<a>>) = 1 /\ <<a>>[1] = a
  BY SMT

IsNode(z, S, o, inner, c, m) ==
    /\ z \in Seq(S) /\ Len(z) = m + 2 /\ z[1] = o /\ z[m + 2] = c
    /\ \A k \in 1 .. m : z[k + 1] = inner[k]

LEMMA NodeIs ==
    ASSUME NEW S, NEW o \in S, NEW c \in S, NEW inner \in Seq(S), NEW m \in Nat, Len(inner) = m
    PROVE  IsNode(<<o>> \o inner \o <<c>>, S, o, inner, c, m)
  <1>1. PICK one \in Nat : one = 1
    OBVIOUS
  <1>a. PICK a : a = <<o>> /\ a \in Seq(S) /\ Len(a) = one /\ a[1] = o
    BY <1>1, OneLine
  <1>b. PICK b : b = <<c>> /\ b \in Seq(S) /\ Len(b) = one /\ b[1] = c
    BY <1>1, OneLine
  <1>2. /\ a = <<o>> /\ a \in Seq(S) /\ Len(a) = one /\ a[1] = o
        /\ b = <<c>> /\ b \in Seq(S) /\ Len(b) = one /\ b[1] = c
    BY <1>a, <1>b
  <1>3. PICK y : y = a \o inner /\ IsCat(y, S, a, inner, one, m)
    BY <1>2, CatIs
  <1>4. PICK n \in Nat : n = one + m /\ y \in Seq(S) /\ Len(y) = n
    BY <1>1, <1>3 DEF IsCat
  <1>5. PICK z : z = y \o b /\ IsCat(z, S, y, b, n, one)
    BY <1>1, <1>2, <1>4, CatIs
  <1>6. /\ z \in Seq(S) /\ Len(z) = m + 2
        /\ (\A k \in 1 .. m + 1 : z[k] = y[k]) /\ z[m + 2] = c
    <2>1. z \in Seq(S) /\ Len(z) = n + one
          /\ (\A k \in 1 .. n : z[k] = y[k]) /\ (\A k \in 1 .. one : z[n + k] = b[k])
      BY <1>5 DEF IsCat
    <2>2. z[n + 1] = b[1] /\ n = m + 1 /\ n + 1 = m + 2
      BY <1>1, <1>4, <2>1
    <2> QED BY <1>1, <1>2, <2>1, <2>2
  <1>7. y[1] = o /\ \A k \in 1 .. m : y[1 + k] = inner[k]
    BY <1>1, <1>2, <1>3 DEF IsCat
  <1>8. z[1] = o
    BY <1>6, <1>7
  <1>9. \A k \in 1 .. m : z[k + 1] = inner[k]
    <2> TAKE k \in 1 .. m
    <2>1. k + 1 \in 1 .. m + 1 /\ k + 1 = 1 + k
      OBVIOUS
    <2> QED BY <1>6, <1>7, <2>1
  <1> QED BY <1>2, <1>3, <1>5, <1>6, <1>8, <1>9 DEF IsNode

(* The dump of an item: its lines are those of a, the eighth of them only  *)
(* if the body has a type.                                                 *)
IsDump(z, n, a) ==
    /\ DOMAIN z = 1 .. n /\ Len(z) = n
    /\ \A k \in 1 .. 7 : z[k] = a[k]
    /\ z[n - 1] = a[9] /\ z[n] = a[10]
    /\ n = 10 => z[8] = a[8]

LEMMA DumpIs ==
    ASSUME NEW S, NEW a \in [1 .. 10 -> S], NEW last \in Seq(S), NEW n \in {9, 10},
           Len(last) = n - 8, last[1] = a[7], n = 10 => last[2] = a[8]
    PROVE  IsDump(<<a[1]>> \o (<<a[2]>> \o (<<a[3]>> \o <<a[4]>> \o <<a[5]>>)
                                        \o (<<a[6]>> \o last \o <<a[9]>>)) \o <<a[10]>>, n, a)
  <1>a. /\ a[1] \in S /\ a[2] \in S /\ a[3] \in S /\ a[4] \in S /\ a[5] \in S /\ a[6] \in S
        /\ a[7] \in S /\ a[8] \in S /\ a[9] \in S /\ a[10] \in S
    OBVIOUS
  <1>1. PICK one \in Nat : one = 1
    OBVIOUS
  <1>2. PICK f : f = <<a[4]>> /\ f \in Seq(S) /\ Len(f) = one /\ f[1] = a[4]
    BY <1>a, <1>1, OneLine
  <1>3. PICK x : x = <<a[3]>> \o f \o <<a[5]>> /\ IsNode(x, S, a[3], f, a[5], one)
    BY <1>a, <1>2, NodeIs
  <1>4. x \in Seq(S) /\ Len(x) = 3 /\ x[1] = a[3] /\ x[2] = a[4] /\ x[3] = a[5]
    BY <1>1, <1>2, <1>3 DEF IsNode
  <1>5. PICK m \in Nat : m = n - 8
    OBVIOUS
  <1>6. PICK y : y = <<a[6]>> \o last \o <<a[9]>> /\ IsNode(y, S, a[6], last, a[9], m)
    BY <1>a, <1>5, NodeIs
  <1>7. /\ y \in Seq(S) /\ Len(y) = n - 6 /\ y[1] = a[6] /\ y[n - 6] = a[9]
        /\ y[2] = a[7] /\ (n = 10 => y[3] = a[8])
    <2>1. /\ y \in Seq(S) /\ Len(y) = m + 2 /\ y[1] = a[6] /\ y[m + 2] = a[9]
          /\ \A k \in 1 .. m : y[k + 1] = last[k]
      BY <1>6 DEF IsNode
    <2>2. y[1 + 1] = last[1]
      BY <1>5, <2>1
    <2>3. n = 10 => y[2 + 1] = last[2]
      BY <1>5, <2>1
    <2> QED BY <1>5, <2>1, <2>2, <2>3
  <1>8. PICK b : b = <<a[2]>> /\ b \in Seq(S) /\ Len(b) = one /\ b[1] = a[2]
    BY <1>a, <1>1, OneLine
  <1>9. PICK three \in Nat : three = 3
    OBVIOUS
  <1>10. PICK u : u = b \o x /\ IsCat(u, S, b, x, one, three)
    BY <1>4, <1>8, <1>9, CatIs
  <1>11. u \in Seq(S) /\ Len(u) = 4 /\ u[1] = a[2] /\ u[2] = a[3] /\ u[3] = a[4] /\ u[4] = a[5]
    <2>1. /\ u \in Seq(S) /\ Len(u) = 4
          /\ u[1] = b[1] /\ \A k \in 1 .. 3 : u[1 + k] = x[k]
      <3>1. /\ u \in Seq(S) /\ Len(u) = one + three
            /\ (\A k \in 1 .. one : u[k] = b[k]) /\ (\A k \in 1 .. three : u[one + k] = x[k])
        BY <1>10 DEF IsCat
      <3> QED BY <1>1, <1>9, <3>1
    <2>2. u[1 + 1] = x[1] /\ u[1 + 2] = x[2] /\ u[1 + 3] = x[3]
      BY <2>1
    <2> QED BY <1>4, <1>8, <2>1, <2>2
  <1>12. PICK four \in Nat, l \in Nat : four = 4 /\ l = n - 6
    OBVIOUS
  <1>13. PICK v : v = u \o y /\ IsCat(v, S, u, y, four, l)
    BY <1>7, <1>11, <1>12, CatIs
  <1>14. /\ v \in Seq(S) /\ Len(v) = n - 2
         /\ v[1] = a[2] /\ v[2] = a[3] /\ v[3] = a[4] /\ v[4] = a[5] /\ v[5] = a[6]
         /\ v[6] = a[7] /\ (n = 10 => v[7] = a[8]) /\ v[n - 2] = a[9]
    <2>1. /\ v \in Seq(S) /\ Len(v) = n - 2
          /\ \A k \in 1 .. 4 : v[k] = u[k]
          /\ \A k \in 1 .. n - 6 : v[4 + k] = y[k]
      <3>1. /\ v \in Seq(S) /\ Len(v) = four + l
            /\ (\A k \in 1 .. four : v[k] = u[k]) /\ (\A k \in 1 .. l : v[four + k] = y[k])
        BY <1>13 DEF IsCat
      <3> QED BY <1>12, <3>1
    <2>2. v[1] = u[1] /\ v[2] = u[2] /\ v[3] = u[3] /\ v[4] = u[4]
      BY <2>1
    <2>3. v[4 + 1] = y[1] /\ v[4 + 2] = y[2] /\ v[4 + (n - 6)] = y[n - 6]
      BY <2>1
    <2>4. n = 10 => v[4 + 3] = y[3]
      BY <2>1
    <2>5. 4 + (n - 6) = n - 2
      OBVIOUS
    <2> QED BY <1>7, <1>11, <2>1, <2>2, <2>3, <2>4, <2>5
  <1>15. PICK k \in Nat : k = n - 2
    OBVIOUS
  <1>16. PICK z : z = <<a[1]>> \o v \o <<a[10]>> /\ IsNode(z, S, a[1], v, a[10], k)
    BY <1>a, <1>14, <1>15, NodeIs
  <1>17. /\ z \in Seq(S) /\ Len(z) = n /\ z[1] = a[1] /\ z[n] = a[10]
         /\ \A j \in 1 .. n - 2 : z[j + 1] = v[j]
    BY <1>15, <1>16 DEF IsNode
  <1>18. z[1 + 1] = v[1] /\ z[2 + 1] = v[2] /\ z[3 + 1] = v[3] /\ z[4 + 1] = v[4]
         /\ z[5 + 1] = v[5] /\ z[6 + 1] = v[6]
    BY <1>17
  <1>19. z[(n - 2) + 1] = v[n - 2] /\ (n - 2) + 1 = n - 1
    BY <1>17
  <1>20. n = 10 => z[7 + 1] = v[7]
    BY <1>17
  <1>21. DOMAIN z = 1 .. n
    BY <1>17, LenProperties
  <1>22. IsDump(z, n, a)
    <2>1. z[2] = a[2] /\ z[3] = a[3] /\ z[4] = a[4] /\ z[5] = a[5] /\ z[6] = a[6] /\ z[7] = a[7]
      BY <1>14, <1>18
    <2>2. \A j \in 1 .. 7 : z[j] = a[j]
      BY <1>17, <2>1
    <2>3. z[n - 1] = a[9] /\ (n = 10 => z[8] = a[8])
      BY <1>14, <1>19, <1>20
    <2> QED BY <1>17, <1>21, <2>2, <2>3 DEF IsDump
  <1>23. z = <<a[1]>> \o (<<a[2]>> \o (<<a[3]>> \o <<a[4]>> \o <<a[5]>>)
                                   \o (<<a[6]>> \o last \o <<a[9]>>)) \o <<a[10]>>
    BY <1>2, <1>3, <1>6, <1>8, <1>10, <1>13, <1>16
  <1> QED BY <1>22, <1>23

-----------------------------------------------------------------------------
(* What the lines of a dump are, apart from their words.                   *)
IsLayout(a) ==
    /\ (\A k \in {1, 3, 6} : a[k].kind = "opens") /\ (\A k \in {5, 9, 10} : a[k].kind = "closes")
    /\ \A k \in {2, 4, 7, 8} : a[k].kind = "leaf"
    /\ a[1].indent = 0 /\ a[2].indent = 1 /\ a[3].indent = 1 /\ a[4].indent = 2
    /\ a[5].indent = 1 /\ a[6].indent = 1 /\ a[7].indent = 2 /\ a[8].indent = 2
    /\ a[9].indent = 1 /\ a[10].indent = 0

LEMMA TwoOf ==
    ASSUME NEW p, NEW q, p # q
    PROVE  Cardinality({p, q}) = 2
  <1>1. IsFiniteSet({p}) /\ Cardinality({p}) = 1
    BY FS_Singleton
  <1>2. q \notin {p} /\ {p, q} = {p} \cup {q}
    OBVIOUS
  <1>3. Cardinality({p} \cup {q}) = 1 + 1
    BY <1>1, <1>2, FS_AddElement
  <1> QED BY <1>2, <1>3

LEMMA LaidOut ==
    ASSUME NEW n \in {9, 10}, NEW a, NEW z, IsDump(z, n, a), IsLayout(a)
    PROVE  WellLaidOut(z)
  <1>1. /\ DOMAIN z = 1 .. n /\ Len(z) = n
        /\ z[1] = a[1] /\ z[2] = a[2] /\ z[3] = a[3] /\ z[4] = a[4] /\ z[5] = a[5]
        /\ z[6] = a[6] /\ z[7] = a[7] /\ z[n - 1] = a[9] /\ z[n] = a[10]
        /\ n = 10 => z[8] = a[8]
    BY DEF IsDump
  <1>2. /\ z[1].kind = "opens" /\ z[2].kind = "leaf" /\ z[3].kind = "opens"
        /\ z[4].kind = "leaf" /\ z[5].kind = "closes" /\ z[6].kind = "opens"
        /\ z[7].kind = "leaf" /\ z[n - 1].kind = "closes" /\ z[n].kind = "closes"
        /\ n = 10 => z[8].kind = "leaf"
    BY <1>1 DEF IsLayout
  <1>3. \A j \in 1 .. n : \/ j = 1 \/ j = 2 \/ j = 3 \/ j = 4 \/ j = 5 \/ j = 6 \/ j = 7
                          \/ j = n - 1 \/ j = n \/ (j = 8 /\ n = 10)
    OBVIOUS
  <1>4. \A j \in 1 .. n : /\ z[j].kind = "opens" <=> j \in {1, 3, 6}
                          /\ z[j].kind = "closes" <=> j \in {5, n - 1, n}
    <2> TAKE j \in 1 .. n
    <2>1. CASE j \in {1, 3, 6}
      BY <1>2, <2>1
    <2>2. CASE j \in {2, 4, 7}
      BY <1>2, <2>2
    <2>3. CASE j \in {5, n - 1, n}
      BY <1>2, <2>3
    <2>4. CASE j = 8 /\ n = 10
      BY <1>2, <2>4
    <2> QED BY <1>3, <2>1, <2>2, <2>3, <2>4
  <1> DEFINE O(k) == {j \in 1 .. k - 1 : z[j].kind = "opens"}
             C(k) == {j \in 1 .. k : z[j].kind = "closes"}
  <1>5. \A k \in 1 .. n : /\ O(k) = {j \in 1 .. k - 1 : j \in {1, 3, 6}}
                          /\ C(k) = {j \in 1 .. k : j \in {5, n - 1, n}}
    <2> TAKE k \in 1 .. n
    <2>1. \A j \in 1 .. k - 1 : z[j].kind = "opens" <=> j \in {1, 3, 6}
      BY <1>4
    <2>2. \A j \in 1 .. k : z[j].kind = "closes" <=> j \in {5, n - 1, n}
      BY <1>4
    <2> QED BY <2>1, <2>2
  <1>6. \A k \in 1 .. n : /\ k = 1 => O(k) = {}
                          /\ k \in 2 .. 3 => O(k) = {1}
                          /\ k \in 4 .. 6 => O(k) = {1, 3}
                          /\ k \in 7 .. n => O(k) = {1, 3, 6}
    <2> TAKE k \in 1 .. n
    <2>1. PICK s : s = {j \in 1 .. k - 1 : j \in {1, 3, 6}}
      OBVIOUS
    <2>2. O(k) = s
      BY <1>5, <2>1
    <2>3. k = 1 => s = {}
      BY <2>1
    <2>4. k \in 2 .. 3 => s = {1}
      BY <2>1
    <2>5. k \in 4 .. 6 => s = {1, 3}
      BY <2>1
    <2>6. k \in 7 .. n => s = {1, 3, 6}
      BY <2>1
    <2> HIDE DEF O
    <2> QED BY <2>2, <2>3, <2>4, <2>5, <2>6
  <1>7. \A k \in 1 .. n : /\ k \in 1 .. 4 => C(k) = {}
                          /\ k \in 5 .. n - 2 => C(k) = {5}
                          /\ k = n - 1 => C(k) = {5, n - 1}
                          /\ k = n => C(k) = {5, n - 1, n}
    <2> TAKE k \in 1 .. n
    <2>1. PICK s : s = {j \in 1 .. k : j \in {5, n - 1, n}}
      OBVIOUS
    <2>2. C(k) = s
      BY <1>5, <2>1
    <2>3. k \in 1 .. 4 => s = {}
      BY <2>1
    <2>4. k \in 5 .. n - 2 => s = {5}
      BY <2>1
    <2>5. k = n - 1 => s = {5, n - 1}
      BY <2>1
    <2>6. k = n => s = {5, n - 1, n}
      BY <2>1
    <2> HIDE DEF C
    <2> QED BY <2>2, <2>3, <2>4, <2>5, <2>6
  <1>8. \A k : Depth(z, k) = Cardinality(O(k)) - Cardinality(C(k))
    BY DEF Depth
  <1>9. /\ Cardinality({}) = 0 /\ Cardinality({1}) = 1 /\ Cardinality({5}) = 1
        /\ Cardinality({1, 3}) = 2 /\ Cardinality({5, n - 1}) = 2
        /\ Cardinality({1, 3, 6}) = 3 /\ Cardinality({5, n - 1, n}) = 3
    <2>1. Cardinality({}) = 0 /\ Cardinality({1}) = 1 /\ Cardinality({5}) = 1
      BY FS_EmptySet, FS_Singleton
    <2>2. PICK p \in Nat, q \in Nat, r \in Nat : p = 1 /\ q = 3 /\ r = 6
      OBVIOUS
    <2>3. PICK c \in Nat, d \in Nat, e \in Nat : c = 5 /\ d = n - 1 /\ e = n
      OBVIOUS
    <2>a. p # q /\ c # d
      BY <2>2, <2>3
    <2>b. Cardinality({p, q}) = 2
      BY <2>a, TwoOf
    <2>c. Cardinality({c, d}) = 2
      BY <2>a, TwoOf
    <2>4. Cardinality({p, q}) = 2 /\ Cardinality({c, d}) = 2
      BY <2>b, <2>c
    <2>5. PICK s : s = {p, q, r}
      OBVIOUS
    <2>6. Cardinality(s) = 3
      BY <2>2, <2>5, ThreeOf
    <2>7. PICK t : t = {c, d, e}
      OBVIOUS
    <2>8. Cardinality(t) = 3
      BY <2>3, <2>7, ThreeOf
    <2> QED BY <2>1, <2>2, <2>3, <2>4, <2>5, <2>6, <2>7, <2>8
  <1> HIDE DEF O, C
  <1>10. /\ Depth(z, 1) = 0 /\ Depth(z, 2) = 1 /\ Depth(z, 3) = 1 /\ Depth(z, 4) = 2
         /\ Depth(z, 5) = 1 /\ Depth(z, 6) = 1 /\ Depth(z, 7) = 2
         /\ Depth(z, n - 1) = 1 /\ Depth(z, n) = 0 /\ (n = 10 => Depth(z, 8) = 2)
    <2>1. O(1) = {} /\ O(2) = {1} /\ O(3) = {1} /\ O(4) = {1, 3} /\ O(5) = {1, 3}
          /\ O(6) = {1, 3} /\ O(7) = {1, 3, 6} /\ O(n - 1) = {1, 3, 6} /\ O(n) = {1, 3, 6}
          /\ (n = 10 => O(8) = {1, 3, 6})
      BY <1>6
    <2>2. C(1) = {} /\ C(2) = {} /\ C(3) = {} /\ C(4) = {} /\ C(5) = {5}
          /\ C(6) = {5} /\ C(7) = {5} /\ C(n - 1) = {5, n - 1} /\ C(n) = {5, n - 1, n}
          /\ (n = 10 => C(8) = {5})
      BY <1>7
    <2>3. PICK none \in Nat, one \in Nat, two \in Nat, three \in Nat :
              none = 0 /\ one = 1 /\ two = 2 /\ three = 3
      OBVIOUS
    <2>4. /\ Cardinality({}) = none /\ Cardinality({1}) = one /\ Cardinality({5}) = one
          /\ Cardinality({1, 3}) = two /\ Cardinality({5, n - 1}) = two
          /\ Cardinality({1, 3, 6}) = three /\ Cardinality({5, n - 1, n}) = three
      BY <1>9, <2>3
    <2>5. /\ Depth(z, 1) = none - none /\ Depth(z, 2) = one - none
          /\ Depth(z, 3) = one - none /\ Depth(z, 4) = two - none
      BY <1>8, <2>1, <2>2, <2>4, Zenon
    <2>a. Depth(z, 5) = two - one /\ Depth(z, 6) = two - one /\ Depth(z, 7) = three - one
      <3>1. /\ Cardinality(O(5)) = two /\ Cardinality(O(6)) = two /\ Cardinality(O(7)) = three
            /\ Cardinality(C(5)) = one /\ Cardinality(C(6)) = one /\ Cardinality(C(7)) = one
        BY <2>1, <2>2, <2>4
      <3> QED BY <1>8, <3>1
    <2>b. Depth(z, n - 1) = three - two
      <3>1. Cardinality(O(n - 1)) = three /\ Cardinality(C(n - 1)) = two
        BY <2>1, <2>2, <2>4
      <3> QED BY <1>8, <3>1
    <2>c. Depth(z, n) = three - three
      <3>1. Cardinality(O(n)) = three /\ Cardinality(C(n)) = three
        BY <2>1, <2>2, <2>4
      <3> QED BY <1>8, <3>1
    <2>6. /\ Depth(z, 5) = two - one /\ Depth(z, 6) = two - one /\ Depth(z, 7) = three - one
          /\ Depth(z, n - 1) = three - two /\ Depth(z, n) = three - three
      BY <2>a, <2>b, <2>c
    <2>7. ASSUME n = 10 PROVE Depth(z, 8) = three - one
      <3>1. O(8) = {1, 3, 6} /\ C(8) = {5}
        BY <2>1, <2>2, <2>7
      <3> QED BY <1>8, <2>4, <3>1, Zenon
    <2>8. none - none = 0 /\ one - none = 1 /\ two - none = 2 /\ two - one = 1
          /\ three - one = 2 /\ three - two = 1 /\ three - three = 0
      BY <2>3
    <2>9. Depth(z, 1) = 0 /\ Depth(z, 2) = 1 /\ Depth(z, 3) = 1 /\ Depth(z, 4) = 2
      BY <2>5, <2>8, Zenon
    <2>10. /\ Depth(z, 5) = 1 /\ Depth(z, 6) = 1 /\ Depth(z, 7) = 2
           /\ Depth(z, n - 1) = 1 /\ Depth(z, n) = 0
      BY <2>6, <2>8, Zenon
    <2>11. n = 10 => Depth(z, 8) = 2
      BY <2>7, <2>8, Zenon
    <2> QED BY <2>9, <2>10, <2>11, Zenon
  <1>11. ASSUME NEW k \in 1 .. n PROVE z[k].indent = Depth(z, k)
    <2>1. /\ z[1].indent = 0 /\ z[2].indent = 1 /\ z[3].indent = 1 /\ z[4].indent = 2
          /\ z[5].indent = 1 /\ z[6].indent = 1 /\ z[7].indent = 2
          /\ z[n - 1].indent = 1 /\ z[n].indent = 0 /\ (n = 10 => z[8].indent = 2)
      BY <1>1 DEF IsLayout
    <2> QED BY <1>3, <1>10, <2>1
  <1> QED BY <1>1, <1>10, <1>11 DEF WellLaidOut

-----------------------------------------------------------------------------
(* What the first word of a line is, and what comes after it.              *)
Says(line, label, rest) ==
    line.text # << >> /\ Head(line.text) = label /\ Tail(line.text) = rest

LEMMA FieldsSay ==
    ASSUME NEW z, NEW label, NEW x
    PROVE  x \in Fields(z, label) <=> \E k \in DOMAIN z : Says(z[k], label, x)
  <1>1. ASSUME x \in Fields(z, label) PROVE \E k \in DOMAIN z : Says(z[k], label, x)
    BY <1>1 DEF Fields, Says, Range
  <1>2. ASSUME NEW k \in DOMAIN z, Says(z[k], label, x) PROVE x \in Fields(z, label)
    BY <1>2 DEF Fields, Says, Range
  <1> QED BY <1>1, <1>2

(* The words of a dump.                                                    *)
IsWorded(a, r) ==
    /\ Says(a[1], "", r[1]) /\ Says(a[2], "name =", r[2]) /\ Says(a[3], "type =", r[3])
    /\ Says(a[4], "return_type =", r[4]) /\ Says(a[6], "body =", r[6])
    /\ Says(a[7], "value =", r[7]) /\ Says(a[8], "type =", r[8])
    /\ a[5].text = << >> /\ a[9].text = << >> /\ a[10].text = << >>

ShowsFields(z, n, r) ==
    /\ Fields(z, "name =") = {r[2]} /\ Fields(z, "return_type =") = {r[4]}
    /\ Fields(z, "value =") = {r[7]}
    /\ Fields(z, "type =") = IF n = 10 THEN {r[3], r[8]} ELSE {r[3]}

LEMMA FieldsAre ==
    ASSUME NEW n \in {9, 10}, NEW a, NEW z, NEW r, IsDump(z, n, a), IsWorded(a, r)
    PROVE  ShowsFields(z, n, r)
  <1>1. /\ DOMAIN z = 1 .. n
        /\ z[1] = a[1] /\ z[2] = a[2] /\ z[3] = a[3] /\ z[4] = a[4] /\ z[5] = a[5]
        /\ z[6] = a[6] /\ z[7] = a[7] /\ z[n - 1] = a[9] /\ z[n] = a[10]
        /\ n = 10 => z[8] = a[8]
    BY DEF IsDump
  <1>0. \A k \in 1 .. n : \/ k = 1 \/ k = 2 \/ k = 3 \/ k = 4 \/ k = 5 \/ k = 6 \/ k = 7
                          \/ k = n - 1 \/ k = n \/ (k = 8 /\ n = 10)
    OBVIOUS
  <1>2. ASSUME NEW label \in {"name =", "return_type =", "value =", "type ="}, NEW x,
               NEW k \in DOMAIN z, Says(z[k], label, x)
        PROVE  \/ label = "name =" /\ x = r[2]
               \/ label = "return_type =" /\ x = r[4]
               \/ label = "value =" /\ x = r[7]
               \/ label = "type =" /\ x = r[3]
               \/ label = "type =" /\ x = r[8] /\ n = 10
    <2>1. \/ k = 1 \/ k = 2 \/ k = 3 \/ k = 4 \/ k = 5 \/ k = 6 \/ k = 7
          \/ k = n - 1 \/ k = n \/ (k = 8 /\ n = 10)
      BY <1>1, <1>0
    <2>2. z[k].text # << >> /\ Head(z[k].text) = label /\ Tail(z[k].text) = x
      BY <1>2 DEF Says
    <2>3. CASE k \in {1, 5, 6, n - 1, n}
      BY <1>1, <2>2, <2>3 DEF IsWorded, Says
    <2>4. CASE k = 2
      BY <1>1, <2>2, <2>4 DEF IsWorded, Says
    <2>5. CASE k = 3
      BY <1>1, <2>2, <2>5 DEF IsWorded, Says
    <2>6. CASE k = 4
      BY <1>1, <2>2, <2>6 DEF IsWorded, Says
    <2>7. CASE k = 7
      BY <1>1, <2>2, <2>7 DEF IsWorded, Says
    <2>8. CASE k = 8 /\ n = 10
      BY <1>1, <2>2, <2>8 DEF IsWorded, Says
    <2> QED BY <2>1, <2>3, <2>4, <2>5, <2>6, <2>7, <2>8
  <1>3. /\ Says(z[2], "name =", r[2]) /\ Says(z[3], "type =", r[3])
        /\ Says(z[4], "return_type =", r[4]) /\ Says(z[7], "value =", r[7])
        /\ n = 10 => Says(z[8], "type =", r[8])
    BY <1>1 DEF IsWorded
  <1>4. {2, 3, 4, 7} \subseteq DOMAIN z /\ (n = 10 => 8 \in DOMAIN z)
    BY <1>1
  <1>5. Fields(z, "name =") = {r[2]}
    <2>1. ASSUME NEW x \in Fields(z, "name =") PROVE x = r[2]
      <3>1. PICK k \in DOMAIN z : Says(z[k], "name =", x)
        BY <2>1, FieldsSay
      <3> QED BY <1>2, <3>1
    <2>2. r[2] \in Fields(z, "name =")
      BY <1>3, <1>4, FieldsSay
    <2> QED BY <2>1, <2>2
  <1>6. Fields(z, "return_type =") = {r[4]}
    <2>1. ASSUME NEW x \in Fields(z, "return_type =") PROVE x = r[4]
      <3>1. PICK k \in DOMAIN z : Says(z[k], "return_type =", x)
        BY <2>1, FieldsSay
      <3> QED BY <1>2, <3>1
    <2>2. r[4] \in Fields(z, "return_type =")
      BY <1>3, <1>4, FieldsSay
    <2> QED BY <2>1, <2>2
  <1>7. Fields(z, "value =") = {r[7]}
    <2>1. ASSUME NEW x \in Fields(z, "value =") PROVE x = r[7]
      <3>1. PICK k \in DOMAIN z : Says(z[k], "value =", x)
        BY <2>1, FieldsSay
      <3> QED BY <1>2, <3>1
    <2>2. r[7] \in Fields(z, "value =")
      BY <1>3, <1>4, FieldsSay
    <2> QED BY <2>1, <2>2
  <1>8. Fields(z, "type =") = IF n = 10 THEN {r[3], r[8]} ELSE {r[3]}
    <2>1. ASSUME NEW x \in Fields(z, "type =") PROVE x = r[3] \/ (x = r[8] /\ n = 10)
      BY <1>2, <2>1, FieldsSay
    <2>2. r[3] \in Fields(z, "type =")
      BY <1>3, <1>4, FieldsSay
    <2>3. n = 10 => r[8] \in Fields(z, "type =")
      BY <1>3, <1>4, FieldsSay
    <2> QED BY <2>1, <2>2, <2>3
  <1> QED BY <1>5, <1>6, <1>7, <1>8 DEF ShowsFields

LEMMA LineSays ==
    ASSUME NEW S, NEW label \in S, NEW rest \in Seq(S), NEW kind, NEW indent
    PROVE  Says(Line(kind, indent, <<label>> \o rest), label, rest)
  <1>1. PICK one \in Nat, m \in Nat : one = 1 /\ m = Len(rest)
    OBVIOUS
  <1>2. PICK s : s = <<label>> /\ s \in Seq(S) /\ Len(s) = one /\ s[1] = label
    BY <1>1, OneLine
  <1>3. PICK t : t = s \o rest /\ IsCat(t, S, s, rest, one, m)
    BY <1>1, <1>2, CatIs
  <1>4. /\ t \in Seq(S) /\ Len(t) = 1 + m /\ t[1] = label
        /\ \A k \in 1 .. m : t[1 + k] = rest[k]
    BY <1>1, <1>2, <1>3 DEF IsCat
  <1>5. t # << >> /\ Head(t) = label
    BY <1>1, <1>4
  <1>6. Tail(t) = rest
    <2>1. Tail(t) \in Seq(S) /\ Len(Tail(t)) = m /\ \A k \in 1 .. m : Tail(t)[k] = t[k + 1]
      BY <1>1, <1>4, <1>5
    <2>2. \A k \in 1 .. m : Tail(t)[k] = rest[k]
      BY <1>4, <2>1
    <2> QED BY <1>1, <2>1, <2>2, SeqEqual
  <1>7. Line(kind, indent, t).text = t
    BY DEF Line
  <1> QED BY <1>2, <1>3, <1>5, <1>6, <1>7 DEF Says

LEMMA PairSays ==
    ASSUME NEW label, NEW name, NEW kind, NEW indent
    PROVE  Says(Line(kind, indent, <<label, name>>), label, <<name>>)
  <1>1. PICK t : t = <<label, name>>
    OBVIOUS
  <1>2. t # << >> /\ Head(t) = label /\ Tail(t) = <<name>>
    BY <1>1
  <1>3. Line(kind, indent, t).text = t
    BY DEF Line
  <1> QED BY <1>1, <1>2, <1>3 DEF Says

-----------------------------------------------------------------------------
(* The text of an expression that has no type and no value is what was     *)
(* written.                                                                *)
Written(e) == IF e.kind = "Name" THEN <<"NameExpr", e.name>>
              ELSE <<"IntLiteralExpr", NumberOf(e)>>

LEMMA PlusEmpty ==
    ASSUME NEW p, NEW q
    PROVE  <<p, q>> \o << >> = <<p, q>>
  BY SMT

LEMMA PairOf ==
    ASSUME NEW p, NEW q
    PROVE  <<p>> \o <<q>> = <<p, q>>
  <1>a. PICK S : S = {p, q}
    OBVIOUS
  <1>b. PICK one \in Nat : one = 1
    OBVIOUS
  <1>1. S = {p, q} /\ one = 1 /\ p \in S /\ q \in S
    BY <1>a, <1>b
  <1>2. PICK s : s = <<p>> /\ s \in Seq(S) /\ Len(s) = one /\ s[1] = p
    BY <1>1, OneLine
  <1>3. PICK t : t = <<q>> /\ t \in Seq(S) /\ Len(t) = one /\ t[1] = q
    BY <1>1, OneLine
  <1>4. PICK u : u = s \o t /\ IsCat(u, S, s, t, one, one)
    BY <1>2, <1>3, CatIs
  <1>5. u \in Seq(S) /\ Len(u) = 2 /\ u[1] = p /\ u[2] = q
    <2>1. /\ u \in Seq(S) /\ Len(u) = 2
          /\ (\A k \in 1 .. 1 : u[k] = s[k]) /\ (\A k \in 1 .. 1 : u[1 + k] = t[k])
      BY <1>1, <1>4 DEF IsCat
    <2> QED BY <1>2, <1>3, <2>1
  <1>6. PICK v : v = <<p, q>> /\ v \in Seq(S) /\ Len(v) = 2 /\ v[1] = p /\ v[2] = q
    <2>1. <<p, q>> \in Seq(S) /\ Len(<<p, q>>) = 2 /\ <<p, q>>[1] = p /\ <<p, q>>[2] = q
      BY <1>1
    <2> QED BY <2>1
  <1>7. \A i \in 1 .. Len(u) : u[i] = v[i]
    BY <1>5, <1>6
  <1>8. u = v
    BY <1>5, <1>6, <1>7, SeqEqual
  <1> QED BY <1>2, <1>3, <1>4, <1>6, <1>8

LEMMA FourOf ==
    ASSUME NEW p, NEW q, NEW r, NEW s
    PROVE  <<p, q>> \o <<r, s>> = <<p, q, r, s>>
  <1>a. PICK S : S = {p, q, r, s}
    OBVIOUS
  <1>b. PICK two \in Nat : two = 2
    OBVIOUS
  <1>1. S = {p, q, r, s} /\ two = 2
    BY <1>a, <1>b
  <1>2. PICK x : x = <<p, q>> /\ x \in Seq(S) /\ Len(x) = two /\ x[1] = p /\ x[2] = q
    <2>1. <<p, q>> \in Seq(S) /\ Len(<<p, q>>) = 2 /\ <<p, q>>[1] = p /\ <<p, q>>[2] = q
      BY <1>1
    <2> QED BY <1>1, <2>1
  <1>3. PICK y : y = <<r, s>> /\ y \in Seq(S) /\ Len(y) = two /\ y[1] = r /\ y[2] = s
    <2>1. <<r, s>> \in Seq(S) /\ Len(<<r, s>>) = 2 /\ <<r, s>>[1] = r /\ <<r, s>>[2] = s
      BY <1>1
    <2> QED BY <1>1, <2>1
  <1>4. PICK u : u = x \o y /\ IsCat(u, S, x, y, two, two)
    BY <1>2, <1>3, CatIs
  <1>5. u \in Seq(S) /\ Len(u) = 4 /\ u[1] = p /\ u[2] = q /\ u[3] = r /\ u[4] = s
    <2>1. /\ u \in Seq(S) /\ Len(u) = 4
          /\ (\A k \in 1 .. 2 : u[k] = x[k]) /\ (\A k \in 1 .. 2 : u[2 + k] = y[k])
      BY <1>1, <1>4 DEF IsCat
    <2>2. u[1] = x[1] /\ u[2] = x[2] /\ u[2 + 1] = y[1] /\ u[2 + 2] = y[2]
      BY <2>1
    <2> QED BY <1>2, <1>3, <2>1, <2>2
  <1>6. PICK v : /\ v = <<p, q, r, s>> /\ v \in Seq(S) /\ Len(v) = 4
                 /\ v[1] = p /\ v[2] = q /\ v[3] = r /\ v[4] = s
    <2>1. /\ <<p, q, r, s>> \in Seq(S) /\ Len(<<p, q, r, s>>) = 4
          /\ <<p, q, r, s>>[1] = p /\ <<p, q, r, s>>[2] = q
          /\ <<p, q, r, s>>[3] = r /\ <<p, q, r, s>>[4] = s
      BY <1>1
    <2> QED BY <2>1
  <1>7. \A i \in 1 .. Len(u) : u[i] = v[i]
    BY <1>5, <1>6
  <1>8. u = v
    BY <1>5, <1>6, <1>7, SeqEqual
  <1> QED BY <1>2, <1>3, <1>4, <1>6, <1>8

LEMMA NumberIs ==
    ASSUME NEW e, e.kind = "IntLiteral", IsSimple(e), IsInline(e)
    PROVE  NumberText(BigInt_parse(e.digits, e.base)) = <<NumberOf(e)>>
  <1>1. PICK m \in Nat : m = NumberOf(e)
    BY ParseKeeps
  <1>2. BigInt_parse(e.digits, e.base) = 2 * m + 1
    BY <1>1, ParseKeeps DEF IsInline
  <1>3. PICK o \in Nat : o = 2 * m + 1 /\ o % 2 = 1 /\ o \div 2 = m
    BY <1>1
  <1> QED BY <1>1, <1>2, <1>3 DEF NumberText

LEMMA TextIs ==
    ASSUME NEW n, Shown(n) = n, IsSimple(Literal(n)), IsInline(Literal(n)),
           Kind(n) = Literal(n).kind
    PROVE  ExprText(n) = Written(Literal(n)) \o TypeText(n)
  <1>1. PICK e : e = Literal(n)
    OBVIOUS
  <1>2. CASE e.kind = "Name"
    <2>1. ExprText(n) = <<"NameExpr", e.name>> \o TypeText(n)
      BY <1>1, <1>2 DEF ExprText
    <2> QED BY <1>1, <1>2, <2>1 DEF Written
  <1>3. CASE e.kind = "IntLiteral"
    <2>1. ExprText(n) = <<"IntLiteralExpr">> \o NumberText(BigInt_parse(e.digits, e.base))
                                             \o TypeText(n)
      BY <1>1, <1>3 DEF ExprText
    <2>2. NumberText(BigInt_parse(e.digits, e.base)) = <<NumberOf(e)>>
      BY <1>1, <1>3, NumberIs
    <2>3. <<"IntLiteralExpr">> \o <<NumberOf(e)>> = <<"IntLiteralExpr", NumberOf(e)>>
      BY PairOf
    <2> QED BY <1>1, <1>3, <2>1, <2>2, <2>3 DEF Written
  <1> QED BY <1>1, <1>2, <1>3 DEF IsSimple

-----------------------------------------------------------------------------
(* The ten lines of a dump, the last but two of them that of the type of   *)
(* the body.                                                               *)
LEMMA TenOf ==
    ASSUME NEW x1, NEW x2, NEW x3, NEW x4, NEW x5, NEW x6, NEW x7, NEW x8, NEW x9, NEW x10,
           NEW a, a = <<x1, x2, x3, x4, x5, x6, x7, x8, x9, x10>>
    PROVE  /\ a \in [1 .. 10 -> {x1, x2, x3, x4, x5, x6, x7, x8, x9, x10}]
           /\ a[1] = x1 /\ a[2] = x2 /\ a[3] = x3 /\ a[4] = x4 /\ a[5] = x5
           /\ a[6] = x6 /\ a[7] = x7 /\ a[8] = x8 /\ a[9] = x9 /\ a[10] = x10
  BY SMT

AreLines(a, name, shown, value) ==
    /\ a[1] = Line("opens", 0, <<"", "FunctionItem">>)
    /\ a[2] = Line("leaf", 1, <<"name =", name>>)
    /\ a[3] = Line("opens", 1, <<"type =", "FunctionTypeExpr">>)
    /\ a[4] = Line("leaf", 2, <<"return_type =">> \o shown)
    /\ a[5] = Line("closes", 1, << >>)
    /\ a[6] = Line("opens", 1, <<"body =", "ReturnExpr">>)
    /\ a[7] = Line("leaf", 2, <<"value =">> \o value)
    /\ a[8] = Line("leaf", 2, <<"type =", "Never">>)
    /\ a[9] = Line("closes", 1, << >>)
    /\ a[10] = Line("closes", 0, << >>)

LEMMA LinesExist ==
    ASSUME NEW name, NEW shown, NEW value
    PROVE  \E S, a : a \in [1 .. 10 -> S] /\ AreLines(a, name, shown, value)
  <1>1. PICK x1, x2, x3, x4, x5 :
           /\ x1 = Line("opens", 0, <<"", "FunctionItem">>)
           /\ x2 = Line("leaf", 1, <<"name =", name>>)
           /\ x3 = Line("opens", 1, <<"type =", "FunctionTypeExpr">>)
           /\ x4 = Line("leaf", 2, <<"return_type =">> \o shown)
           /\ x5 = Line("closes", 1, << >>)
    OBVIOUS
  <1>2. PICK x6, x7, x8, x9, x10 :
           /\ x6 = Line("opens", 1, <<"body =", "ReturnExpr">>)
           /\ x7 = Line("leaf", 2, <<"value =">> \o value)
           /\ x8 = Line("leaf", 2, <<"type =", "Never">>)
           /\ x9 = Line("closes", 1, << >>)
           /\ x10 = Line("closes", 0, << >>)
    OBVIOUS
  <1>3. PICK a : a = <<x1, x2, x3, x4, x5, x6, x7, x8, x9, x10>>
    OBVIOUS
  <1>4. /\ a \in [1 .. 10 -> {x1, x2, x3, x4, x5, x6, x7, x8, x9, x10}]
        /\ a[1] = x1 /\ a[2] = x2 /\ a[3] = x3 /\ a[4] = x4 /\ a[5] = x5
        /\ a[6] = x6 /\ a[7] = x7 /\ a[8] = x8 /\ a[9] = x9 /\ a[10] = x10
    BY <1>3, TenOf
  <1>5. AreLines(a, name, shown, value)
    BY <1>1, <1>2, <1>4 DEF AreLines
  <1> QED BY <1>4, <1>5

LEMMA LineHas ==
    ASSUME NEW kind, NEW indent, NEW text
    PROVE  /\ Line(kind, indent, text).kind = kind /\ Line(kind, indent, text).indent = indent
           /\ Line(kind, indent, text).text = text
  BY DEF Line

LEMMA LinesLaidOut ==
    ASSUME NEW a, NEW name, NEW shown, NEW value, AreLines(a, name, shown, value)
    PROVE  IsLayout(a)
  <1>1. /\ a[1].kind = "opens" /\ a[1].indent = 0 /\ a[2].kind = "leaf" /\ a[2].indent = 1
        /\ a[3].kind = "opens" /\ a[3].indent = 1 /\ a[4].kind = "leaf" /\ a[4].indent = 2
        /\ a[5].kind = "closes" /\ a[5].indent = 1 /\ a[6].kind = "opens" /\ a[6].indent = 1
        /\ a[7].kind = "leaf" /\ a[7].indent = 2 /\ a[8].kind = "leaf" /\ a[8].indent = 2
        /\ a[9].kind = "closes" /\ a[9].indent = 1 /\ a[10].kind = "closes"
        /\ a[10].indent = 0
    <2> DEFINE L(k, kind, indent) == a[k].kind = kind /\ a[k].indent = indent
    <2>1. /\ L(1, "opens", 0) /\ L(2, "leaf", 1) /\ L(3, "opens", 1) /\ L(4, "leaf", 2)
          /\ L(5, "closes", 1) /\ L(6, "opens", 1) /\ L(7, "leaf", 2) /\ L(8, "leaf", 2)
          /\ L(9, "closes", 1) /\ L(10, "closes", 0)
      <3>1. ASSUME NEW k, NEW kind, NEW indent, NEW text, a[k] = Line(kind, indent, text)
            PROVE  L(k, kind, indent)
        <4>1. PICK l : l = Line(kind, indent, text) /\ l.kind = kind /\ l.indent = indent
          BY LineHas
        <4> QED BY <3>1, <4>1
      <3> HIDE DEF L
      <3> QED BY <3>1, Zenon DEF AreLines
    <2> QED BY <2>1
  <1> QED BY <1>1 DEF IsLayout

LEMMA LinesClose ==
    ASSUME NEW a, NEW name, NEW shown, NEW value, AreLines(a, name, shown, value)
    PROVE  a[5].text = << >> /\ a[9].text = << >> /\ a[10].text = << >>
  <1>e. PICK none, c, one, zero : none = << >> /\ c = "closes" /\ one = 1 /\ zero = 0
    OBVIOUS
  <1>1. /\ a[5] = Line(c, one, none) /\ a[9] = Line(c, one, none)
        /\ a[10] = Line(c, zero, none)
    BY <1>e DEF AreLines
  <1>2. ASSUME NEW l, NEW k, NEW i, NEW t, l = Line(k, i, t) PROVE l.text = t
    BY <1>2, LineHas
  <1>3. a[5].text = none /\ a[9].text = none /\ a[10].text = none
    BY <1>1, <1>2
  <1> QED BY <1>3, <1>e

LEMMA LinesSay ==
    ASSUME NEW a, NEW name, NEW shown, NEW value, AreLines(a, name, shown, value),
           NEW S, NEW T, shown \in Seq(S), value \in Seq(T), "return_type =" \in S, "value =" \in T
    PROVE  IsWorded(a, <<<<"FunctionItem">>, <<name>>, <<"FunctionTypeExpr">>, shown, 0,
                         <<"ReturnExpr">>, value, <<"Never">>>>)
  <1>1. PICK r : r = <<<<"FunctionItem">>, <<name>>, <<"FunctionTypeExpr">>, shown, 0,
                       <<"ReturnExpr">>, value, <<"Never">>>>
    OBVIOUS
  <1>2. /\ r[1] = <<"FunctionItem">> /\ r[2] = <<name>> /\ r[3] = <<"FunctionTypeExpr">>
        /\ r[4] = shown /\ r[6] = <<"ReturnExpr">> /\ r[7] = value /\ r[8] = <<"Never">>
    BY <1>1
  <1>3. /\ Says(a[1], "", r[1]) /\ Says(a[2], "name =", r[2]) /\ Says(a[3], "type =", r[3])
        /\ Says(a[6], "body =", r[6]) /\ Says(a[8], "type =", r[8])
    BY <1>2, PairSays DEF AreLines
  <1>4. Says(a[4], "return_type =", r[4])
    BY <1>2, LineSays DEF AreLines
  <1>5. Says(a[7], "value =", r[7])
    BY <1>2, LineSays DEF AreLines
  <1>6. a[5].text = << >> /\ a[9].text = << >> /\ a[10].text = << >>
    BY LinesClose
  <1> QED BY <1>1, <1>3, <1>4, <1>5, <1>6 DEF IsWorded

-----------------------------------------------------------------------------
(* What a dump shows of an item.                                           *)
Shows(z, name, shown, value, typed) ==
    /\ WellLaidOut(z)
    /\ Fields(z, "name =") = {<<name>>} /\ Fields(z, "return_type =") = {shown}
    /\ Fields(z, "value =") = {value}
    /\ Fields(z, "type =") = IF typed THEN {<<"FunctionTypeExpr">>, NeverType}
                             ELSE {<<"FunctionTypeExpr">>}

LEMMA LinesShow ==
    ASSUME NEW n \in {9, 10}, NEW a, NEW z, IsDump(z, n, a),
           NEW name, NEW shown, NEW value, AreLines(a, name, shown, value),
           NEW S, NEW T, shown \in Seq(S), value \in Seq(T), "return_type =" \in S, "value =" \in T
    PROVE  Shows(z, name, shown, value, n = 10)
  <1>1. WellLaidOut(z)
    BY LinesLaidOut, LaidOut
  <1>2. PICK r : /\ r = <<<<"FunctionItem">>, <<name>>, <<"FunctionTypeExpr">>, shown, 0,
                          <<"ReturnExpr">>, value, <<"Never">>>>
                 /\ IsWorded(a, r)
    BY LinesSay
  <1>3. r[2] = <<name>> /\ r[3] = <<"FunctionTypeExpr">> /\ r[4] = shown
        /\ r[7] = value /\ r[8] = NeverType
    BY <1>2 DEF NeverType
  <1>4. ShowsFields(z, n, r)
    BY <1>2, FieldsAre
  <1> QED BY <1>1, <1>3, <1>4 DEF ShowsFields, Shows

LEMMA OnePlusEmpty ==
    ASSUME NEW p
    PROVE  <<p>> \o << >> = <<p>>
  BY SMT

LEMMA LastLines ==
    ASSUME NEW S, NEW p \in S, NEW q \in S, NEW n \in {9, 10}, NEW last,
           last = <<p>> \o (IF n = 9 THEN << >> ELSE <<q>>)
    PROVE  last \in Seq(S) /\ Len(last) = n - 8 /\ last[1] = p /\ (n = 10 => last[2] = q)
  <1>1. CASE n = 9
    <2>1. last = <<p>>
      BY <1>1, OnePlusEmpty
    <2>2. <<p>> \in Seq(S) /\ Len(<<p>>) = 1 /\ <<p>>[1] = p
      BY OneLine
    <2> QED BY <1>1, <2>1, <2>2
  <1>2. CASE n = 10
    <2>1. last = <<p, q>>
      <3>1. last = <<p>> \o <<q>>
        BY <1>2
      <3> QED BY <3>1, PairOf
    <2>2. <<p, q>> \in Seq(S) /\ Len(<<p, q>>) = 2 /\ <<p, q>>[1] = p /\ <<p, q>>[2] = q
      BY SMT
    <2> QED BY <1>2, <2>1, <2>2
  <1> QED BY <1>1, <1>2

LEMMA ItemLines ==
    ASSUME NEW n \in {9, 10}, NEW S, NEW a \in [1 .. 10 -> S],
           AreLines(a, item.name, ExprText("return_expr"), ExprText("value")),
           type["item_type"] = NULL, n = 9 <=> type["body"] = NULL,
           type["body"] # NULL => type["body"] = NeverType
    PROVE  IsDump(FunctionItem, n, a)
  <1>1. PICK two : two = 2 /\ two = 1 + 1 /\ 0 + 1 = 1
    OBVIOUS
  <1>2. Child("item_type") = "return_expr" /\ Child("body") = "value"
    BY DEF Child
  <1>3. PICK s, t : s = ExprText("return_expr") /\ t = ExprText("value")
    OBVIOUS
  <1>4. /\ Field(two, "return_type =", "return_expr") = <<a[4]>>
        /\ Field(two, "value =", "value") = <<a[7]>>
    BY <1>1 DEF Field, AreLines
  <1>5. TypeLine(two, "item_type") = << >>
    BY DEF TypeLine
  <1>6. TypeLine(two, "body") = IF n = 9 THEN << >> ELSE <<a[8]>>
    <2>1. CASE n = 9
      BY <2>1 DEF TypeLine
    <2>2. CASE n = 10
      <3>1. PICK b : b = type["body"] /\ b # NULL /\ b[1] = "Never"
        BY <2>2 DEF NeverType
      <3>2. TypeText("body") = <<"type =", "Never">>
        <4>1. TypeText("body") = <<"type =", b[1]>>
          BY <3>1 DEF TypeText
        <4> QED BY <3>1, <4>1
      <3>3. TypeLine(two, "body") = <<Line("leaf", two, TypeText("body"))>>
        BY <2>2 DEF TypeLine
      <3>4. a[8] = Line("leaf", two, <<"type =", "Never">>)
        BY <1>1 DEF AreLines
      <3>5. TypeLine(two, "body") = <<a[8]>>
        BY <3>2, <3>3, <3>4
      <3> QED BY <2>2, <3>5
    <2> QED BY <2>1, <2>2
  <1>7. /\ a[1] \in S /\ a[2] \in S /\ a[3] \in S /\ a[4] \in S /\ a[5] \in S /\ a[6] \in S
        /\ a[7] \in S /\ a[8] \in S /\ a[9] \in S /\ a[10] \in S
    OBVIOUS
  <1>8. PICK last :
           /\ last = <<a[7]>> \o (IF n = 9 THEN << >> ELSE <<a[8]>>) /\ last \in Seq(S)
           /\ Len(last) = n - 8 /\ last[1] = a[7] /\ (n = 10 => last[2] = a[8])
    <2>1. PICK last : last = <<a[7]>> \o (IF n = 9 THEN << >> ELSE <<a[8]>>)
      OBVIOUS
    <2>2. PICK p, q : p = a[7] /\ q = a[8] /\ p \in S /\ q \in S
      BY <1>7
    <2>3. last = <<p>> \o (IF n = 9 THEN << >> ELSE <<q>>)
      BY <2>1, <2>2
    <2>4. last \in Seq(S) /\ Len(last) = n - 8 /\ last[1] = p /\ (n = 10 => last[2] = q)
      BY <2>2, <2>3, LastLines
    <2> QED BY <2>1, <2>2, <2>4
  <1>9. ReturnExpr(1, "body") = <<a[6]>> \o last \o <<a[9]>>
    <2>1. ReturnExpr(1, "body") = <<Line("opens", 1, <<"body =", "ReturnExpr">>)>>
              \o (Field(two, "value =", "value") \o TypeLine(two, "body"))
              \o <<Line("closes", 1, << >>)>>
      BY <1>1, <1>2 DEF ReturnExpr, Node
    <2>2. Field(two, "value =", "value") \o TypeLine(two, "body") = last
      BY <1>4, <1>6, <1>8
    <2>3. /\ a[6] = Line("opens", 1, <<"body =", "ReturnExpr">>)
          /\ a[9] = Line("closes", 1, << >>)
      BY DEF AreLines
    <2> QED BY <2>1, <2>2, <2>3
  <1>10. FunctionTypeExpr(1, "item_type") = <<a[3]>> \o <<a[4]>> \o <<a[5]>>
    <2>1. FunctionTypeExpr(1, "item_type") = <<Line("opens", 1, <<"type =", "FunctionTypeExpr">>)>>
              \o (Field(two, "return_type =", "return_expr") \o TypeLine(two, "item_type"))
              \o <<Line("closes", 1, << >>)>>
      BY <1>1, <1>2 DEF FunctionTypeExpr, Node
    <2>2. Field(two, "return_type =", "return_expr") \o TypeLine(two, "item_type") = <<a[4]>>
      BY <1>4, <1>5, OnePlusEmpty
    <2>3. /\ a[3] = Line("opens", 1, <<"type =", "FunctionTypeExpr">>)
          /\ a[5] = Line("closes", 1, << >>)
      BY DEF AreLines
    <2> QED BY <2>1, <2>2, <2>3
  <1>11. FunctionItem = <<a[1]>> \o (<<a[2]>> \o (<<a[3]>> \o <<a[4]>> \o <<a[5]>>)
                                             \o (<<a[6]>> \o last \o <<a[9]>>)) \o <<a[10]>>
    <2>1. FunctionItem = <<Line("opens", 0, <<"", "FunctionItem">>)>>
              \o (<<Line("leaf", 1, <<"name =", item.name>>)>>
                    \o FunctionTypeExpr(1, "item_type") \o ReturnExpr(1, "body"))
              \o <<Line("closes", 0, << >>)>>
      BY DEF FunctionItem, Node
    <2>2. /\ a[1] = Line("opens", 0, <<"", "FunctionItem">>)
          /\ a[2] = Line("leaf", 1, <<"name =", item.name>>)
          /\ a[10] = Line("closes", 0, << >>)
      BY DEF AreLines
    <2> QED BY <1>9, <1>10, <2>1, <2>2
  <1> QED BY <1>8, <1>11, DumpIs

LEMMA NineOrTen ==
    ASSUME NEW b
    PROVE  \E n \in {9, 10} : (n = 9 <=> b = NULL) /\ (n = 10 <=> b # NULL)
  <1>1. CASE b = NULL
    BY <1>1
  <1>2. CASE b # NULL
    BY <1>2
  <1> QED BY <1>1, <1>2

LEMMA DumpShows ==
    ASSUME NEW S, NEW T, ExprText("return_expr") \in Seq(S), ExprText("value") \in Seq(T),
           "return_type =" \in S, "value =" \in T,
           type["item_type"] = NULL, type["body"] # NULL => type["body"] = NeverType
    PROVE  Shows(FunctionItem, item.name, ExprText("return_expr"), ExprText("value"),
                 type["body"] # NULL)
  <1>1. PICK n \in {9, 10} : (n = 9 <=> type["body"] = NULL) /\ (n = 10 <=> type["body"] # NULL)
    BY NineOrTen
  <1>2. PICK Q, a : /\ a \in [1 .. 10 -> Q]
                    /\ AreLines(a, item.name, ExprText("return_expr"), ExprText("value"))
    BY LinesExist
  <1>3. IsDump(FunctionItem, n, a)
    BY <1>1, <1>2, ItemLines
  <1>4. Shows(FunctionItem, item.name, ExprText("return_expr"), ExprText("value"), n = 10)
    BY <1>2, <1>3, LinesShow
  <1>5. n = 10 <=> type["body"] # NULL
    BY <1>1
  <1> QED BY <1>4, <1>5 DEF Shows

-----------------------------------------------------------------------------
LEMMA WordsOf ==
    ASSUME NEW e, NEW label
    PROVE  \E S : Written(e) \in Seq(S) /\ label \in S
  <1>1. CASE e.kind = "Name"
    <2>1. PICK S : S = {label, "NameExpr", e.name}
      OBVIOUS
    <2>2. <<"NameExpr", e.name>> \in Seq(S)
      BY <2>1
    <2> QED BY <1>1, <2>1, <2>2 DEF Written
  <1>2. CASE e.kind # "Name"
    <2>1. PICK S : S = {label, "IntLiteralExpr", NumberOf(e)}
      OBVIOUS
    <2>2. <<"IntLiteralExpr", NumberOf(e)>> \in Seq(S)
      BY <2>1
    <2> QED BY <1>2, <2>1, <2>2 DEF Written
  <1> QED BY <1>1, <1>2

LEMMA KindsOfExprs ==
    ASSUME IsSimple(item.return_type), IsSimple(item.value)
    PROVE  /\ Kind("return_expr") = item.return_type.kind /\ Kind("value") = item.value.kind
           /\ Literal("return_expr") = item.return_type /\ Literal("value") = item.value
           /\ Kind("prelude") = "SimpleType"
  BY DEF Kind, Literal

LEMMA WrittenShown ==
    ASSUME Unevaluated, IsSimple(item.return_type), IsSimple(item.value),
           IsInline(item.return_type), IsInline(item.value)
    PROVE  WellLaidOut(FunctionItem) /\ ShowsWritten(FunctionItem)
  <1>1. /\ type["item_type"] = NULL /\ type["body"] = NULL
        /\ type["return_expr"] = NULL /\ type["value"] = NULL
        /\ const_eval["return_expr"] = NULL /\ const_eval["value"] = NULL
    BY DEF Unevaluated, Nodes
  <1>2. Shown("return_expr") = "return_expr" /\ Shown("value") = "value"
    BY <1>1 DEF Shown
  <1>3. TypeText("return_expr") = << >> /\ TypeText("value") = << >>
    BY <1>1 DEF TypeText
  <1>4. \A e : Written(e) \o << >> = Written(e)
    <2> TAKE e
    <2>1. PICK p, q : Written(e) = <<p, q>>
      BY DEF Written
    <2> QED BY <2>1, PlusEmpty
  <1>5. ExprText("return_expr") = Written(item.return_type)
    BY <1>2, <1>3, <1>4, KindsOfExprs, TextIs
  <1>6. ExprText("value") = Written(item.value)
    BY <1>2, <1>3, <1>4, KindsOfExprs, TextIs
  <1>7. PICK S : Written(item.return_type) \in Seq(S) /\ "return_type =" \in S
    BY WordsOf
  <1>8. PICK T : Written(item.value) \in Seq(T) /\ "value =" \in T
    BY WordsOf
  <1>9. Shows(FunctionItem, item.name, ExprText("return_expr"), ExprText("value"),
              type["body"] # NULL)
    BY <1>1, <1>5, <1>6, <1>7, <1>8, DumpShows
  <1> QED BY <1>1, <1>5, <1>6, <1>9 DEF Shows, ShowsWritten, Written

LEMMA FourWords ==
    ASSUME NEW T, NEW p \in T, NEW q \in T, NEW r \in T, NEW s \in T
    PROVE  <<p, q, r, s>> \in Seq(T)
  BY SMT

LEMMA TypesShown ==
    ASSUME Answers, Filled, Accepted, type["body"] # NULL, const_eval["return_expr"] # NULL,
           IsSimple(item.return_type), IsSimple(item.value), IsInline(item.value)
    PROVE  WellLaidOut(FunctionItem) /\ ShowsTypes(FunctionItem)
  <1>1. NamesInt32 /\ HasType(item.value, Int32) /\ item.value.kind = "IntLiteral"
    BY TypesDiffer DEF Accepted, HasType
  <1>2. const_eval["return_expr"] = "prelude"
    BY <1>1 DEF Answers, NamesInt32
  <1>3. ExprText("return_expr") = <<"Int32Expr()">>
    BY <1>2, KindsOfExprs DEF ExprText, Shown
  <1>4. const_eval["value"] = NULL /\ type["item_type"] = NULL /\ type["body"] = NeverType
        /\ type["value"] # NULL
    BY DEF Filled
  <1>5. type["value"] = Int32
    BY <1>1, <1>4 DEF Answers, HasType
  <1>6. TypeText("value") = <<"type =", "Int32">>
    <2>1. PICK t : t = type["value"] /\ t # NULL /\ t[1] = "Int32"
      BY <1>4, <1>5 DEF Int32
    <2>2. TypeText("value") = <<"type =", t[1]>>
      BY <2>1 DEF TypeText
    <2> QED BY <2>1, <2>2
  <1>7. ExprText("value") = <<"IntLiteralExpr", NumberOf(item.value), "type =", "Int32">>
    <2>1. Shown("value") = "value"
      BY <1>4 DEF Shown
    <2>2. ExprText("value") = Written(item.value) \o TypeText("value")
      BY <2>1, KindsOfExprs, TextIs
    <2>3. Written(item.value) = <<"IntLiteralExpr", NumberOf(item.value)>>
      BY <1>1 DEF Written
    <2> QED BY <1>6, <2>2, <2>3, FourOf
  <1>8. PICK S : S = {"return_type =", "Int32Expr()"}
    OBVIOUS
  <1>9. PICK T : T = {"value =", "IntLiteralExpr", NumberOf(item.value), "type =", "Int32"}
    OBVIOUS
  <1>10. ExprText("return_expr") \in Seq(S) /\ "return_type =" \in S
    <2>1. PICK w : w = "Int32Expr()" /\ w \in S
      BY <1>8
    <2>2. <<w>> \in Seq(S)
      BY <2>1, OneLine
    <2> QED BY <1>3, <1>8, <2>1, <2>2
  <1>11. ExprText("value") \in Seq(T) /\ "value =" \in T
    <2>1. PICK p, q, r, s : /\ p = "IntLiteralExpr" /\ q = NumberOf(item.value)
                            /\ r = "type =" /\ s = "Int32"
      OBVIOUS
    <2>2. p \in T /\ q \in T /\ r \in T /\ s \in T
      BY <1>9, <2>1
    <2>3. <<p, q, r, s>> \in Seq(T)
      BY <2>2, FourWords
    <2> QED BY <1>7, <1>9, <2>1, <2>3
  <1>12. Shows(FunctionItem, item.name, ExprText("return_expr"), ExprText("value"),
               type["body"] # NULL)
    BY <1>4, <1>10, <1>11, DumpShows
  <1>13. Denotes(item.return_type, Int32)
    BY <1>1 DEF NamesInt32, Denotes
  <1> QED BY <1>1, <1>3, <1>7, <1>12, <1>13 DEF Shows, ShowsTypes

LEMMA DumpIsTrue == PInv /\ FInv => DumpTrue
  <1> SUFFICES ASSUME PInv, FInv, pc = "item_dumped",
                      IsInline(item.return_type), IsInline(item.value)
               PROVE  /\ WellLaidOut(printed)
                      /\ IF command = "parse" THEN ShowsWritten(printed) ELSE ShowsTypes(printed)
    BY DEF DumpTrue
  <1>1. /\ parse_pc = "done" /\ parse_result.kind = "Success" /\ item = ParsedItem
        /\ printed = FunctionItem
        /\ IF command = "parse" THEN Unevaluated
           ELSE /\ Answers /\ Filled /\ Accepted /\ type["body"] # NULL
                /\ const_eval["return_expr"] # NULL
    BY DEF FInv
  <1>2. IsSimple(item.return_type) /\ IsSimple(item.value)
    BY <1>1, ParsedItemSimple
  <1>3. CASE command = "parse"
    BY <1>1, <1>2, <1>3, WrittenShown
  <1>4. CASE command # "parse"
    BY <1>1, <1>2, <1>4, TypesShown
  <1> QED BY <1>3, <1>4

(* What parse and check print is laid out as the nodes are nested, shows   *)
(* the name and the literals that are written and, after check, the types  *)
(* that the rules give, for every literal that BigInt holds inline.        *)
THEOREM DumpsAreTrue == FrontendSpec => []DumpTrue
  BY DumpIsTrue, FInvHolds, PTL

-----------------------------------------------------------------------------
LEMMA KInvFrontend ==
    ASSUME FInv, KInv, [FrontendNext]_all_vars
    PROVE  KInv'
  <1>1. CASE Parse \/ UNCHANGED all_vars
    <2>1. UNCHANGED vars
      BY <1>1 DEF Parse, all_vars
    <2> QED BY <2>1, KInvSame DEF vars
  <1>2. CASE DumpParsed \/ StartCheck \/ ReportParse \/ DumpChecked
    <2>1. /\ pc \in {"parse", "checked"} /\ UNCHANGED output
          /\ pc' \in {"dump_item", "const_eval", "syntax_reported"}
      BY <1>2 DEF DumpParsed, StartCheck, ReportParse, DumpChecked, Parsed
    <2> QED BY <2>1 DEF KInv, Coding, output
  <1>3. CASE Check
    <2>1. Next /\ pc \in CheckSteps
      BY <1>3, NextInCheck DEF Check, FInv
    <2>2. CInv
      BY <2>1 DEF FInv
    <2> QED BY <2>1, <2>2, KInvStep
  <1>4. CASE DumpItem
    <2>1. pc = "dump_item" /\ pc' = "item_dumped" /\ UNCHANGED <<code, at>>
      BY <1>4 DEF DumpItem
    <2> QED BY <2>1 DEF KInv, Coding
  <1> QED BY <1>1, <1>2, <1>3, <1>4 DEF FrontendNext

(* From the file to the code: what parse makes of a literal is what the    *)
(* bytecode that do_compile prints pushes.                                 *)
THEOREM LiteralsReachTheCode == FrontendSpec => []LiteralKept
  <1>1. FrontendInit => KInv
    BY KInvStart DEF FrontendInit, Coding
  <1>2. FInv /\ KInv /\ [FrontendNext]_all_vars => KInv'
    BY KInvFrontend
  <1>3. FInv /\ KInv => LiteralKept
    <2> SUFFICES ASSUME FInv, KInv PROVE LiteralKept
      OBVIOUS
    <2>1. pc \in Coding => CInv
      BY NotCheckSteps DEF FInv, Coding, CheckSteps, CompileSteps
    <2> QED BY <2>1, CInvCoding, KInvKeepsLiteral
  <1> QED BY <1>1, <1>2, <1>3, FInvHolds, PTL DEF FrontendSpec
=============================================================================
