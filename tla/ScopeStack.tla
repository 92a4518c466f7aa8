----------------------------- MODULE ScopeStack -----------------------------
(***************************************************************************)
(* What src/sema/decl_map.h promises the type checker: a stack of scopes.  *)
(* A name means what the innermost scope that declares it says, and a      *)
(* scope that is popped takes its declarations with it.  Module DeclMap is *)
(* shown to implement this one.                                            *)
(***************************************************************************)
EXTENDS Naturals, Sequences, FiniteSetsExt

CONSTANTS Names, Decls, NoDecl

VARIABLES scopes,   \* the open scopes, innermost first
          answer    \* the last declaration looked up

vars == <<scopes, answer>>

NoScope == [n \in {} |-> NoDecl]

Declaring(n) == {i \in DOMAIN scopes : n \in DOMAIN scopes[i]}

Lookup(n) == IF Declaring(n) = {} THEN NoDecl
                                  ELSE scopes[Min(Declaring(n))][n]

Init == scopes = <<NoScope>> /\ answer = NoDecl

PushScope == scopes' = <<NoScope>> \o scopes /\ UNCHANGED answer

(* The type checker never pops the scope that holds the prelude.           *)
PopScope == /\ Len(scopes) > 1
            /\ scopes' = Tail(scopes)
            /\ UNCHANGED answer

Declare(n, d) ==
    /\ scopes # << >>
    /\ scopes' = [scopes EXCEPT ![1] =
                    [m \in DOMAIN @ \cup {n} |-> IF m = n THEN d ELSE @[m]]]
    /\ UNCHANGED answer

Get(n) == /\ scopes # << >>
          /\ answer' = Lookup(n)
          /\ UNCHANGED scopes

(* The end of type_check, and the start of another.                        *)
Destroy == scopes' = << >> /\ UNCHANGED answer
Restart == scopes = << >> /\ scopes' = <<NoScope>> /\ UNCHANGED answer

Next == \/ PushScope \/ PopScope \/ Destroy \/ Restart
        \/ \E n \in Names : Get(n) \/ \E d \in Decls : Declare(n, d)

Spec == Init /\ [][Next]_vars
=============================================================================
