----------------------------- MODULE MCDeclMap -----------------------------
(* A finite instance of DeclMap.                                           *)
EXTENDS DeclMap, TLC

(* Node addresses are only compared with each other and with NULL.         *)
AddressSymmetry == Permutations(Nodes)
=============================================================================
