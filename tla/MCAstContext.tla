---------------------------- MODULE MCAstContext ----------------------------
(* Three texts, and memory for three files with names of their own: they   *)
(* fill thirteen blocks, and a file is added only while four are free.     *)
EXTENDS AstContext
ThreeTexts == {"empty", "x", "y"}
FewAddresses == 1 .. 14
=============================================================================
