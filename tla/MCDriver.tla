------------------------------ MODULE MCDriver ------------------------------
(* Every command line of at most MaxArgs words, every outcome of a stage.  *)
EXTENDS Driver
=============================================================================
