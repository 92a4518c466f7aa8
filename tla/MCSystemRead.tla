---------------------------- MODULE MCSystemRead ----------------------------
(* The constants of the code, 512 and sizeof(size_t) = 8.                  *)
EXTENDS SystemRead

(* Around the first growths, the cases of a last chunk, and the last sizes *)
(* before 8748, the first capacity that is not a multiple of eight.        *)
SmallSizes == {0, 1, 8, 509, 512, 515, 768, 8744, 8748}

(* One more: its last byte is the first to meet that capacity unaligned.   *)
NextSize == {8749}
=============================================================================
