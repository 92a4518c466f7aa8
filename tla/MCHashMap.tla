----------------------------- MODULE MCHashMap -----------------------------
(* Finite instances of HashMap.  The hash functions make keys collide on   *)
(* equal hashes, on equal homes after the modulus, and across the end of   *)
(* the bucket array.                                                       *)
EXTENDS HashMap

CONSTANTS v1, v2, k1, k2, k3, k4, k5, k6

(* Homes in 4 buckets: 3 3 3 0 2 2; in 8: 3 7 7 0 6 6; in 16: 11 15 15 0 6 14 *)
MCHash == [k \in Keys |-> CASE k = k1 -> 11 [] k = k2 -> 15 [] k = k3 -> 15
                            [] k = k4 -> 16 [] k = k5 -> 6  [] OTHER -> 14]

(* Which steps the run takes, to keep six keys affordable: only k1 gets    *)
(* the second value, and a reset comes when three keys have grown both     *)
(* arrays, any number of times.                                            *)
Affordable == /\ call'.op = "set" => (call'.value = v1 \/ call'.key = k1)
              /\ Reset => entries_count = 3
=============================================================================
