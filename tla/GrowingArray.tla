---------------------------- MODULE GrowingArray ----------------------------
(***************************************************************************)
(* ensure_array_capacity of src/support/malloc.c: the capacity an array    *)
(* has after room for extra elements was asked for.  It is 16 at first,    *)
(* and grows by half.                                                      *)
(***************************************************************************)
EXTENDS Naturals

CONSTANT FirstCapacity    \* 16

ASSUME GrowingArrayAssumption == FirstCapacity \in Nat /\ FirstCapacity > 1

(* Slip: an array that is almost full is taken to have room.               *)
EnsuredLate(capacity, size, extra) ==
    LET grown[c \in Nat] == IF c - size >= extra THEN c ELSE grown[c + c \div 2]
    IN IF capacity - size + 1 >= extra /\ capacity > 0 THEN capacity
       ELSE grown[IF capacity = 0 THEN FirstCapacity ELSE capacity]

Ensured(capacity, size, extra) ==
    LET grown[c \in Nat] == IF c - size >= extra THEN c ELSE grown[c + c \div 2]
    IN IF capacity - size >= extra THEN capacity
       ELSE grown[IF capacity = 0 THEN FirstCapacity ELSE capacity]
=============================================================================
