------------------------------- MODULE IdMap -------------------------------
(***************************************************************************)
(* What src/support/hash_map.h promises its callers: an append-only map    *)
(* that remembers insertion order.  The n-th distinct key ever set gets    *)
(* ID n, keeps it until the map is reset, and can be found by key or by    *)
(* ID.  There are no buckets, no hash values and no resizing here; module  *)
(* HashMap is shown to implement this module.                              *)
(***************************************************************************)
EXTENDS Naturals, Sequences

CONSTANTS Keys,      \* the keys callers use
          Values,    \* the values callers store
          NoKey,     \* fills the key field of a result that has no key
          NoValue,   \* the NULL value pointer
          HasValue   \* TRUE for HASH_MAP_CONFIG, FALSE for HASH_SET_CONFIG

VARIABLES log,       \* the entries in insertion order; log[id] has that ID
          result     \* the last operation and its answer

vars == <<log, result>>

Answer(op, k, id, v) == [op |-> op, key |-> k, id |-> id, value |-> v]

Pending == Answer("pending", NoKey, 0, NoValue)

(* A set (value_size = 0) stores no values and hands out NULL for them.    *)
Stored(v) == IF HasValue THEN v ELSE NoValue

Init == /\ log = << >>
        /\ result = Answer("init", NoKey, 0, NoValue)

(* A caller has asked for something that is not answered yet.              *)
Ask == result' = Pending /\ UNCHANGED log

(* Setting a key that is present overwrites its value in place.            *)
SetOld(k, v) ==
    \E id \in DOMAIN log :
        /\ log[id].key = k
        /\ log' = IF HasValue THEN [log EXCEPT ![id].value = v] ELSE log
        /\ result' = Answer("set", k, id, NoValue)

(* Setting a new key appends it under the next ID.                         *)
SetNew(k, v) ==
    /\ \A id \in DOMAIN log : log[id].key # k
    /\ log' = Append(log, [key |-> k, value |-> Stored(v)])
    /\ result' = Answer("set", k, Len(log) + 1, NoValue)

GetPresent(k) ==
    \E id \in DOMAIN log :
        /\ log[id].key = k
        /\ \/ result' = Answer("get_id", k, id, NoValue)
           \/ result' = Answer("get_value", k, 0, Stored(log[id].value))
        /\ UNCHANGED log

GetAbsent(k) ==
    /\ \A id \in DOMAIN log : log[id].key # k
    /\ \/ result' = Answer("get_id", k, 0, NoValue)
       \/ result' = Answer("get_value", k, 0, NoValue)
    /\ UNCHANGED log

GetById(id) ==
    /\ id \in DOMAIN log
    /\ result' = Answer("get_entry_by_id", log[id].key, id, Stored(log[id].value))
    /\ UNCHANGED log

Reset == /\ log' = << >>
         /\ result' = Answer("reset", NoKey, 0, NoValue)

Next == \/ Ask
        \/ \E k \in Keys, v \in Values : SetOld(k, v) \/ SetNew(k, v)
        \/ \E k \in Keys : GetPresent(k) \/ GetAbsent(k)
        \/ \E id \in DOMAIN log : GetById(id)
        \/ Reset

Spec == Init /\ [][Next]_vars
=============================================================================
