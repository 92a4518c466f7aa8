--------------------------- MODULE HashMapProofs ---------------------------
(***************************************************************************)
(* Theorems about HashMap for every set of keys, every hash function and   *)
(* every table size.  The inductive invariant IInv is the conjunction of   *)
(* what the runs check, plus what a call in progress knows of its          *)
(* arguments; EachIdOnce and LoadFactor leave a free bucket, which is why  *)
(* a probe stops, and NoGapBefore with ProbeSound is why it stops at the   *)
(* right place.                                                            *)
(***************************************************************************)
EXTENDS HashMap, FiniteSetTheorems, SequenceTheorems, TLAPS

(* What is known of the operation in progress.                             *)
CallOK ==
    /\ call.op = "idle" <=> call = Idle
    /\ call # Idle => call.key \in Keys
    /\ call.op = "set" => call.value \in Values
    /\ rehash_id # 0 => call.op = "set"

(* The product of n and the width of a bucket is exact, so that            *)
(* reset_buckets clears all n buckets.                                     *)
ClearsAll(n) == n * Width(n) < UIntMod

(* The bound the callers keep, which keeps 32-bit arithmetic exact.        *)
WithinBound ==
    /\ entries_count <= MaxEntries
    /\ ClearsAll(buckets_count)
    /\ (call.op = "set" /\ rehash_id = 0) => entries_count < MaxEntries

IInv == /\ TypeOK /\ CallOK /\ WithinBound
        /\ DistinctKeys /\ EachIdOnce /\ NoGapBefore /\ ProbeSound /\ LoadFactor

-----------------------------------------------------------------------------
(* Arithmetic of the table sizes.                                          *)

LEMMA ModBound ==
    ASSUME NEW a \in Nat, NEW n \in Nat, n > 0
    PROVE  a % n \in 0 .. n - 1
  BY SMT

(* A cursor that has not moved has passed nothing.                         *)
LEMMA NothingPassed ==
    ASSUME NEW b \in Int
    PROVE  b <= b /\ \A c \in b .. b - 1 : FALSE
  BY SMT

LEMMA ModSmall ==
    ASSUME NEW a \in Nat, NEW n \in Nat, a < n
    PROVE  a % n = a
  BY SMT

LEMMA Half ==
    ASSUME NEW a \in Nat
    PROVE  /\ a \div 2 \in Nat
           /\ 2 * (a \div 2) <= a /\ a < 2 * (a \div 2) + 2
  BY SMT

(* For a multiple of 4 the test of maybe_resize is the exact 75% bound.    *)
LEMMA LoadTest ==
    ASSUME NEW n \in Nat, NEW count \in Nat, n % 4 = 0
    PROVE  /\ FitsLoad(n, count) <=> 3 * n > 4 * count
           /\ (n * 2) % 4 = 0
  BY SMT DEF FitsLoad

(* An ID that is smaller than the number of buckets survives the bucket    *)
(* array's element type.                                                   *)
LEMMA NoTruncation ==
    ASSUME NEW n \in Nat, NEW id \in Nat, id < n, n < UIntMod
    PROVE  id % IdModulus(n) = id
  <1>1. CASE n < U8Max
    BY <1>1, HashMapAssumption, ModSmall, SMT DEF IdModulus
  <1>2. CASE ~(n < U8Max) /\ n < U16Max
    BY <1>2, HashMapAssumption, ModSmall, SMT DEF IdModulus
  <1>3. CASE ~(n < U8Max) /\ ~(n < U16Max)
    BY <1>3, HashMapAssumption, ModSmall, SMT DEF IdModulus
  <1> QED BY <1>1, <1>2, <1>3

(* Doubling the buckets and growing the entries do not overflow.           *)
LEMMA DoublingFits ==
    ASSUME NEW n \in Nat, n \in 4 .. UIntMod - 1, n % 4 = 0,
           NEW count \in Nat, count < MaxEntries,
           ~FitsLoad(n, count + 1)
    PROVE  /\ (n * 2) % UIntMod = n * 2
           /\ n * 2 < UIntMod
           /\ (n * 2) % 4 = 0
           /\ ClearsAll(n * 2)
  <1>1. 3 * n <= 4 * (count + 1)
    BY LoadTest, SMT
  <1>2. n * 2 < UIntMod /\ n * 8 < UIntMod
    BY <1>1, HashMapAssumption, SMT
  <1>3. ClearsAll(n * 2)
    <2> DEFINE m == n * 2
               w == Width(m)
    <2>1. m \in Nat /\ m < UIntMod /\ m * 2 < UIntMod /\ m * 4 < UIntMod
      BY <1>2, HashMapAssumption, SMT
    <2>2. w \in {1, 2, 4}
      BY SMT DEF Width
    <2> HIDE DEF m, w
    <2>3. m * w < UIntMod
      <3>1. CASE w = 1  BY <2>1, <3>1, HashMapAssumption, SMT
      <3>2. CASE w = 2  BY <2>1, <3>2, SMT
      <3>3. CASE w = 4  BY <2>1, <3>3, SMT
      <3> QED BY <2>2, <3>1, <3>2, <3>3
    <2> QED BY <2>3 DEF m, w, ClearsAll
  <1> QED BY <1>2, <1>3, LoadTest, ModSmall, HashMapAssumption, SMT

(* A memset of that many bytes reaches every bucket, and nothing is left   *)
(* of what they held.                                                      *)
LEMMA AllCleared ==
    ASSUME NEW n \in Nat, ClearsAll(n), NEW bs
    PROVE  ResetBuckets(bs, n) = [b \in 0 .. n - 1 |-> 0]
  <1>1. Width(n) \in {1, 2, 4} /\ n * Width(n) \in Nat
    BY SMT DEF Width
  <1>2. BytesCleared(n) = n * Width(n)
    BY <1>1, ModSmall, HashMapAssumption DEF ClearsAll, BytesCleared
  <1>3. \A b \in 0 .. n - 1 : (b + 1) * Width(n) <= n * Width(n)
    <2>1. CASE Width(n) = 1
      BY <2>1, SMT
    <2>2. CASE Width(n) = 2
      BY <2>2, SMT
    <2>3. CASE Width(n) = 4
      BY <2>3, SMT
    <2> QED BY <1>1, <2>1, <2>2, <2>3
  <1>4. Uncleared(n) = {}
    BY <1>1, <1>2, <1>3, SMT DEF Uncleared
  <1> QED BY <1>4 DEF ResetBuckets

LEMMA GrowthFits ==
    ASSUME TypeOK, entries_count < MaxEntries
    PROVE  /\ GrownCapacity \in entries_capacity .. UIntMod - 1
           /\ entries_count + 1 <= GrownCapacity
  <1>1. /\ entries_capacity \in Nat /\ entries_capacity >= 2
        /\ entries_count \in Nat /\ entries_count <= entries_capacity
        /\ entries_capacity < UIntMod
    BY HashMapAssumption, SMT DEF TypeOK
  <1>2. CASE entries_count = entries_capacity
    <2>1. entries_capacity + entries_capacity \div 2 < UIntMod
      BY <1>1, <1>2, Half, HashMapAssumption, SMT
    <2> QED BY <1>1, <1>2, <2>1, Half, ModSmall, HashMapAssumption, SMT
            DEF GrownCapacity
  <1>3. CASE entries_count # entries_capacity
    BY <1>1, <1>3, HashMapAssumption, SMT DEF GrownCapacity
  <1> QED BY <1>2, <1>3

LEMMA HomeInTable ==
    ASSUME NEW k \in Keys, NEW n \in Nat, n > 0
    PROVE  Home(k, n) \in 0 .. n - 1
  BY HashMapAssumption, ModBound DEF Home

-----------------------------------------------------------------------------
(* What get_internal knows at the top of its loop.                         *)

LEMMA CursorFacts ==
    ASSUME IInv, call # Idle
    PROVE  /\ Sought \in Keys
           /\ Home(Sought, buckets_count) \in 0 .. buckets_count - 1
           /\ Rolled \in 0 .. buckets_count - 1
           /\ FoundId \in 0 .. Placed
           /\ Placed \in 0 .. entries_count
           /\ \A c \in Passed(Home(Sought, buckets_count), Rolled) :
                 buckets[c] # 0 /\ entries[buckets[c]].key # Sought
  <1>1. Sought \in Keys
    BY SMT DEF IInv, TypeOK, CallOK, DistinctKeys, Entry, Sought
  <1>2. Home(Sought, buckets_count) \in 0 .. buckets_count - 1
    BY <1>1, HomeInTable, SMT DEF IInv, TypeOK
  <1>3. Rolled \in 0 .. buckets_count - 1
    BY SMT DEF IInv, TypeOK, Rolled
  <1>4. FoundId \in 0 .. Placed
    BY <1>3, SMT DEF IInv, EachIdOnce, FoundId
  <1>5. Placed \in 0 .. entries_count
    BY SMT DEF IInv, TypeOK, Placed
  <1>6. ASSUME NEW c \in Passed(Home(Sought, buckets_count), Rolled)
        PROVE  c \in Passed(Home(Sought, buckets_count), bucket)
    BY <1>2, <1>6, SMT DEF IInv, TypeOK, Passed, Rolled
  <1> QED BY <1>1, <1>2, <1>3, <1>4, <1>5, <1>6 DEF IInv, ProbeSound

(* An empty bucket ends the search: the key has no placed entry.           *)
LEMMA EmptyMeansAbsent ==
    ASSUME IInv, call # Idle, AtEmpty
    PROVE  \A id \in 1 .. Placed : entries[id].key # Sought
  <1> SUFFICES ASSUME NEW id \in 1 .. Placed, entries[id].key = Sought
               PROVE  FALSE
    OBVIOUS
  <1> DEFINE h == Home(Sought, buckets_count)
  <1>1. PICK b \in 0 .. buckets_count - 1 :
            /\ buckets[b] = id
            /\ \A c \in Passed(h, b) : buckets[c] # 0
    BY DEF IInv, NoGapBefore
  <1>2. b # Rolled
    BY <1>1, CursorFacts, SMT DEF AtEmpty, FoundId
  <1>3. b \notin Passed(h, Rolled)
    BY <1>1, CursorFacts
  <1>4. Rolled \notin Passed(h, b)
    BY <1>1 DEF AtEmpty, FoundId
  <1>5. /\ h \in 0 .. buckets_count - 1 /\ Rolled \in 0 .. buckets_count - 1
        /\ buckets_count \in Nat
    BY CursorFacts DEF IInv, TypeOK
  <1> HIDE DEF h
  <1> QED BY <1>1, <1>2, <1>3, <1>4, <1>5, SMT DEF Passed

-----------------------------------------------------------------------------
(* The initial table satisfies the invariant.                              *)

LEMMA InitInv == Init => IInv
  <1> SUFFICES ASSUME Init PROVE IInv
    OBVIOUS
  <1>1. InitialBuckets \in 4 .. UIntMod - 1
    BY HashMapAssumption, SMT
  <1>2. TypeOK
    BY <1>1, HashMapAssumption, SMT
       DEF Init, TypeOK, Idle, Lookups
  <1>3. CallOK /\ WithinBound
    <2>1. ClearsAll(InitialBuckets)
      BY HashMapAssumption, SMT DEF ClearsAll, Width
    <2> QED BY <2>1, HashMapAssumption, SMT DEF Init, CallOK, WithinBound, Idle
  <1>4. DistinctKeys /\ NoGapBefore /\ ProbeSound
    BY SMT DEF Init, DistinctKeys, NoGapBefore, ProbeSound, Placed
  <1>5. EachIdOnce /\ LoadFactor
    BY <1>1, SMT DEF Init, EachIdOnce, LoadFactor, Placed
  <1> QED BY <1>2, <1>3, <1>4, <1>5 DEF IInv

(* Of a call that is over the invariant says nothing: whatever leaves the  *)
(* table alone and returns keeps it.                                       *)
LEMMA ReturnKeepsTable ==
    ASSUME IInv, rehash_id = 0, UNCHANGED table,
           call' = Idle, bucket' = 0, rehash_id' = 0
    PROVE  IInv'
  <1>1. TypeOK' /\ CallOK' /\ WithinBound'
    BY SMT DEF IInv, TypeOK, CallOK, WithinBound, table, Idle, Lookups
  <1>2. DistinctKeys' /\ LoadFactor'
    BY DEF IInv, DistinctKeys, LoadFactor, table
  <1>3. EachIdOnce' /\ NoGapBefore'
    BY DEF IInv, EachIdOnce, NoGapBefore, Placed, Passed, Home, table
  <1>4. ProbeSound'
    BY DEF ProbeSound
  <1> QED BY <1>1, <1>2, <1>3, <1>4 DEF IInv

LEMMA BeginInv ==
    ASSUME IInv, NEW op \in {"set"} \cup Lookups, NEW k \in Keys,
           NEW v \in Values \cup {NoValue},
           op = "set" => v \in Values /\ entries_count < MaxEntries,
           Begin(op, k, v)
    PROVE  IInv'
  <1>1. rehash_id = 0 /\ UNCHANGED <<table, rehash_id>>
    BY DEF IInv, CallOK, Begin, Idle
  <1>2. Home(k, buckets_count) \in 0 .. buckets_count - 1
    BY HomeInTable, SMT DEF IInv, TypeOK
  <1>3. TypeOK'
    BY <1>1, <1>2, SMT DEF IInv, TypeOK, Begin, table, Lookups
  <1>4. CallOK' /\ WithinBound'
    BY <1>1, SMT DEF IInv, CallOK, WithinBound, Begin, table, Lookups, Idle
  <1>5. DistinctKeys' /\ LoadFactor'
    BY <1>1 DEF IInv, DistinctKeys, LoadFactor, table
  <1>6. EachIdOnce' /\ NoGapBefore'
    BY <1>1 DEF IInv, EachIdOnce, NoGapBefore, Placed, Passed, Home, table
  <1>7. ProbeSound'
    BY <1>1, <1>2, SMT DEF ProbeSound, Begin, Sought, Passed, table, IInv, TypeOK, Home
  <1> QED BY <1>3, <1>4, <1>5, <1>6, <1>7 DEF IInv

LEMMA ProbeNextInv ==
    ASSUME IInv, ProbeNext
    PROVE  IInv'
  <1> DEFINE h == Home(Sought, buckets_count)
  <1>1. /\ call # Idle /\ UNCHANGED <<table, call, rehash_id>>
        /\ bucket' = Rolled + 1
    BY DEF ProbeNext
  <1>2. FoundId # 0 /\ entries[FoundId].key # Sought
    BY CursorFacts, <1>1 DEF ProbeNext, AtEmpty, AtMatch
  <1>3. TypeOK' /\ CallOK' /\ WithinBound'
    <2>0. Rolled \in 0 .. buckets_count - 1 /\ buckets_count \in Nat
      BY <1>1, CursorFacts DEF IInv, TypeOK
    <2>1. bucket' \in 0 .. buckets_count
      BY <1>1, <2>0, SMT
    <2>2. TypeOK'
      BY <1>1, <2>1 DEF IInv, TypeOK, table
    <2> QED BY <1>1, <2>2 DEF IInv, CallOK, WithinBound, table
  <1>4. DistinctKeys' /\ LoadFactor'
    BY <1>1 DEF IInv, DistinctKeys, LoadFactor, table
  <1>5. EachIdOnce' /\ NoGapBefore'
    BY <1>1 DEF IInv, EachIdOnce, NoGapBefore, Placed, Passed, Home, table
  <1>6. ProbeSound'
    <2>1. \A c \in Passed(h, Rolled + 1) : c \in Passed(h, Rolled) \/ c = Rolled
      <3>1. h \in Int /\ Rolled \in Int /\ buckets_count \in Int
        BY <1>1, CursorFacts, SMT DEF IInv, TypeOK
      <3> HIDE DEF h
      <3> QED BY <3>1, SMT DEF Passed
    <2>2. \A c \in Passed(h, bucket') : buckets[c] # 0 /\ entries[buckets[c]].key # Sought
      BY <1>1, <1>2, <2>1, CursorFacts DEF FoundId
    <2> QED BY <1>1, <2>2 DEF ProbeSound, Passed, Home, Sought, table
  <1> QED BY <1>3, <1>4, <1>5, <1>6 DEF IInv

LEMMA SetOldInv ==
    ASSUME IInv, SetOld
    PROVE  IInv'
  <1>1. /\ call # Idle /\ call.op = "set" /\ rehash_id = 0 /\ rehash_id' = 0
        /\ call' = Idle /\ bucket' = 0 /\ call.value \in Values
        /\ UNCHANGED <<entries_count, entries_capacity, buckets, buckets_count>>
    BY DEF SetOld, Return, Idle, IInv, CallOK
  <1>2. FoundId \in 1 .. entries_count
    BY <1>1, CursorFacts, SMT DEF SetOld, AtMatch, IInv, TypeOK
  <1>3. /\ entries' \in [1 .. entries_capacity -> Entry \cup {NoEntry}]
        /\ \A id \in 1 .. entries_count :
              entries'[id] \in Entry /\ entries'[id].key = entries[id].key
    <2>1. CASE HasValue
      <3>1. entries' = [entries EXCEPT ![FoundId].value = call.value]
        BY <2>1 DEF SetOld
      <3>2. [entries[FoundId] EXCEPT !.value = call.value] \in Entry
        BY <1>1, <1>2 DEF IInv, DistinctKeys, Entry
      <3>3. [entries[FoundId] EXCEPT !.value = call.value].key = entries[FoundId].key
        BY <1>1, <1>2 DEF IInv, DistinctKeys, Entry
      <3>4. \A id \in 1 .. entries_count : id \in 1 .. entries_capacity
        BY SMT DEF IInv, TypeOK
      <3> QED BY <1>2, <3>1, <3>2, <3>3, <3>4 DEF IInv, TypeOK, DistinctKeys
    <2>2. CASE ~HasValue
      BY <2>2 DEF SetOld, IInv, TypeOK, DistinctKeys
    <2> QED BY <2>1, <2>2
  <1>4. TypeOK'
    BY <1>1, <1>3, SMT DEF IInv, TypeOK, Idle, Lookups
  <1>5. CallOK' /\ WithinBound'
    BY <1>1, SMT DEF IInv, CallOK, WithinBound, Idle
  <1>6. DistinctKeys' /\ LoadFactor'
    BY <1>1, <1>3 DEF IInv, DistinctKeys, LoadFactor
  <1>7. EachIdOnce'
    BY <1>1 DEF IInv, EachIdOnce, Placed
  <1>8. NoGapBefore'
    BY <1>1, <1>3 DEF IInv, NoGapBefore, Placed, Passed, Home
  <1>9. ProbeSound'
    BY <1>1 DEF ProbeSound
  <1> QED BY <1>4, <1>5, <1>6, <1>7, <1>8, <1>9 DEF IInv

(* HashMap_set appends: the new key is distinct, the old entries stay.     *)
LEMMA AppendFacts ==
    ASSUME IInv, AppendEntry
    PROVE  /\ call # Idle /\ rehash_id = 0 /\ call.key \in Keys
           /\ entries_count' = entries_count + 1
           /\ entries_count < MaxEntries
           /\ entries_capacity' \in InitialCapacity .. UIntMod - 1
           /\ entries_count' \in 1 .. entries_capacity'
           /\ entries' \in [1 .. entries_capacity' -> Entry \cup {NoEntry}]
           /\ \A id \in 1 .. entries_count : entries'[id] = entries[id]
           /\ entries'[entries_count + 1]
                 = [key |-> call.key, value |-> Stored(call.value)]
           /\ DistinctKeys'
  <1>1. /\ call # Idle /\ call.op = "set" /\ rehash_id = 0
        /\ call.key \in Keys /\ call.value \in Values
        /\ entries_count < MaxEntries
        /\ entries_capacity' = GrownCapacity
        /\ entries_count' = entries_count + 1
    BY DEF AppendEntry, IInv, CallOK, WithinBound, Idle
  <1>2. /\ entries_capacity' \in entries_capacity .. UIntMod - 1
        /\ entries_count + 1 <= entries_capacity'
    BY <1>1, GrowthFits DEF IInv
  <1>3. /\ entries_count \in Nat /\ entries_capacity \in Nat
        /\ entries_capacity' \in Nat /\ entries_count <= entries_capacity
        /\ entries_capacity' \in InitialCapacity .. UIntMod - 1
        /\ entries_count' \in 1 .. entries_capacity'
    BY <1>1, <1>2, HashMapAssumption, SMT DEF IInv, TypeOK
  <1> DEFINE new == [key |-> call.key, value |-> Stored(call.value)]
  <1>4. new \in Entry
    BY <1>1 DEF Entry, Stored
  <1>5. entries' = [id \in 1 .. entries_capacity' |->
                      IF id = entries_count + 1 THEN new
                      ELSE IF id <= entries_capacity THEN entries[id] ELSE NoEntry]
    BY DEF AppendEntry
  <1> HIDE DEF new
  <1>6. entries' \in [1 .. entries_capacity' -> Entry \cup {NoEntry}]
    BY <1>3, <1>4, <1>5, SMT DEF IInv, TypeOK
  <1>7. /\ \A id \in 1 .. entries_count : entries'[id] = entries[id]
        /\ entries'[entries_count + 1] = new
    BY <1>3, <1>5, <1>1, SMT
  <1>8. \A id \in 1 .. entries_count : entries[id].key # call.key
    <2>1. Placed = entries_count /\ Sought = call.key
      BY <1>1 DEF Placed, Sought
    <2> QED BY <1>1, <2>1, EmptyMeansAbsent DEF AppendEntry
  <1>9. DistinctKeys'
    <2>1. new.key = call.key
      BY DEF new
    <2>2. \A id \in 1 .. entries_count' : id \in 1 .. entries_count \/ id = entries_count + 1
      BY <1>1, <1>3, SMT
    <2> QED BY <1>4, <1>7, <1>8, <2>1, <2>2 DEF IInv, DistinctKeys
  <1> QED BY <1>1, <1>3, <1>6, <1>7, <1>9 DEF new

(* Bucket array bs leads a probe for key k to ID id.                       *)
Leads(bs, id, k) ==
    \E b \in 0 .. buckets_count - 1 :
        /\ bs[b] = id
        /\ \A c \in Passed(Home(k, buckets_count), b) : bs[c] # 0

(* Writing the next ID into the free bucket its probe ended at leads to    *)
(* that ID and breaks the way to no other.                                 *)
LEMMA PlaceFacts ==
    ASSUME IInv, call # Idle, AtEmpty, NEW id0, id0 = Placed + 1,
           id0 < buckets_count,
           buckets' = WithBucketId(buckets, buckets_count, Rolled, id0)
    PROVE  /\ buckets' \in [0 .. buckets_count - 1 -> 0 .. id0]
           /\ \A b1, b2 \in 0 .. buckets_count - 1 :
                 buckets'[b1] = buckets'[b2] /\ buckets'[b1] # 0 => b1 = b2
           /\ \A id \in 1 .. Placed : Leads(buckets', id, entries[id].key)
           /\ Leads(buckets', id0, Sought)
  <1>1. /\ Placed \in 0 .. entries_count /\ entries_count \in Nat /\ id0 \in Nat
        /\ buckets_count \in Nat /\ buckets_count > 0 /\ buckets_count < UIntMod
        /\ DOMAIN buckets = 0 .. buckets_count - 1
        /\ \A b \in 0 .. buckets_count - 1 : buckets[b] \in 0 .. Placed
    <2>1. Placed \in 0 .. entries_count
      BY CursorFacts
    <2>2. \A b \in 0 .. buckets_count - 1 : buckets[b] \in 0 .. Placed
      BY DEF IInv, EachIdOnce
    <2>3. /\ entries_count \in Nat /\ buckets_count \in Nat
          /\ buckets_count > 0 /\ buckets_count < UIntMod
          /\ DOMAIN buckets = 0 .. buckets_count - 1
      BY HashMapAssumption, SMT DEF IInv, TypeOK
    <2> QED BY <2>1, <2>2, <2>3, SMT
  <1>2. Rolled \in 0 .. buckets_count - 1 /\ buckets[Rolled] = 0
    BY CursorFacts DEF AtEmpty, FoundId
  <1>3. buckets' = [buckets EXCEPT ![Rolled] = id0]
    <2>1. id0 % IdModulus(buckets_count) = id0
      BY <1>1, NoTruncation
    <2> QED BY <2>1 DEF WithBucketId
  <1>4. /\ DOMAIN buckets' = 0 .. buckets_count - 1
        /\ buckets'[Rolled] = id0
        /\ \A b \in 0 .. buckets_count - 1 : b # Rolled => buckets'[b] = buckets[b]
        /\ \A b \in 0 .. buckets_count - 1 : buckets[b] # 0 => buckets'[b] # 0
    BY <1>1, <1>2, <1>3
  <1>5. buckets' \in [0 .. buckets_count - 1 -> 0 .. id0]
    <2>1. \A b \in 0 .. buckets_count - 1 : buckets'[b] \in 0 .. id0
      BY <1>1, <1>2, <1>4, SMT
    <2> QED BY <1>3, <1>1, <2>1
  <1>6. \A b1, b2 \in 0 .. buckets_count - 1 :
          buckets'[b1] = buckets'[b2] /\ buckets'[b1] # 0 => b1 = b2
    <2>1. \A b \in 0 .. buckets_count - 1 : buckets[b] # id0
      BY <1>1, SMT
    <2>2. \A b1, b2 \in 0 .. buckets_count - 1 :
            buckets[b1] = buckets[b2] /\ buckets[b1] # 0 => b1 = b2
      BY DEF IInv, EachIdOnce
    <2> QED BY <1>4, <2>1, <2>2
  <1>7. ASSUME NEW k \in Keys, NEW b \in 0 .. buckets_count - 1,
               \A c \in Passed(Home(k, buckets_count), b) : buckets[c] # 0
        PROVE  \A c \in Passed(Home(k, buckets_count), b) : buckets'[c] # 0
    <2>1. Home(k, buckets_count) \in 0 .. buckets_count - 1
      BY <1>1, HomeInTable
    <2>2. Passed(Home(k, buckets_count), b) \subseteq 0 .. buckets_count - 1
      BY <1>1, <2>1, SMT DEF Passed
    <2> QED BY <1>4, <1>7, <2>2
  <1>8. ASSUME NEW id \in 1 .. Placed
        PROVE  Leads(buckets', id, entries[id].key)
    <2>1. entries[id].key \in Keys
      <3>1. id \in 1 .. entries_count
        BY <1>1, SMT
      <3> QED BY <3>1 DEF IInv, DistinctKeys, Entry
    <2>2. PICK b \in 0 .. buckets_count - 1 :
            /\ buckets[b] = id
            /\ \A c \in Passed(Home(entries[id].key, buckets_count), b) : buckets[c] # 0
      BY DEF IInv, NoGapBefore
    <2>3. b # Rolled
      BY <1>2, <2>2, SMT
    <2> QED BY <1>4, <1>7, <2>1, <2>2, <2>3 DEF Leads
  <1>9. Leads(buckets', id0, Sought)
    BY <1>2, <1>4, <1>7, CursorFacts DEF Leads
  <1> QED BY <1>5, <1>6, <1>8, <1>9

LEMMA SetNewInv ==
    ASSUME IInv, SetNew
    PROVE  IInv'
  <1> DEFINE id0 == entries_count + 1
  <1>1. /\ AppendEntry /\ FitsLoad(buckets_count, id0) /\ AtEmpty
        /\ buckets' = WithBucketId(buckets, buckets_count, Rolled, id0)
        /\ call' = Idle /\ bucket' = 0 /\ rehash_id' = 0
        /\ buckets_count' = buckets_count
    BY DEF SetNew, Return, AppendEntry
  <1>2. /\ entries_count \in Nat /\ buckets_count \in Nat
        /\ buckets_count \in 4 .. UIntMod - 1 /\ buckets_count % 4 = 0
    BY HashMapAssumption, SMT DEF IInv, TypeOK
  <1>3. /\ call # Idle /\ Placed = entries_count /\ Sought = call.key
        /\ entries_count' = id0 /\ Placed' = id0
        /\ \A id \in 1 .. entries_count : entries'[id] = entries[id]
        /\ entries'[id0].key = call.key
    BY <1>1, AppendFacts DEF Placed, Sought
  <1>4. 4 * id0 < 3 * buckets_count /\ id0 < buckets_count
    BY <1>1, <1>2, LoadTest, SMT
  <1>5. /\ buckets' \in [0 .. buckets_count - 1 -> 0 .. id0]
        /\ \A b1, b2 \in 0 .. buckets_count - 1 :
              buckets'[b1] = buckets'[b2] /\ buckets'[b1] # 0 => b1 = b2
        /\ \A id \in 1 .. entries_count : Leads(buckets', id, entries[id].key)
        /\ Leads(buckets', id0, call.key)
    BY <1>1, <1>3, <1>4, PlaceFacts
  <1>6. TypeOK'
    <2>1. call' \in [op : {"idle", "set"} \cup Lookups,
                     key : Keys \cup {NoKey}, value : Values \cup {NoValue}]
      BY <1>1 DEF Idle
    <2>2. /\ entries_count' \in 0 .. entries_capacity'
          /\ bucket' \in 0 .. buckets_count'
          /\ rehash_id' \in 0 .. entries_count'
      BY <1>1, <1>2, AppendFacts, SMT
    <2> QED BY <1>1, <1>2, <1>3, <1>5, <2>1, <2>2, AppendFacts DEF TypeOK
  <1>7. CallOK' /\ WithinBound'
    BY <1>1, <1>2, AppendFacts, HashMapAssumption, SMT
       DEF IInv, CallOK, WithinBound, Idle
  <1>8. DistinctKeys' /\ ProbeSound'
    BY <1>1, AppendFacts DEF ProbeSound
  <1>9. LoadFactor'
    BY <1>1, <1>4, <1>3 DEF LoadFactor
  <1>10. EachIdOnce'
    BY <1>1, <1>3, <1>5 DEF EachIdOnce
  <1>11. NoGapBefore'
    <2>1. \A id \in 1 .. id0 : id \in 1 .. entries_count \/ id = id0
      BY <1>2, SMT
    <2>2. \A id \in 1 .. id0 : Leads(buckets', id, entries'[id].key)
      BY <1>3, <1>5, <2>1
    <2> QED BY <1>1, <1>3, <2>2 DEF NoGapBefore, Leads, Passed, Home
  <1> QED BY <1>6, <1>7, <1>8, <1>9, <1>10, <1>11 DEF IInv

LEMMA SetNewResizeInv ==
    ASSUME IInv, SetNewResize
    PROVE  IInv'
  <1> DEFINE id0 == entries_count + 1
             n2 == buckets_count * 2
  <1>1. /\ AppendEntry /\ ~FitsLoad(buckets_count, id0)
        /\ buckets_count' = n2 % UIntMod
        /\ \E fresh : buckets' = ResetBuckets(fresh, buckets_count')
        /\ rehash_id' = 1 /\ call' = call
        /\ bucket' = Home(entries'[1].key, buckets_count')
    BY DEF SetNewResize
  <1>2. /\ entries_count \in Nat /\ buckets_count \in Nat /\ entries_count < MaxEntries
        /\ buckets_count \in 4 .. UIntMod - 1 /\ buckets_count % 4 = 0
        /\ 4 * entries_count < 3 * buckets_count
    BY <1>1, AppendFacts, HashMapAssumption, SMT DEF IInv, TypeOK, LoadFactor
  <1>3. /\ buckets_count' = n2 /\ n2 \in 4 .. UIntMod - 1 /\ n2 % 4 = 0 /\ n2 \in Nat
        /\ ClearsAll(n2)
    <2>1. n2 % UIntMod = n2 /\ n2 < UIntMod /\ n2 % 4 = 0 /\ ClearsAll(n2)
      BY <1>1, <1>2, DoublingFits
    <2> QED BY <1>1, <1>2, <2>1, HashMapAssumption, SMT
  <1>4. buckets' = [b \in 0 .. n2 - 1 |-> 0]
    BY <1>1, <1>3, AllCleared
  <1>5. /\ entries_count' = id0 /\ 1 \in 1 .. entries_count'
        /\ entries'[1] \in Entry /\ entries'[1].key \in Keys
    <2>1. entries_count' = id0 /\ 1 \in 1 .. entries_count'
      BY <1>1, <1>2, AppendFacts, SMT
    <2>2. entries'[1] \in Entry
      BY <1>1, <2>1, AppendFacts DEF DistinctKeys
    <2> QED BY <2>1, <2>2 DEF Entry
  <1>6. Home(entries'[1].key, n2) \in 0 .. n2 - 1
    BY <1>3, <1>5, HomeInTable, SMT
  <1>7. call.op = "set" /\ rehash_id = 0
    BY <1>1 DEF AppendEntry
  <1>8. TypeOK'
    <2>1. buckets' \in [0 .. n2 - 1 -> 0 .. entries_count']
      BY <1>2, <1>4, <1>5, SMT
    <2>2. /\ entries_count' \in 0 .. entries_capacity'
          /\ bucket' \in 0 .. buckets_count'
          /\ rehash_id' \in 0 .. entries_count'
      BY <1>1, <1>2, <1>3, <1>5, <1>6, AppendFacts, SMT
    <2> QED BY <1>1, <1>3, <1>7, <2>1, <2>2, AppendFacts DEF IInv, TypeOK
  <1>9. CallOK' /\ WithinBound'
    BY <1>1, <1>2, <1>3, <1>5, <1>7, HashMapAssumption, SMT
       DEF CallOK, WithinBound, Idle, IInv
  <1>10. DistinctKeys'
    BY <1>1, AppendFacts
  <1>11. LoadFactor'
    BY <1>2, <1>3, <1>5, SMT DEF LoadFactor
  <1>12. Placed' = 0
    BY <1>1, SMT DEF Placed
  <1>13. EachIdOnce' /\ NoGapBefore'
    BY <1>3, <1>4, <1>12, SMT DEF EachIdOnce, NoGapBefore
  <1>14. ProbeSound'
    <2>1. Sought' = entries'[1].key
      BY <1>1, SMT DEF Sought
    <2>2. Home(Sought', buckets_count') = bucket' /\ bucket' \in Int
      BY <1>1, <1>3, <1>6, <2>1, SMT
    <2>3. bucket' <= bucket' /\ \A c \in bucket' .. bucket' - 1 : FALSE
      BY <2>2, NothingPassed
    <2> QED BY <2>2, <2>3 DEF ProbeSound, Passed, Home
  <1> QED BY <1>8, <1>9, <1>10, <1>11, <1>13, <1>14 DEF IInv

(* What the two endings of an iteration of maybe_resize's loop share.      *)
LEMMA RehashFacts ==
    ASSUME IInv, rehash_id # 0, AtEmpty,
           buckets' = WithBucketId(buckets, buckets_count, Rolled, rehash_id),
           UNCHANGED <<entries, entries_count, entries_capacity, buckets_count>>,
           Placed' = rehash_id
    PROVE  /\ call # Idle /\ call.op = "set" /\ rehash_id \in 1 .. entries_count
           /\ buckets' \in [0 .. buckets_count - 1 -> 0 .. entries_count]
           /\ DistinctKeys' /\ EachIdOnce' /\ NoGapBefore' /\ LoadFactor'
  <1>1. call # Idle /\ call.op = "set" /\ rehash_id \in 1 .. entries_count
    BY SMT DEF IInv, CallOK, Idle, TypeOK
  <1>2. /\ entries_count \in Nat /\ buckets_count \in Nat /\ rehash_id < buckets_count
    BY <1>1, HashMapAssumption, SMT DEF IInv, TypeOK, LoadFactor
  <1>3. /\ Placed = rehash_id - 1 /\ Sought = entries[rehash_id].key
        /\ rehash_id = Placed + 1
    BY <1>1, <1>2, SMT DEF Placed, Sought
  <1>4. /\ buckets' \in [0 .. buckets_count - 1 -> 0 .. rehash_id]
        /\ \A b1, b2 \in 0 .. buckets_count - 1 :
              buckets'[b1] = buckets'[b2] /\ buckets'[b1] # 0 => b1 = b2
        /\ \A id \in 1 .. Placed : Leads(buckets', id, entries[id].key)
        /\ Leads(buckets', rehash_id, entries[rehash_id].key)
    BY <1>1, <1>2, <1>3, PlaceFacts
  <1>5. buckets' \in [0 .. buckets_count - 1 -> 0 .. entries_count]
    BY <1>1, <1>2, <1>4, SMT
  <1>6. DistinctKeys' /\ LoadFactor'
    BY DEF IInv, DistinctKeys, LoadFactor
  <1>7. EachIdOnce'
    BY <1>4 DEF EachIdOnce
  <1>8. NoGapBefore'
    <2>1. \A id \in 1 .. rehash_id : id \in 1 .. Placed \/ id = rehash_id
      BY <1>1, <1>2, <1>3, SMT
    <2>2. \A id \in 1 .. rehash_id : Leads(buckets', id, entries'[id].key)
      BY <1>4, <2>1
    <2> QED BY <2>2 DEF NoGapBefore, Leads, Passed, Home
  <1> QED BY <1>1, <1>5, <1>6, <1>7, <1>8

LEMMA RehashNextInv ==
    ASSUME IInv, RehashNext
    PROVE  IInv'
  <1>1. /\ rehash_id # 0 /\ AtEmpty /\ rehash_id < entries_count
        /\ buckets' = WithBucketId(buckets, buckets_count, Rolled, rehash_id)
        /\ rehash_id' = rehash_id + 1
        /\ bucket' = Home(entries[rehash_id + 1].key, buckets_count)
        /\ UNCHANGED <<entries, entries_count, entries_capacity, buckets_count, call>>
    BY DEF RehashNext
  <1>2. /\ rehash_id \in Nat /\ entries_count \in Nat
        /\ buckets_count \in Nat /\ buckets_count > 0
    BY HashMapAssumption, SMT DEF IInv, TypeOK
  <1>3. Placed' = rehash_id
    BY <1>1, <1>2, SMT DEF Placed
  <1>4. /\ call # Idle /\ call.op = "set" /\ rehash_id \in 1 .. entries_count
        /\ buckets' \in [0 .. buckets_count - 1 -> 0 .. entries_count]
        /\ DistinctKeys' /\ EachIdOnce' /\ NoGapBefore' /\ LoadFactor'
    BY <1>1, <1>3, RehashFacts
  <1>5. /\ rehash_id' \in 1 .. entries_count
        /\ entries[rehash_id'].key \in Keys
    <2>1. rehash_id' \in 1 .. entries_count
      BY <1>1, <1>2, <1>4, SMT
    <2> QED BY <2>1 DEF IInv, DistinctKeys, Entry
  <1>6. bucket' \in 0 .. buckets_count - 1
    BY <1>1, <1>2, <1>5, HomeInTable
  <1>7. TypeOK'
    <2>1. bucket' \in 0 .. buckets_count' /\ rehash_id' \in 0 .. entries_count'
      BY <1>1, <1>2, <1>5, <1>6, SMT
    <2> QED BY <1>1, <1>4, <2>1 DEF IInv, TypeOK
  <1>8. CallOK' /\ WithinBound'
    BY <1>1, <1>2, <1>4, SMT DEF IInv, CallOK, WithinBound
  <1>9. ProbeSound'
    <2>1. Sought' = entries[rehash_id'].key
      BY <1>1, <1>2, SMT DEF Sought
    <2>2. Home(Sought', buckets_count') = bucket' /\ bucket' \in Int
      BY <1>1, <1>6, <2>1, SMT
    <2>3. bucket' <= bucket' /\ \A c \in bucket' .. bucket' - 1 : FALSE
      BY <2>2, NothingPassed
    <2> QED BY <2>2, <2>3 DEF ProbeSound, Passed, Home
  <1> QED BY <1>4, <1>7, <1>8, <1>9 DEF IInv

LEMMA RehashLastInv ==
    ASSUME IInv, RehashLast
    PROVE  IInv'
  <1>1. /\ rehash_id # 0 /\ AtEmpty /\ rehash_id = entries_count
        /\ buckets' = WithBucketId(buckets, buckets_count, Rolled, rehash_id)
        /\ rehash_id' = 0 /\ bucket' = 0 /\ call' = Idle
        /\ UNCHANGED <<entries, entries_count, entries_capacity, buckets_count>>
    BY DEF RehashLast, Return
  <1>2. Placed' = rehash_id
    BY <1>1 DEF Placed
  <1>3. /\ buckets' \in [0 .. buckets_count - 1 -> 0 .. entries_count]
        /\ DistinctKeys' /\ EachIdOnce' /\ NoGapBefore' /\ LoadFactor'
    BY <1>1, <1>2, RehashFacts
  <1>4. TypeOK'
    BY <1>1, <1>3, SMT DEF IInv, TypeOK, Idle, Lookups
  <1>5. CallOK' /\ WithinBound'
    BY <1>1, SMT DEF IInv, CallOK, WithinBound, Idle
  <1>6. ProbeSound'
    BY <1>1 DEF ProbeSound
  <1> QED BY <1>3, <1>4, <1>5, <1>6 DEF IInv

LEMMA ResetInv ==
    ASSUME IInv, Reset
    PROVE  IInv'
  <1>1. /\ entries_count' = 0 /\ buckets' = [b \in 0 .. buckets_count - 1 |-> 0]
        /\ call = Idle /\ rehash_id = 0
        /\ UNCHANGED <<entries, entries_capacity, buckets_count, call, bucket, rehash_id>>
    <2>1. buckets_count \in Nat /\ ClearsAll(buckets_count)
      BY DEF IInv, TypeOK, WithinBound
    <2> QED BY <2>1, AllCleared DEF Reset, IInv, CallOK, Idle
  <1>2. TypeOK' /\ LoadFactor'
    BY <1>1, HashMapAssumption, SMT DEF IInv, TypeOK, LoadFactor
  <1>3. CallOK' /\ WithinBound' /\ DistinctKeys' /\ ProbeSound'
    BY <1>1, HashMapAssumption, SMT
       DEF IInv, CallOK, WithinBound, DistinctKeys, ProbeSound, Idle
  <1>4. EachIdOnce' /\ NoGapBefore'
    BY <1>1, SMT DEF EachIdOnce, NoGapBefore, Placed, IInv, TypeOK
  <1> QED BY <1>2, <1>3, <1>4 DEF IInv

(* A call that only looks keeps everything but its own cursor.             *)
LEMMA LookupInv ==
    ASSUME IInv, GetPresent \/ GetAbsent
    PROVE  IInv'
  <1>1. /\ call.op \in Lookups /\ UNCHANGED table
        /\ call' = Idle /\ bucket' = 0 /\ rehash_id' = 0
    BY DEF GetPresent, GetAbsent, Return
  <1>2. rehash_id = 0
    BY <1>1 DEF IInv, CallOK, Lookups
  <1> QED BY <1>1, <1>2, ReturnKeepsTable

(* The invariant says nothing of result.                                   *)
LEMMA QuietInv ==
    ASSUME IInv, UNCHANGED <<table, call, bucket, rehash_id>>
    PROVE  IInv'
  <1>1. /\ UNCHANGED <<entries, entries_count, entries_capacity>>
        /\ UNCHANGED <<buckets, buckets_count>>
        /\ UNCHANGED <<call, bucket, rehash_id>>
    BY DEF table
  <1>2. TypeOK' /\ CallOK' /\ WithinBound'
    BY <1>1 DEF IInv, TypeOK, CallOK, WithinBound
  <1>3. DistinctKeys' /\ LoadFactor'
    BY <1>1 DEF IInv, DistinctKeys, LoadFactor
  <1>4. EachIdOnce' /\ NoGapBefore'
    BY <1>1 DEF IInv, EachIdOnce, NoGapBefore, Placed, Passed, Home
  <1>5. ProbeSound'
    BY <1>1 DEF IInv, ProbeSound, Passed, Home, Sought
  <1> QED BY <1>2, <1>3, <1>4, <1>5 DEF IInv

LEMMA NextInv ==
    ASSUME IInv, [Next]_vars
    PROVE  IInv'
  <1>1. ASSUME NEW k \in Keys, NEW v \in Values, BeginSet(k, v)
        PROVE  IInv'
    <2>1. entries_count < MaxEntries /\ Begin("set", k, v)
      BY <1>1 DEF BeginSet
    <2> QED BY <2>1, BeginInv
  <1>2. ASSUME NEW op \in Lookups, NEW k \in Keys, BeginGet(op, k)
        PROVE  IInv'
    <2>1. op # "set" /\ Begin(op, k, NoValue)
      BY <1>2 DEF BeginGet, Lookups
    <2> QED BY <2>1, BeginInv
  <1>3. CASE ProbeNext
    BY <1>3, ProbeNextInv
  <1>4. CASE GetPresent \/ GetAbsent
    BY <1>4, LookupInv
  <1>5. CASE SetOld
    BY <1>5, SetOldInv
  <1>6. CASE SetNew
    BY <1>6, SetNewInv
  <1>7. CASE SetNewResize
    BY <1>7, SetNewResizeInv
  <1>8. CASE RehashNext
    BY <1>8, RehashNextInv
  <1>9. CASE RehashLast
    BY <1>9, RehashLastInv
  <1>10. ASSUME NEW id \in 1 .. entries_count, GetById(id)
         PROVE  IInv'
    <2>1. UNCHANGED <<table, call, bucket, rehash_id>>
      BY <1>10 DEF GetById
    <2> QED BY <2>1, QuietInv
  <1>11. CASE Reset
    BY <1>11, ResetInv
  <1>12. CASE UNCHANGED vars
    BY <1>12, QuietInv DEF vars
  <1> QED BY <1>1, <1>2, <1>3, <1>4, <1>5, <1>6, <1>7, <1>8, <1>9, <1>10,
             <1>11, <1>12 DEF Next, Continue

(* The inductive invariant holds in every reachable state.                 *)
THEOREM Inductive == Spec => []IInv
  BY InitInv, NextInv, PTL DEF Spec

(* Indexes stay inside their arrays and every 32-bit sum and doubling of   *)
(* hash_map.c is exact, for any number of entries up to MaxEntries.        *)
THEOREM TypeCorrect == Spec => []TypeOK
  <1>1. IInv => TypeOK
    BY DEF IInv
  <1> QED BY <1>1, Inductive, PTL

(* A live entry is initialised memory and no key has two IDs.              *)
THEOREM KeysDistinct == Spec => []DistinctKeys
  <1>1. IInv => DistinctKeys
    BY DEF IInv
  <1> QED BY <1>1, Inductive, PTL

(* The bucket array holds each placed ID once, whatever its element width, *)
(* and its load stays below three quarters.                                *)
THEOREM BucketsExact == Spec => [](EachIdOnce /\ LoadFactor)
  <1>1. IInv => EachIdOnce /\ LoadFactor
    BY DEF IInv
  <1> QED BY <1>1, Inductive, PTL

(* No reachable table hides an entry from get_internal, and get_internal   *)
(* never skips the bucket of the key it seeks.                             *)
THEOREM LookupsSound == Spec => [](NoGapBefore /\ ProbeSound)
  <1>1. IInv => NoGapBefore /\ ProbeSound
    BY DEF IInv
  <1> QED BY <1>1, Inductive, PTL

(* assert(existing_id == 0) at hash_map.c:117 holds for every hash         *)
(* function: the id being rehashed is not in the new buckets yet, and no   *)
(* other entry has its key.                                                *)
THEOREM RehashAssertionHolds == Spec => []RehashFindsNoDuplicate
  <1>1. IInv => RehashFindsNoDuplicate
    <2> SUFFICES ASSUME IInv, rehash_id # 0, AtMatch
                 PROVE  FALSE
      BY DEF RehashFindsNoDuplicate
    <2>1. call # Idle
      BY DEF IInv, CallOK, Idle
    <2>2. /\ rehash_id \in 1 .. entries_count
          /\ FoundId \in 1 .. entries_count /\ FoundId # rehash_id
      BY <2>1, CursorFacts, SMT DEF AtMatch, Placed, IInv, TypeOK
    <2> QED BY <2>2 DEF IInv, DistinctKeys, AtMatch, Sought
  <1> QED BY <1>1, Inductive, PTL

-----------------------------------------------------------------------------
(* Termination of the probe loop.                                          *)

(* The load factor leaves a free bucket: the buckets hold distinct IDs and *)
(* there are fewer IDs than buckets.                                       *)
LEMMA FreeBucket ==
    ASSUME IInv
    PROVE  \E b \in 0 .. buckets_count - 1 : buckets[b] = 0
  <1> SUFFICES ASSUME \A b \in 0 .. buckets_count - 1 : buckets[b] # 0
               PROVE  FALSE
    OBVIOUS
  <1> DEFINE S == 0 .. buckets_count - 1
             T == 1 .. entries_count
  <1>1. /\ buckets_count \in Nat /\ buckets_count > 0 /\ entries_count \in Nat
        /\ entries_count < buckets_count
        /\ Placed \in Int /\ Placed <= entries_count
    BY HashMapAssumption, SMT DEF IInv, TypeOK, LoadFactor, Placed
  <1>2. IsFiniteSet(S) /\ Cardinality(S) = buckets_count
    BY <1>1, FS_Interval, SMT
  <1>3. IsFiniteSet(T) /\ Cardinality(T) = entries_count
    BY <1>1, FS_Interval, SMT
  <1>4. buckets \in [S -> T]
    <2>1. \A b \in S : buckets[b] \in 0 .. Placed
      BY DEF IInv, EachIdOnce
    <2>2. \A b \in S : buckets[b] \in T
      BY <1>1, <2>1, SMT
    <2> QED BY <2>2 DEF IInv, TypeOK
  <1>5. PICK b1, b2 \in S : b1 # b2 /\ buckets[b1] = buckets[b2]
    <2> HIDE DEF S, T
    <2>1. Cardinality(T) < Cardinality(S)
      BY <1>1, <1>2, <1>3
    <2> QED BY <1>2, <1>3, <1>4, <2>1, FS_PigeonHole
  <1> QED BY <1>5 DEF IInv, EachIdOnce

(* A probe that came back to its home would have seen every bucket full.   *)
THEOREM ProbesNeverWrap == Spec => NeverWraps
  <1> DEFINE next == IF Rolled + 1 = buckets_count THEN 0 ELSE Rolled + 1
             P == ProbeNext => Home(Sought, buckets_count) # next
  <1>1. IInv => P
    <2> SUFFICES ASSUME IInv, ProbeNext, Home(Sought, buckets_count) = next
                 PROVE  FALSE
      OBVIOUS
    <2> DEFINE h == Home(Sought, buckets_count)
    <2>1. call # Idle /\ FoundId # 0
      BY DEF ProbeNext, AtEmpty
    <2>2. /\ h \in 0 .. buckets_count - 1 /\ Rolled \in 0 .. buckets_count - 1
          /\ buckets_count \in Nat
          /\ \A c \in Passed(h, Rolled) : buckets[c] # 0
      BY <2>1, CursorFacts DEF IInv, TypeOK
    <2>3. PICK b \in 0 .. buckets_count - 1 : buckets[b] = 0
      BY FreeBucket
    <2>4. h = IF Rolled + 1 = buckets_count THEN 0 ELSE Rolled + 1
      OBVIOUS
    <2> HIDE DEF h, next
    <2>5. b \in Passed(h, Rolled) \/ b = Rolled
      BY <2>2, <2>4, SMT DEF Passed
    <2> QED BY <2>1, <2>2, <2>3, <2>5 DEF FoundId
  <1>2. IInv /\ [Next]_vars => [P]_vars
    BY <1>1
  <1> QED BY <1>2, Inductive, PTL DEF Spec, NeverWraps

(* Growth of either array and every resize leave each ID's key in place.   *)
THEOREM IdsStable == Spec => StableIds
  <1> DEFINE P == ~Reset => /\ entries_count' >= entries_count
                            /\ \A id \in 1 .. entries_count :
                                  entries'[id].key = entries[id].key
  <1>1. ASSUME IInv, [Next]_vars PROVE [P]_vars
    <2>1. entries_count \in Nat
      BY <1>1, HashMapAssumption, SMT DEF IInv, TypeOK
    <2>2. CASE entries_count' = entries_count /\ entries' = entries
      BY <2>1, <2>2, SMT
    <2>3. CASE SetOld
      <3>1. call # Idle /\ entries_count' = entries_count
        BY <2>3 DEF SetOld, Idle
      <3>2. \A id \in 1 .. entries_count : entries'[id].key = entries[id].key
        <4>1. CASE ~HasValue
          BY <2>3, <4>1 DEF SetOld
        <4>2. CASE HasValue
          <5>1. entries' = [entries EXCEPT ![FoundId].value = call.value]
            BY <2>3, <4>2 DEF SetOld
          <5>2. \A id \in 1 .. entries_count :
                  id \in DOMAIN entries /\ entries[id] \in Entry
            BY <1>1, SMT DEF IInv, TypeOK, DistinctKeys
          <5> QED BY <5>1, <5>2 DEF Entry
        <4> QED BY <4>1, <4>2
      <3> QED BY <2>1, <3>1, <3>2, SMT
    <2>4. CASE AppendEntry
      <3>1. /\ entries_count' = entries_count + 1
            /\ \A id \in 1 .. entries_count : entries'[id] = entries[id]
        BY <1>1, <2>4, AppendFacts
      <3> QED BY <2>1, <3>1, SMT
    <2> QED BY <1>1, <2>2, <2>3, <2>4
            DEF Next, Continue, BeginSet, BeginGet, Begin, ProbeNext, GetPresent,
                GetAbsent, SetNew, SetNewResize, RehashNext, RehashLast, GetById,
                vars, table
  <1>2. IInv /\ [Next]_vars => [P]_vars
    BY <1>1
  <1> QED BY <1>2, Inductive, PTL DEF Spec, StableIds

-----------------------------------------------------------------------------
(* hash_map.c implements the insertion-ordered append-only map of IdMap,   *)
(* for every hash function: each step of HashMap, seen through the live    *)
(* prefix of the entries array, is a step of IdMap or changes nothing a    *)
(* caller can see.                                                         *)

(* The live prefix is a sequence; appending to it is what AppendEntry does. *)
LEMMA LogIsSeq ==
    ASSUME IInv
    PROVE  /\ Log \in Seq(Entry)
           /\ Len(Log) = entries_count
           /\ DOMAIN Log = 1 .. entries_count
           /\ \A id \in 1 .. entries_count : Log[id] = entries[id]
  <1>1. entries_count \in Nat /\ \A id \in 1 .. entries_count : entries[id] \in Entry
    BY HashMapAssumption, SMT DEF IInv, TypeOK, DistinctKeys
  <1>2. Log \in [1 .. entries_count -> Entry]
    BY <1>1 DEF Log
  <1>3. Log \in Seq(Entry)
    BY <1>1, <1>2, SeqDef
  <1> QED BY <1>1, <1>2, <1>3, LenProperties, SMT DEF Log

LEMMA LogAppend ==
    ASSUME IInv, AppendEntry
    PROVE  Log' = Append(Log, [key |-> call.key, value |-> Stored(call.value)])
  <1> DEFINE new == [key |-> call.key, value |-> Stored(call.value)]
             s == Append(Log, new)
  <1>1. /\ entries_count' = entries_count + 1 /\ entries_count \in Nat
        /\ \A id \in 1 .. entries_count : entries'[id] = entries[id]
        /\ entries'[entries_count + 1] = new
    BY AppendFacts, HashMapAssumption, SMT DEF IInv, TypeOK
  <1>2. new \in Entry
    BY DEF IInv, CallOK, AppendEntry, Idle, Entry, Stored
  <1> HIDE DEF new
  <1>3. /\ s \in Seq(Entry) /\ Len(s) = entries_count + 1
        /\ \A id \in 1 .. entries_count : s[id] = entries[id]
        /\ s[entries_count + 1] = new
    BY <1>2, LogIsSeq, AppendProperties
  <1> HIDE DEF s
  <1>4. s \in [1 .. entries_count + 1 -> Entry]
    BY <1>3, LenProperties
  <1>5. Log' = [id \in 1 .. entries_count + 1 |-> entries'[id]]
    BY <1>1 DEF Log
  <1>6. \A id \in 1 .. entries_count + 1 : s[id] = entries'[id]
    BY <1>1, <1>3, SMT
  <1> QED BY <1>4, <1>5, <1>6 DEF s, new

(* What a lookup of a user's key finds or does not find in the log.        *)
LEMMA LookupInLog ==
    ASSUME IInv, call # Idle, rehash_id = 0
    PROVE  /\ AtMatch => /\ FoundId \in DOMAIN Log
                         /\ Log[FoundId].key = call.key
                         /\ Log[FoundId] = entries[FoundId]
           /\ AtEmpty => \A id \in DOMAIN Log : Log[id].key # call.key
           /\ call.key \in Keys
  <1>1. Sought = call.key /\ Placed = entries_count
    BY DEF Sought, Placed
  <1>2. ASSUME AtMatch PROVE FoundId \in 1 .. entries_count
    <2>1. entries_count \in Nat
      BY HashMapAssumption, SMT DEF IInv, TypeOK
    <2> QED BY <1>1, <1>2, <2>1, CursorFacts, SMT DEF AtMatch
  <1> QED BY <1>1, <1>2, LogIsSeq, CursorFacts, EmptyMeansAbsent DEF AtMatch

LEMMA StepMaps ==
    ASSUME IInv, [Next]_vars
    PROVE  [Abstract!Next]_(Abstract!vars)
  <1> USE DEF Abstract!Next, Abstract!vars
  <1>1. ASSUME UNCHANGED <<entries, entries_count>> PROVE Log' = Log
    BY <1>1 DEF Log
  <1>2. ASSUME NEW op, NEW k, NEW v, Begin(op, k, v)
        PROVE  Abstract!Ask
    BY <1>1, <1>2 DEF Begin, table, Abstract!Ask, Abstract!Pending, Abstract!Answer,
                      Pending, Answer
  <1>3. CASE GetPresent
    <2>1. /\ call # Idle /\ rehash_id = 0 /\ AtMatch /\ call.op \in Lookups
      BY <1>3 DEF GetPresent, IInv, CallOK, Lookups, Idle
    <2>2. Log' = Log
      BY <1>1, <1>3 DEF GetPresent, table
    <2>3. Abstract!GetPresent(call.key)
      BY <1>3, <2>1, <2>2, LookupInLog
         DEF GetPresent, Return, Lookups, Answer, Stored,
             Abstract!GetPresent, Abstract!Answer, Abstract!Stored
    <2> QED BY <2>1, <2>3, LookupInLog
  <1>4. CASE GetAbsent
    <2>1. /\ call # Idle /\ rehash_id = 0 /\ AtEmpty /\ call.op \in Lookups
      BY <1>4 DEF GetAbsent, IInv, CallOK, Lookups, Idle
    <2>2. Log' = Log
      BY <1>1, <1>4 DEF GetAbsent, table
    <2>3. Abstract!GetAbsent(call.key)
      BY <1>4, <2>1, <2>2, LookupInLog
         DEF GetAbsent, Return, Lookups, Answer, Abstract!GetAbsent, Abstract!Answer
    <2> QED BY <2>1, <2>3, LookupInLog
  <1>5. CASE SetOld
    <2>1. /\ call # Idle /\ rehash_id = 0 /\ AtMatch /\ call.value \in Values
          /\ result' = Answer("set", call.key, FoundId, NoValue)
          /\ entries_count' = entries_count
      BY <1>5 DEF SetOld, Return, IInv, CallOK, Idle
    <2>2. Log' = IF HasValue THEN [Log EXCEPT ![FoundId].value = call.value] ELSE Log
      <3>1. CASE ~HasValue
        BY <1>1, <1>5, <2>1, <3>1 DEF SetOld
      <3>2. CASE HasValue
        <4>1. entries' = [entries EXCEPT ![FoundId].value = call.value]
          BY <1>5, <3>2 DEF SetOld
        <4>2. \A id \in 1 .. entries_count : id \in DOMAIN entries
          BY SMT DEF IInv, TypeOK
        <4> QED BY <2>1, <3>2, <4>1, <4>2, LogIsSeq DEF Log
      <3> QED BY <3>1, <3>2
    <2>3. Abstract!SetOld(call.key, call.value)
      BY <2>1, <2>2, LookupInLog DEF Answer, Abstract!SetOld, Abstract!Answer
    <2> QED BY <2>1, <2>3, LookupInLog
  <1>6. CASE SetNew \/ SetNewResize
    <2>1. /\ AppendEntry
          /\ result' = Answer("set", call.key, entries_count + 1, NoValue)
      BY <1>6 DEF SetNew, SetNewResize, Return
    <2>2. call # Idle /\ rehash_id = 0 /\ AtEmpty /\ call.value \in Values
      BY <2>1 DEF AppendEntry, IInv, CallOK, Idle
    <2>3. Abstract!SetNew(call.key, call.value)
      BY <2>1, <2>2, LookupInLog, LogAppend, LogIsSeq
         DEF Answer, Stored, Abstract!SetNew, Abstract!Answer, Abstract!Stored
    <2> QED BY <2>2, <2>3, LookupInLog
  <1>7. CASE ProbeNext \/ RehashNext \/ RehashLast
    BY <1>1, <1>7 DEF ProbeNext, RehashNext, RehashLast, Return, table
  <1>8. ASSUME NEW id \in 1 .. entries_count, GetById(id)
        PROVE  \E i \in DOMAIN Log : Abstract!GetById(i)
    BY <1>1, <1>8, LogIsSeq
       DEF GetById, table, Answer, Stored,
           Abstract!GetById, Abstract!Answer, Abstract!Stored
  <1>9. CASE Reset
    <2>1. Log' = << >>
      BY <1>9, SMT DEF Reset, Log
    <2> QED BY <1>9, <2>1 DEF Reset, Answer, Abstract!Reset, Abstract!Answer
  <1>10. CASE UNCHANGED vars
    BY <1>1, <1>10 DEF vars, table
  <1> QED BY <1>2, <1>3, <1>4, <1>5, <1>6, <1>7, <1>8, <1>9, <1>10
          DEF Next, Continue, BeginSet, BeginGet

(* HashMap implements IdMap: keys get IDs 1, 2, ... in the order they are  *)
(* first set, and every lookup answers from that log.                      *)
THEOREM Refinement == Spec => ImplementsIdMap
  <1>1. Init => Abstract!Init
    <2> SUFFICES ASSUME Init PROVE Abstract!Init
      OBVIOUS
    <2>1. Log = << >>
      BY SMT DEF Init, Log
    <2> QED BY <2>1 DEF Init, Abstract!Init, Answer, Abstract!Answer
  <1>2. IInv /\ [Next]_vars => [Abstract!Next]_(Abstract!vars)
    BY StepMaps
  <1> QED BY <1>1, <1>2, Inductive, PTL DEF Spec, ImplementsIdMap, Abstract!Spec
=============================================================================
