------------------------------ MODULE HashMap ------------------------------
(***************************************************************************)
(* src/support/hash_map.c: an open-addressing hash table of IDs (buckets)  *)
(* over a dense array of entries.  One step is one iteration of the probe  *)
(* loop of get_internal, together with everything the caller does from the *)
(* end of that loop to its return or to its next probe loop.  Reads the    *)
(* arithmetic at its C width: UIntMod is 2^32, U8Max and U16Max choose the *)
(* element type of the bucket array.                                       *)
(***************************************************************************)
EXTENDS Naturals

CONSTANTS Keys, Values, NoKey, NoValue, NoEntry,
          HasValue,          \* config->value_size > 0
          Hash,              \* config->hash
          InitialBuckets,    \* 16 in HashMap_init
          InitialCapacity,   \* 16 in HashMap_init
          U8Max, U16Max,     \* UINT8_MAX, UINT16_MAX
          UIntMod,           \* 2^32
          MaxEntries         \* callers stop setting at this many entries

(* Beyond MaxEntries the arithmetic of 32 bits wraps around.  The first to *)
(* do so is buckets_count * 4 in reset_buckets (hash_map.c:84), at 2^30    *)
(* buckets: memset clears nothing.  With 2^32 the bound is 3 * 2^27, four  *)
(* hundred million entries; the doubling and the growth that have FIXME    *)
(* comments (hash_map.c:96 and :167) hold on longer.                       *)
ASSUME HashMapAssumption ==
    /\ HasValue \in BOOLEAN
    /\ Hash \in [Keys -> Nat]
    /\ InitialBuckets \in Nat /\ InitialBuckets > 0 /\ InitialBuckets % 4 = 0
    /\ InitialCapacity \in Nat /\ InitialCapacity >= 2
    /\ U8Max \in Nat /\ U16Max \in Nat /\ U8Max < U16Max
    /\ UIntMod \in Nat /\ U16Max < UIntMod
    /\ InitialBuckets < U8Max /\ InitialCapacity < UIntMod
    /\ MaxEntries \in Nat /\ 32 * MaxEntries < 3 * UIntMod

VARIABLES entries, entries_count, entries_capacity,
          buckets, buckets_count,
          call,       \* the operation in progress and its arguments
          bucket,     \* the probe cursor of get_internal
          rehash_id,  \* the id of maybe_resize's loop, 0 outside of it
          result      \* what the last operation answers, Pending until it is known

table == <<entries, entries_count, entries_capacity, buckets, buckets_count>>
vars == <<table, call, bucket, rehash_id, result>>

-----------------------------------------------------------------------------
Entry == [key : Keys, value : Values \cup {NoValue}]
Idle == [op |-> "idle", key |-> NoKey, value |-> NoValue]
Answer(op, k, id, v) == [op |-> op, key |-> k, id |-> id, value |-> v]
Pending == Answer("pending", NoKey, 0, NoValue)

(* A set (value_size = 0) stores no values and answers NULL for them.      *)
Stored(v) == IF HasValue THEN v ELSE NoValue

(* Slip: the bucket array stays at one byte an element.                    *)
ByteModulus(n) == U8Max + 1

(* The bucket array has the narrowest element type that fits its size.     *)
IdModulus(n) == IF n < U8Max THEN U8Max + 1
                ELSE IF n < U16Max THEN U16Max + 1 ELSE UIntMod

(* The bytes one bucket takes.                                             *)
Width(n) == IF n < U8Max THEN 1 ELSE IF n < U16Max THEN 2 ELSE 4

(* Slip: memset of n bytes, whatever the element width.                    *)
BytesAtWidthOne(n) == n % UIntMod

(* What reset_buckets hands to memset: a product of 32 bits.               *)
BytesCleared(n) == (n * Width(n)) % UIntMod

Uncleared(n) == {b \in 0 .. n - 1 : (b + 1) * Width(n) > BytesCleared(n)}

(* reset_buckets on n buckets that hold bs.                                *)
ResetBuckets(bs, n) ==
    [b \in 0 .. n - 1 |-> IF b \in Uncleared(n) THEN bs[b] ELSE 0]

(* What xallocarray leaves in the buckets that are not cleared after it.   *)
Fresh(n) == [Uncleared(n) -> 0 .. IdModulus(n) - 1]

WithBucketId(bs, n, b, id) == [bs EXCEPT ![b] = id % IdModulus(n)]

(* Where get_internal starts to look for k in a table of n buckets.        *)
Home(k, n) == Hash[k] % n

(* The cursor may have run one past the last bucket: roll over.            *)
Rolled == IF bucket = buckets_count THEN 0 ELSE bucket

(* The key get_internal was called with.                                   *)
Sought == IF rehash_id = 0 THEN call.key ELSE entries[rehash_id].key

FoundId == buckets[Rolled]
AtEmpty == FoundId = 0
(* Slip: equal hashes are taken for equal keys.                            *)
HashMatch == FoundId # 0 /\ Hash[entries[FoundId].key] = Hash[Sought]

AtMatch == /\ FoundId # 0
           /\ Hash[entries[FoundId].key] = Hash[Sought]
           /\ entries[FoundId].key = Sought

Lookups == {"get_id", "get_value"}

-----------------------------------------------------------------------------
Init ==
    /\ entries = [id \in 1 .. InitialCapacity |-> NoEntry]
    /\ entries_count = 0
    /\ entries_capacity = InitialCapacity
    /\ buckets = [b \in 0 .. InitialBuckets - 1 |-> 0]
    /\ buckets_count = InitialBuckets
    /\ call = Idle
    /\ bucket = 0
    /\ rehash_id = 0
    /\ result = Answer("init", NoKey, 0, NoValue)

(* A call begins: get_internal computes the home bucket of its key.        *)
Begin(op, k, v) ==
    /\ call = Idle
    /\ call' = [op |-> op, key |-> k, value |-> v]
    /\ bucket' = Home(k, buckets_count)
    /\ result' = Pending
    /\ UNCHANGED <<table, rehash_id>>

BeginSet(k, v) == entries_count < MaxEntries /\ Begin("set", k, v)
BeginGet(op, k) == Begin(op, k, NoValue)

(* The public function returns.                                            *)
Return(answer) ==
    /\ call' = Idle
    /\ bucket' = 0
    /\ rehash_id' = 0
    /\ result' = answer

(* Slip: the cursor is not advanced.                                       *)
ProbeSame ==
    /\ call # Idle
    /\ ~AtEmpty /\ ~AtMatch
    /\ bucket' = Rolled
    /\ UNCHANGED <<table, call, rehash_id, result>>

(* An occupied bucket with another key: look at the next one.              *)
ProbeNext ==
    /\ call # Idle
    /\ ~AtEmpty /\ ~AtMatch
    /\ bucket' = Rolled + 1
    /\ UNCHANGED <<table, call, rehash_id, result>>

(* HashMap_get_id_by_key and HashMap_get_value_by_key.                     *)
GetPresent ==
    /\ call.op \in Lookups /\ AtMatch
    /\ Return(IF call.op = "get_id"
              THEN Answer("get_id", call.key, FoundId, NoValue)
              ELSE Answer("get_value", call.key, 0, Stored(entries[FoundId].value)))
    /\ UNCHANGED table

GetAbsent ==
    /\ call.op \in Lookups /\ AtEmpty
    /\ Return(Answer(call.op, call.key, 0, NoValue))
    /\ UNCHANGED table

(* HashMap_set on a key that is present.                                   *)
SetOld ==
    /\ call.op = "set" /\ rehash_id = 0 /\ AtMatch
    /\ entries' = IF HasValue THEN [entries EXCEPT ![FoundId].value = call.value]
                              ELSE entries
    /\ Return(Answer("set", call.key, FoundId, NoValue))
    /\ UNCHANGED <<entries_count, entries_capacity, buckets, buckets_count>>

(* Slip: growth comes one entry too late.                                  *)
LateCapacity ==
    IF entries_count > entries_capacity
    THEN (entries_capacity + entries_capacity \div 2) % UIntMod
    ELSE entries_capacity

(* The entries array grows by half when it is full.                        *)
GrownCapacity ==
    IF entries_count = entries_capacity
    THEN (entries_capacity + entries_capacity \div 2) % UIntMod
    ELSE entries_capacity

(* Slip: id - 1 is taken for the index a second time.                      *)
AppendOverLast ==
    /\ call.op = "set" /\ rehash_id = 0 /\ AtEmpty
    /\ entries_capacity' = GrownCapacity
    /\ entries' = [id \in 1 .. entries_capacity' |->
                     IF id \in {entries_count, entries_count + 1}
                     THEN [key |-> call.key, value |-> Stored(call.value)]
                     ELSE IF id <= entries_capacity THEN entries[id] ELSE NoEntry]
    /\ entries_count' = entries_count + 1

(* HashMap_set on a new key: the entry is written at the end of the array. *)
AppendEntry ==
    /\ call.op = "set" /\ rehash_id = 0 /\ AtEmpty
    /\ entries_capacity' = GrownCapacity
    /\ entries' = [id \in 1 .. entries_capacity' |->
                     IF id = entries_count + 1
                     THEN [key |-> call.key, value |-> Stored(call.value)]
                     ELSE IF id <= entries_capacity THEN entries[id] ELSE NoEntry]
    /\ entries_count' = entries_count + 1

(* Slip: resizing only when the table is full.                             *)
FitsUntilFull(n, count) == n >= count

(* The test at the top of maybe_resize, after the new entry is counted.    *)
FitsLoad(n, count) == (n \div 4) * 3 > count

SetNew ==
    /\ AppendEntry
    /\ FitsLoad(buckets_count, entries_count + 1)
    /\ buckets' = WithBucketId(buckets, buckets_count, Rolled, entries_count + 1)
    /\ Return(Answer("set", call.key, entries_count + 1, NoValue))
    /\ UNCHANGED buckets_count

(* maybe_resize gives up the old buckets and starts its loop over the IDs. *)
(* The ID that the call will return is already fixed.                      *)
SetNewResize ==
    /\ AppendEntry
    /\ ~FitsLoad(buckets_count, entries_count + 1)
    /\ buckets_count' = (buckets_count * 2) % UIntMod
    /\ \E fresh \in Fresh(buckets_count') :
          buckets' = ResetBuckets(fresh, buckets_count')
    /\ rehash_id' = 1
    /\ bucket' = Home(entries'[1].key, buckets_count')
    /\ result' = Answer("set", call.key, entries_count + 1, NoValue)
    /\ UNCHANGED call

(* Slip: the next home is computed for the old number of buckets.          *)
RehashOldHome ==
    /\ rehash_id # 0 /\ AtEmpty
    /\ rehash_id < entries_count
    /\ buckets' = WithBucketId(buckets, buckets_count, Rolled, rehash_id)
    /\ rehash_id' = rehash_id + 1
    /\ bucket' = Home(entries[rehash_id + 1].key, buckets_count \div 2)
    /\ UNCHANGED <<entries, entries_count, entries_capacity, buckets_count,
                   call, result>>

(* An iteration of that loop found a free bucket.  A match instead would   *)
(* fail the assertion at hash_map.c:117; no action is enabled then.        *)
RehashNext ==
    /\ rehash_id # 0 /\ AtEmpty
    /\ rehash_id < entries_count
    /\ buckets' = WithBucketId(buckets, buckets_count, Rolled, rehash_id)
    /\ rehash_id' = rehash_id + 1
    /\ bucket' = Home(entries[rehash_id + 1].key, buckets_count)
    /\ UNCHANGED <<entries, entries_count, entries_capacity, buckets_count,
                   call, result>>

RehashLast ==
    /\ rehash_id # 0 /\ AtEmpty
    /\ rehash_id = entries_count
    /\ buckets' = WithBucketId(buckets, buckets_count, Rolled, rehash_id)
    /\ Return(result)
    /\ UNCHANGED <<entries, entries_count, entries_capacity, buckets_count>>

(* HashMap_get_entry_by_id and its two projections; id is a live ID.       *)
GetById(id) ==
    /\ call = Idle
    /\ result' = Answer("get_entry_by_id", entries[id].key, id, Stored(entries[id].value))
    /\ UNCHANGED <<table, call, bucket, rehash_id>>

(* HashMap_reset keeps both arrays at the size they have grown to.         *)
Reset ==
    /\ call = Idle
    /\ entries_count' = 0
    /\ buckets' = ResetBuckets(buckets, buckets_count)
    /\ result' = Answer("reset", NoKey, 0, NoValue)
    /\ UNCHANGED <<entries, entries_capacity, buckets_count, call, bucket, rehash_id>>

(* The rest of a call that has begun.                                      *)
Continue == \/ ProbeNext \/ GetPresent \/ GetAbsent
            \/ SetOld \/ SetNew \/ SetNewResize
            \/ RehashNext \/ RehashLast

Next == \/ \E k \in Keys, v \in Values : BeginSet(k, v)
        \/ \E op \in Lookups, k \in Keys : BeginGet(op, k)
        \/ Continue
        \/ \E id \in 1 .. entries_count : GetById(id)
        \/ Reset

(* A call runs on one thread until it returns: nothing ever blocks it.     *)
Spec == Init /\ [][Next]_vars /\ WF_vars(Continue)

-----------------------------------------------------------------------------
(* The IDs the bucket array should know: all of them, or, while            *)
(* maybe_resize rebuilds it, those its loop has passed.                    *)
Placed == IF rehash_id = 0 THEN entries_count ELSE rehash_id - 1

(* The buckets a probe for home h has passed when its cursor is at b.      *)
Passed(h, b) == IF h <= b THEN h .. b - 1
                          ELSE (h .. buckets_count - 1) \cup (0 .. b - 1)

TypeOK ==
    /\ entries_capacity \in InitialCapacity .. UIntMod - 1
    /\ entries_count \in 0 .. entries_capacity
    /\ entries \in [1 .. entries_capacity -> Entry \cup {NoEntry}]
    /\ buckets_count \in Nat /\ buckets_count \in 4 .. UIntMod - 1
    /\ buckets_count % 4 = 0
    /\ buckets \in [0 .. buckets_count - 1 -> 0 .. entries_count]
    /\ call \in [op : {"idle", "set"} \cup Lookups,
                  key : Keys \cup {NoKey}, value : Values \cup {NoValue}]
    /\ bucket \in 0 .. buckets_count
    /\ rehash_id \in 0 .. entries_count
    /\ rehash_id # 0 => call.op = "set"

(* "All entries have a unique 32-bit ID": no key occupies two entries, and *)
(* no live entry is memory that was never written.                         *)
DistinctKeys ==
    /\ \A id \in 1 .. entries_count : entries[id] \in Entry
    /\ \A id1, id2 \in 1 .. entries_count :
          entries[id1].key = entries[id2].key => id1 = id2

(* The bucket array holds every placed ID exactly once and no other, in    *)
(* all three element widths: storing an ID never cuts it down.             *)
EachIdOnce ==
    /\ \A b \in 0 .. buckets_count - 1 : buckets[b] \in 0 .. Placed
    /\ \A b1, b2 \in 0 .. buckets_count - 1 :
          buckets[b1] = buckets[b2] /\ buckets[b1] # 0 => b1 = b2

(* Linear probing finds every placed entry: no empty bucket lies between   *)
(* an entry's home and the bucket that holds its ID.                       *)
NoGapBefore ==
    \A id \in 1 .. Placed : \E b \in 0 .. buckets_count - 1 :
        /\ buckets[b] = id
        /\ \A c \in Passed(Home(entries[id].key, buckets_count), b) : buckets[c] # 0

(* A probe in progress has passed only buckets of other keys, so neither   *)
(* "not found" nor "free bucket" is ever concluded too early.              *)
ProbeSound ==
    call # Idle =>
        \A c \in Passed(Home(Sought, buckets_count), bucket) :
            buckets[c] # 0 /\ entries[buckets[c]].key # Sought

(* The 75% load factor holds whenever the code can run a probe, also in    *)
(* the middle of a resize.                                                 *)
LoadFactor == 4 * entries_count < 3 * buckets_count

(* assert(existing_id == 0) in maybe_resize never fails.                   *)
RehashFindsNoDuplicate == rehash_id # 0 => ~AtMatch

(* The for (;;) of get_internal never comes back to the bucket it started  *)
(* from: each probe reads every bucket at most once.                       *)
NeverWraps ==
    [][ProbeNext => Home(Sought, buckets_count) #
                      (IF Rolled + 1 = buckets_count THEN 0 ELSE Rolled + 1)]_vars

(* An ID names the same key until the map is reset, across growth of the   *)
(* entries array and across resizes.                                       *)
StableIds ==
    [][~Reset => /\ entries_count' >= entries_count
                 /\ \A id \in 1 .. entries_count :
                       entries'[id].key = entries[id].key]_vars

(* Every call returns: probing and rehashing terminate.                    *)
CallReturns == (call # Idle) ~> (call = Idle)

(* The map its callers see is the live prefix of the entries array.        *)
Log == [id \in 1 .. entries_count |-> entries[id]]
Abstract == INSTANCE IdMap WITH log <- Log, result <- result

(* hash_map.c implements the append-only insertion-ordered map.            *)
ImplementsIdMap == Abstract!Spec
=============================================================================
