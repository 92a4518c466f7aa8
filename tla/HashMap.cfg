\* Six keys, two resizes (4 -> 8 -> 16 buckets), all three bucket widths; resets
\* after the first of them, so that grown arrays with leftovers are filled again.
SPECIFICATION Spec
CONSTANTS
  k1 = k1  k2 = k2  k3 = k3  k4 = k4  k5 = k5  k6 = k6
  v1 = v1  v2 = v2
  Keys = {k1, k2, k3, k4, k5, k6}
  Values = {v1, v2}
  NoKey = NoKey  NoValue = NoValue  NoEntry = NoEntry
  HasValue = TRUE
  Hash <- MCHash
  InitialBuckets = 4
  InitialCapacity = 2
  U8Max = 5
  U16Max = 11
  UIntMod = 128
  MaxEntries = 11
ACTION_CONSTRAINT Affordable
INVARIANTS TypeOK EachIdOnce NoGapBefore RehashFindsNoDuplicate
PROPERTIES NeverWraps StableIds ImplementsIdMap CallReturns
