-------------------------- MODULE AstContextProofs --------------------------
(***************************************************************************)
(* Theorems about AstContext for any texts, any finite memory, and any     *)
(* number of files and nodes.                                              *)
(***************************************************************************)
EXTENDS AstContext, FiniteSetTheorems, SequenceTheorems, WellFoundedInduction, TLAPS

-----------------------------------------------------------------------------
(* A nonempty set of natural numbers has a least member.                   *)
LEMMA LeastNat ==
    ASSUME NEW T, T \subseteq Nat, T # {}
    PROVE  \E x \in T : \A y \in T : x <= y
  <1>1. \E x \in T : \A y \in T : ~ (<<y, x>> \in OpToRel(<, Nat))
    BY NatLessThanWellFounded, WFMin
  <1>2. PICK x \in T : \A y \in T : ~ (<<y, x>> \in OpToRel(<, Nat))
    BY <1>1
  <1>3. ASSUME NEW y \in T PROVE x <= y
    <2>1. y \in Nat /\ x \in Nat
      OBVIOUS
    <2>2. ~ (<<y, x>> \in OpToRel(<, Nat))
      BY <1>2
    <2>3. ~ (y < x)
      BY <2>1, <2>2 DEF OpToRel
    <2> QED BY <2>1, <2>3, SMT
  <1> QED BY <1>3

(* Min of a nonempty set of natural numbers is in it.                      *)
LEMMA MinInside ==
    ASSUME NEW T, T \subseteq Nat, T # {}
    PROVE  Min(T) \in T
  <1>1. \E x \in T : \A y \in T : x <= y
    BY LeastNat
  <1> QED BY <1>1, Zenon DEF Min

-----------------------------------------------------------------------------
(* ensure_array_capacity.  The loop grows the capacity by half; the least  *)
(* capacity it meets that is large enough exists, and is what it returns.  *)
Up(c) == c + c \div 2

Closed(c, T) == c \in T /\ \A y \in T : Up(y) \in T
Reached(c) == {x \in Nat : \A T \in SUBSET Nat : Closed(c, T) => x \in T}

Loop(g, size, extra) ==
    g = [c \in Nat |-> IF c - size >= extra THEN c ELSE g[c + c \div 2]]

LEMMA UpGrows ==
    ASSUME NEW c \in Nat
    PROVE  Up(c) \in Nat /\ Up(c) >= c /\ (c > 1 => Up(c) > c)
  BY SMT DEF Up

LEMMA ReachedUnfolds ==
    ASSUME NEW c \in Nat
    PROVE  /\ c \in Reached(c) /\ \A x \in Reached(c) : x >= c
           /\ Reached(c) = {c} \cup Reached(Up(c))
  <1>1. Up(c) \in Nat /\ \A y \in Nat : Up(y) \in Nat /\ Up(y) >= y
    BY UpGrows
  <1>2. c \in Reached(c)
    BY DEF Reached, Closed
  <1>3. ASSUME NEW x \in Reached(c) PROVE x >= c
    <2> DEFINE T == {y \in Nat : y >= c}
    <2>1. Closed(c, T)
      <3>1. c \in T
        OBVIOUS
      <3>2. ASSUME NEW y \in T PROVE Up(y) \in T
        <4>1. y \in Nat /\ y >= c /\ Up(y) \in Nat /\ Up(y) >= y
          BY <1>1
        <4> HIDE DEF Up
        <4> QED BY <4>1, SMT
      <3> QED BY <3>1, <3>2 DEF Closed
    <2> QED BY <2>1 DEF Reached
  <1>4. ASSUME NEW x \in Reached(c), x # c PROVE x \in Reached(Up(c))
    <2> SUFFICES ASSUME NEW T \in SUBSET Nat, Closed(Up(c), T) PROVE x \in T
      BY <1>4 DEF Reached
    <2>1. Closed(c, T \cup {c})
      BY DEF Closed
    <2> QED BY <1>4, <2>1 DEF Reached
  <1>5. ASSUME NEW x \in Reached(Up(c)) PROVE x \in Reached(c)
    BY <1>5 DEF Reached, Closed
  <1> QED BY <1>2, <1>3, <1>4, <1>5

LEMMA LoopExists ==
    ASSUME NEW size \in Nat, NEW extra \in Nat
    PROVE  \E g : Loop(g, size, extra)
  <1> DEFINE Enough(c) == {x \in Reached(c) : x - size >= extra}
             Least(T) == CHOOSE x \in T : \A y \in T : x <= y
             g == [c \in Nat |-> Least(Enough(c))]
  <1>1. ASSUME NEW c \in Nat, c - size >= extra PROVE Least(Enough(c)) = c
    <2>1. c \in Enough(c) /\ (\A y \in Enough(c) : c <= y) /\ Enough(c) \subseteq Nat
      <3>1. c \in Reached(c) /\ (\A x \in Reached(c) : x >= c) /\ Reached(c) \subseteq Nat
        BY ReachedUnfolds DEF Reached
      <3> QED BY <1>1, <3>1
    <2> DEFINE T == Enough(c)
    <2> HIDE DEF T
    <2>2. c \in T /\ (\A y \in T : c <= y) /\ T \subseteq Nat
      BY <2>1 DEF T
    <2>3. \A x \in T : (\A y \in T : x <= y) => x = c
      BY <2>2, SMT
    <2>4. Least(T) = c
      BY <2>2, <2>3, Zenon
    <2> QED BY <2>4 DEF T
  <1>2. ASSUME NEW c \in Nat, ~(c - size >= extra) PROVE Enough(c) = Enough(Up(c))
    BY <1>2, ReachedUnfolds
  <1>3. ASSUME NEW c \in Nat
        PROVE  g[c] = IF c - size >= extra THEN c ELSE g[c + c \div 2]
    <2>1. Up(c) \in Nat /\ Up(c) = c + c \div 2
      BY UpGrows DEF Up
    <2>2. g[c] = Least(Enough(c)) /\ g[Up(c)] = Least(Enough(Up(c)))
      BY <2>1
    <2>3. CASE c - size >= extra
      BY <1>1, <2>2, <2>3
    <2>4. CASE ~(c - size >= extra)
      <3>1. g[c] = g[Up(c)]
        BY <1>2, <2>2, <2>4
      <3> HIDE DEF g
      <3> QED BY <2>1, <2>4, <3>1
    <2> QED BY <2>3, <2>4
  <1>4. g = [c \in Nat |-> IF c - size >= extra THEN c ELSE g[c + c \div 2]]
    <2>1. g = [c \in Nat |-> g[c]]
      OBVIOUS
    <2> HIDE DEF g
    <2> QED BY <1>3, <2>1
  <1> HIDE DEF g
  <1> QED BY <1>4 DEF Loop

LEMMA LoopEnds ==
    ASSUME NEW size \in Nat, NEW extra \in Nat, NEW g, Loop(g, size, extra),
           NEW c \in Nat, c > 1
    PROVE  g[c] \in Nat /\ g[c] >= c /\ g[c] - size >= extra
  <1> DEFINE Good(x) == g[x] \in Nat /\ g[x] >= x /\ g[x] - size >= extra
  <1>1. \A x \in Nat : g[x] = IF x - size >= extra THEN x ELSE g[Up(x)]
    BY DEF Loop, Up
  <1>2. SUFFICES ASSUME ~Good(c) PROVE FALSE
    OBVIOUS
  <1> DEFINE Gap(x) == size + extra - x
             T == {n \in Nat : \E x \in Nat : x > 1 /\ ~Good(x) /\ n = Gap(x)}
  <1>3. ASSUME NEW x \in Nat, x > 1, ~Good(x)
        PROVE  Gap(x) \in T /\ ~(x - size >= extra)
    <2>1. ~(x - size >= extra)
      BY <1>1, <1>3
    <2>2. Gap(x) \in Nat
      BY <2>1
    <2> QED BY <1>3, <2>1, <2>2
  <1>4. T \subseteq Nat /\ T # {}
    BY <1>2, <1>3
  <1>5. PICK n \in T : \A k \in T : n <= k
    BY <1>4, LeastNat
  <1>6. PICK x \in Nat : x > 1 /\ ~Good(x) /\ n = Gap(x)
    BY <1>5
  <1>7. g[x] = g[Up(x)] /\ Up(x) \in Nat /\ Up(x) > x
    BY <1>1, <1>3, <1>6, UpGrows
  <1>8. ~Good(Up(x)) /\ Up(x) > 1
    BY <1>6, <1>7
  <1>9. Gap(Up(x)) \in T
    BY <1>3, <1>7, <1>8
  <1>10. n <= Gap(Up(x))
    BY <1>5, <1>9
  <1> QED BY <1>6, <1>7, <1>10

(* What is asked for fits the capacity there is afterwards.                *)
LEMMA EnsuredHasRoom ==
    ASSUME NEW capacity \in Nat, NEW size \in Nat, NEW extra \in Nat, capacity # 1
    PROVE  LET c == Ensured(capacity, size, extra) IN
           /\ c \in Nat /\ c - size >= extra /\ c >= capacity
           /\ capacity > 1 \/ extra > 0 => c > 1
  <1> DEFINE g == CHOOSE f : Loop(f, size, extra)
             start == IF capacity = 0 THEN FirstCapacity ELSE capacity
  <1>1. Loop(g, size, extra)
    BY LoopExists, Zenon
  <1>2. start \in Nat /\ start > 1 /\ start >= capacity
    BY GrowingArrayAssumption
  <1>3. Ensured(capacity, size, extra) = IF capacity - size >= extra THEN capacity ELSE g[start]
    BY Zenon DEF Ensured, Loop
  <1>4. g[start] \in Nat /\ g[start] >= start /\ g[start] - size >= extra
    BY <1>1, <1>2, LoopEnds
  <1> HIDE DEF g, start
  <1> DEFINE c == Ensured(capacity, size, extra)
  <1>5. c = IF capacity - size >= extra THEN capacity ELSE g[start]
    BY <1>3
  <1> HIDE DEF c
  <1>6. /\ c \in Nat /\ c - size >= extra /\ c >= capacity
        /\ capacity > 1 \/ extra > 0 => c > 1
    BY <1>2, <1>4, <1>5
  <1> QED BY <1>6 DEF c

-----------------------------------------------------------------------------
(* Sequences without repetition.                                           *)
LEMMA RangeAt ==
    ASSUME NEW S, NEW s \in Seq(S)
    PROVE  Range(s) = {s[k] : k \in 1 .. Len(s)} /\ Range(s) \subseteq S
  <1>1. DOMAIN s = 1 .. Len(s) /\ \A k \in 1 .. Len(s) : s[k] \in S
    BY LenProperties, ElementOfSeq
  <1> QED BY <1>1 DEF Range

LEMMA InjectiveAt ==
    ASSUME NEW S, NEW s \in Seq(S)
    PROVE  IsInjective(s) <=> \A j, k \in 1 .. Len(s) : s[j] = s[k] => j = k
  BY LenProperties DEF IsInjective

LEMMA ConcatOnce ==
    ASSUME NEW S, NEW s \in Seq(S), NEW t \in Seq(S)
    PROVE  /\ s \o t \in Seq(S) /\ Range(s \o t) = Range(s) \cup Range(t)
           /\ (IsInjective(s) /\ IsInjective(t) /\ Range(s) \cap Range(t) = {})
                => IsInjective(s \o t)
  <1> DEFINE c == s \o t
  <1>1. /\ c \in Seq(S) /\ Len(c) = Len(s) + Len(t)
        /\ \A k \in 1 .. Len(s) + Len(t) :
              c[k] = IF k <= Len(s) THEN s[k] ELSE t[k - Len(s)]
    BY ConcatProperties
  <1>2. Len(s) \in Nat /\ Len(t) \in Nat
    BY LenProperties
  <1>3. /\ Range(s) = {s[k] : k \in 1 .. Len(s)} /\ Range(t) = {t[k] : k \in 1 .. Len(t)}
    BY RangeAt
  <1> HIDE DEF c
  <1>4. Range(c) = {c[k] : k \in 1 .. Len(c)}
    BY <1>1, RangeAt
  <1>5. Range(c) = Range(s) \cup Range(t)
    <2>1. ASSUME NEW x \in Range(c) PROVE x \in Range(s) \cup Range(t)
      <3>1. PICK k \in 1 .. Len(c) : x = c[k]
        BY <1>4
      <3>2. CASE k <= Len(s)
        <4>1. k \in 1 .. Len(s) /\ x = s[k]
          BY <1>1, <1>2, <3>1, <3>2
        <4> QED BY <1>3, <4>1
      <3>3. CASE ~(k <= Len(s))
        <4>1. k - Len(s) \in 1 .. Len(t) /\ x = t[k - Len(s)]
          BY <1>1, <1>2, <3>1, <3>3
        <4> QED BY <1>3, <4>1
      <3> QED BY <3>2, <3>3
    <2>2. ASSUME NEW x \in Range(s) PROVE x \in Range(c)
      BY <1>1, <1>2, <1>3, <1>4
    <2>3. ASSUME NEW x \in Range(t) PROVE x \in Range(c)
      <3>1. PICK k \in 1 .. Len(t) : x = t[k]
        BY <1>3
      <3>2. Len(s) + k \in 1 .. Len(c) /\ c[Len(s) + k] = t[k]
        BY <1>1, <1>2
      <3> QED BY <1>4, <3>1, <3>2
    <2> QED BY <2>1, <2>2, <2>3
  <1>6. ASSUME IsInjective(s), IsInjective(t), Range(s) \cap Range(t) = {}
        PROVE  IsInjective(c)
    <2>1. /\ \A j, k \in 1 .. Len(s) : s[j] = s[k] => j = k
          /\ \A j, k \in 1 .. Len(t) : t[j] = t[k] => j = k
      BY <1>6, InjectiveAt
    <2>2. \A j \in 1 .. Len(s), k \in 1 .. Len(t) : s[j] # t[k]
      BY <1>3, <1>6
    <2>3. \A j, k \in 1 .. Len(c) : c[j] = c[k] => j = k
      <3> SUFFICES ASSUME NEW j \in 1 .. Len(c), NEW k \in 1 .. Len(c), c[j] = c[k]
                   PROVE  j = k
        OBVIOUS
      <3>1. CASE j <= Len(s) /\ k <= Len(s)
        BY <1>1, <1>2, <2>1, <3>1
      <3>2. CASE j <= Len(s) /\ ~(k <= Len(s))
        <4>1. k - Len(s) \in 1 .. Len(t) /\ j \in 1 .. Len(s)
          BY <1>1, <1>2, <3>2
        <4> QED BY <1>1, <1>2, <2>2, <3>2, <4>1
      <3>3. CASE ~(j <= Len(s)) /\ k <= Len(s)
        <4>1. j - Len(s) \in 1 .. Len(t) /\ k \in 1 .. Len(s)
          BY <1>1, <1>2, <3>3
        <4> QED BY <1>1, <1>2, <2>2, <3>3, <4>1
      <3>4. CASE ~(j <= Len(s)) /\ ~(k <= Len(s))
        <4>1. j - Len(s) \in 1 .. Len(t) /\ k - Len(s) \in 1 .. Len(t)
          BY <1>1, <1>2, <3>4
        <4>2. t[j - Len(s)] = t[k - Len(s)]
          BY <1>1, <1>2, <3>4
        <4>3. j - Len(s) = k - Len(s)
          BY <2>1, <4>1, <4>2
        <4> QED BY <1>1, <1>2, <4>3
      <3> QED BY <3>1, <3>2, <3>3, <3>4
    <2> QED BY <1>1, <2>3, InjectiveAt
  <1> QED BY <1>1, <1>5, <1>6 DEF c

LEMMA OneOnce ==
    ASSUME NEW S, NEW a \in S
    PROVE  <<a>> \in Seq(S) /\ Range(<<a>>) = {a} /\ IsInjective(<<a>>)
  <1>1. <<a>> \in Seq(S) /\ Len(<<a>>) = 1 /\ <<a>>[1] = a
    BY SMT
  <1> DEFINE s == <<a>>
  <1>2. s \in Seq(S) /\ Len(s) = 1 /\ s[1] = a
    BY <1>1
  <1> HIDE DEF s
  <1>3. Range(s) = {s[k] : k \in 1 .. Len(s)}
        /\ (IsInjective(s) <=> \A j, k \in 1 .. Len(s) : s[j] = s[k] => j = k)
    BY <1>2, RangeAt, InjectiveAt
  <1>4. Range(s) = {a} /\ IsInjective(s)
    BY <1>2, <1>3
  <1> QED BY <1>1, <1>4 DEF s

LEMMA TwoOnce ==
    ASSUME NEW S, NEW a \in S, NEW b \in S
    PROVE  <<a, b>> \in Seq(S) /\ Range(<<a, b>>) = {a, b} /\ (a # b => IsInjective(<<a, b>>))
  <1>1. <<a, b>> \in Seq(S) /\ Len(<<a, b>>) = 2 /\ <<a, b>>[1] = a /\ <<a, b>>[2] = b
    BY SMT
  <1>2. 1 .. 2 = {1, 2}
    BY SMT
  <1>3. Range(<<a, b>>) = {a, b}
    <2> DEFINE s == <<a, b>>
    <2>1. Range(s) = {s[k] : k \in {1, 2}}
      BY <1>1, <1>2, RangeAt
    <2> QED BY <1>1, <2>1
  <1> QED BY <1>1, <1>2, <1>3, InjectiveAt

LEMMA JoinOnce ==
    ASSUME NEW S, NEW a \in S, NEW b \in S, a # b
    PROVE  /\ <<a>> \o <<b>> \in Seq(S) /\ IsInjective(<<a>> \o <<b>>)
           /\ Range(<<a>> \o <<b>>) = {a, b}
  <1> DEFINE s == <<a>>
             t == <<b>>
  <1>1. /\ s \in Seq(S) /\ Range(s) = {a} /\ IsInjective(s)
        /\ t \in Seq(S) /\ Range(t) = {b} /\ IsInjective(t)
    BY OneOnce
  <1>2. Range(s) \cap Range(t) = {}
    BY <1>1
  <1> HIDE DEF s, t
  <1>3. s \o t \in Seq(S) /\ IsInjective(s \o t) /\ Range(s \o t) = Range(s) \cup Range(t)
    BY <1>1, <1>2, ConcatOnce
  <1> QED BY <1>1, <1>3 DEF s, t

LEMMA NoneOnce == /\ \A S : << >> \in Seq(S)
                  /\ Range(<< >>) = {} /\ IsInjective(<< >>) /\ Len(<< >>) = 0
  BY SMT DEF Range, IsInjective

LEMMA AppendOnce ==
    ASSUME NEW S, NEW s \in Seq(S), NEW a \in S
    PROVE  /\ Append(s, a) \in Seq(S) /\ Len(Append(s, a)) = Len(s) + 1
           /\ Range(Append(s, a)) = Range(s) \cup {a}
           /\ \A k \in 1 .. Len(s) : Append(s, a)[k] = s[k]
           /\ Append(s, a)[Len(s) + 1] = a
  <1>1. Append(s, a) = s \o <<a>>
    BY AppendIsConcat
  <1>2. Range(s \o <<a>>) = Range(s) \cup {a}
    <2> DEFINE t == <<a>>
    <2>1. t \in Seq(S) /\ Range(t) = {a}
      BY OneOnce
    <2> HIDE DEF t
    <2>2. Range(s \o t) = Range(s) \cup {a}
      BY <2>1, ConcatOnce
    <2> QED BY <2>2 DEF t
  <1>3. /\ Append(s, a) \in Seq(S) /\ Len(Append(s, a)) = Len(s) + 1
        /\ (\A k \in 1 .. Len(s) : Append(s, a)[k] = s[k])
        /\ Append(s, a)[Len(s) + 1] = a
    BY AppendProperties, LenProperties, SMT
  <1> QED BY <1>1, <1>2, <1>3

-----------------------------------------------------------------------------
(* Memory.                                                                 *)
Free(m) == {a \in Addresses : m[a] = FREE}

LEMMA FreeIsFinite ==
    ASSUME NEW m
    PROVE  IsFiniteSet(Free(m)) /\ Cardinality(Free(m)) \in Nat
  BY AstContextAssumption, FS_Subset, FS_CardinalityType DEF Free

(* malloc                                                                  *)
LEMMA PutFacts ==
    ASSUME NEW m, DOMAIN m = Addresses, m = [a \in Addresses |-> m[a]], Free(m) # {}, NEW x
    PROVE  /\ Place(m) \in Addresses /\ m[Place(m)] = FREE
           /\ Put(m, x) = [a \in Addresses |-> IF a = Place(m) THEN x ELSE m[a]]
  <1>1. Place(m) \in Free(m)
    BY AstContextAssumption, MinInside DEF Place, Free
  <1> QED BY <1>1 DEF Free, Put

LEMMA RoomForFour ==
    ASSUME HasRoom(4), NEW x, NEW y, NEW z
    PROVE  \E a \in Free(memory) : a \notin {x, y, z}
  <1> DEFINE T == ((Free(memory) \ {x}) \ {y}) \ {z}
             n == Cardinality(Free(memory))
  <1>1. n \in Nat /\ n >= 4 /\ IsFiniteSet(Free(memory))
    BY FreeIsFinite DEF HasRoom, Free
  <1>2. /\ IsFiniteSet(Free(memory) \ {x})
        /\ Cardinality(Free(memory) \ {x}) \in {n, n - 1}
    BY <1>1, FS_RemoveElement
  <1>3. /\ IsFiniteSet((Free(memory) \ {x}) \ {y})
        /\ Cardinality((Free(memory) \ {x}) \ {y}) \in {n, n - 1, n - 2}
    <2>1. Cardinality((Free(memory) \ {x}) \ {y}) \in
             {Cardinality(Free(memory) \ {x}), Cardinality(Free(memory) \ {x}) - 1}
      BY <1>2, FS_RemoveElement
    <2> HIDE DEF n
    <2> QED BY <1>1, <1>2, <2>1, FS_RemoveElement
  <1>4. Cardinality(T) \in {n, n - 1, n - 2, n - 3}
    <2> DEFINE U == (Free(memory) \ {x}) \ {y}
    <2>1. IsFiniteSet(U) /\ Cardinality(U) \in {n, n - 1, n - 2}
      BY <1>3
    <2> HIDE DEF U
    <2>2. Cardinality(U \ {z}) \in {Cardinality(U), Cardinality(U) - 1}
      BY <2>1, FS_RemoveElement
    <2> HIDE DEF n
    <2>3. Cardinality(U \ {z}) \in {n, n - 1, n - 2, n - 3}
      BY <1>1, <2>1, <2>2
    <2> QED BY <2>3 DEF U
  <1>5. T # {}
    <2>1. Cardinality(T) # 0
      <3> HIDE DEF n, T
      <3> QED BY <1>1, <1>4
    <2> QED BY <2>1, FS_EmptySet
  <1> QED BY <1>5

LEMMA RoomForOne ==
    ASSUME HasRoom(1)
    PROVE  Free(memory) # {}
  <1>1. Cardinality(Free(memory)) \in Nat /\ Cardinality(Free(memory)) >= 1
    BY FreeIsFinite DEF HasRoom, Free
  <1>2. Cardinality(Free(memory)) # 0
    BY <1>1
  <1> QED BY <1>2, FS_EmptySet

(* Everything is free after everything that was taken is freed once.       *)
LEMMA FreedAll ==
    ASSUME NEW m, NEW S, NEW blocks \in Seq(S), IsInjective(blocks),
           \A a \in Addresses : m[a] # FREE <=> a \in Range(blocks)
    PROVE  xfreeAll(m, blocks) = [a \in Addresses |-> FREE]
  <1> DEFINE places(a) == {k \in DOMAIN blocks : blocks[k] = a}
             result(a) == IF Cardinality(places(a)) = 0 THEN m[a]
                          ELSE IF Cardinality(places(a)) = 1 /\ m[a] # FREE THEN FREE
                          ELSE CORRUPTED
  <1>1. ASSUME NEW a \in Addresses PROVE result(a) = FREE
    <2>1. CASE m[a] = FREE
      <3>1. places(a) = {}
        BY <2>1 DEF Range
      <3> QED BY <2>1, <3>1, FS_EmptySet
    <2>2. CASE m[a] # FREE
      <3>1. PICK k \in DOMAIN blocks : blocks[k] = a
        BY <2>2 DEF Range
      <3>2. places(a) = {k}
        BY <3>1 DEF IsInjective
      <3>3. Cardinality(places(a)) = 1
        BY <3>2, FS_Singleton
      <3> QED BY <2>2, <3>3
    <2> QED BY <2>1, <2>2
  <1>2. xfreeAll(m, blocks) = [a \in Addresses |-> result(a)]
    BY DEF xfreeAll
  <1> QED BY <1>1, <1>2

-----------------------------------------------------------------------------
Holds(a, kinds) == a \in Addresses /\ memory[a] # FREE /\ memory[a].kind \in kinds

(* The array of files.                                                     *)
Items == IF ast.files = NULL THEN << >> ELSE memory[ast.files].items
Data(k) == memory[Items[k]].data

(* The keys of the set of strings, and what they read.                     *)
Keys == Range(ast.string_set)
KeyText(k) == IF k.size = 0 THEN NoText ELSE memory[k.data].text
IsKey(k) == \/ k = [data |-> NULL, size |-> 0]
            \/ /\ k = [data |-> k.data, size |-> 1]
               /\ Holds(k.data, {"string"}) /\ k.data \in Range(ast.arena)
               /\ memory[k.data].text \in Texts \ {NoText}

Types == /\ memory \in [Addresses -> Blocks \cup {FREE}]
         /\ buffer \in Texts
         /\ ast \in Contexts \cup {NULL}

Nothing == /\ strings = {} /\ sources = {}
           /\ \A a \in Addresses : memory[a] = FREE

(* Each block is of the kind its owner takes it for.                       *)
Owners ==
    /\ Holds(ast.at, {"context"}) /\ Holds(ast.storage, {"set"})
    /\ IsInjective(ast.arena)
    /\ \A a \in Range(ast.arena) : Holds(a, {"node", "string", "source"})
    /\ ast.files # NULL => Holds(ast.files, {"array"})

Files ==
    /\ Items \in Seq(Addresses) /\ Len(Items) = ast.files_size
    /\ ast.files_size <= ast.files_capacity
    /\ IF ast.files = NULL THEN ast.files_capacity = 0 ELSE ast.files_capacity > 1
    /\ \A k \in 1 .. ast.files_size :
          /\ Items[k] \in Range(ast.arena) /\ Holds(Items[k], {"source"})
          /\ Holds(Data(k), {"bytes"})
    /\ \A j, k \in 1 .. ast.files_size : Data(j) = Data(k) => j = k

(* Every block has an owner.                                               *)
Covered ==
    \A a \in Addresses : memory[a] # FREE =>
        \/ a \in {ast.at, ast.storage, ast.files} \cup Range(ast.arena)
        \/ \E k \in 1 .. ast.files_size : a = Data(k)

Names ==
    /\ \A k \in Keys : IsKey(k)
    /\ \A j, k \in Keys : KeyText(j) = KeyText(k) => j = k
    /\ \A s \in strings : s.string \in Keys /\ KeyText(s.string) = s.text

Sources ==
    \A f \in sources :
        /\ \E k \in 1 .. ast.files_size : f.at = Items[k]
        /\ memory[f.at].path \in Keys /\ KeyText(memory[f.at].path) = f.path
        /\ memory[memory[f.at].data] = Bytes(f.text)

AInv == Types /\ IF ast = NULL THEN Nothing
                               ELSE Owners /\ Files /\ Covered /\ Names /\ Sources

-----------------------------------------------------------------------------
LEMMA Made ==
    /\ \A k \in {"context", "set", "node", "none"} : [kind |-> k] \in Blocks
    /\ \A t \in Texts : [kind |-> "string", text |-> t] \in Blocks /\ Bytes(t) \in Blocks
    /\ \A p \in StringRefs, d \in Addresses :
          [kind |-> "source", path |-> p, data |-> d] \in Blocks
    /\ \A c \in Nat, items \in Seq(Addresses) :
          [kind |-> "array", capacity |-> c, items |-> items] \in Blocks
  BY DEF Blocks, Bytes

LEMMA NotFree == \A b \in Blocks : b # FREE /\ b # CORRUPTED
  BY AstContextAssumption

LEMMA NotNull == NULL \notin Addresses /\ NULL \notin Contexts /\ BUFFER \notin Addresses
  BY AstContextAssumption

LEMMA InitAInv == Init => AInv
  <1> SUFFICES ASSUME Init PROVE AInv
    OBVIOUS
  <1>1. Types
    BY DEF Init, Types
  <1>2. Nothing /\ ast = NULL
    BY DEF Init, Nothing
  <1> QED BY <1>1, <1>2 DEF AInv

(* Different addresses for everything that AstContext_new makes.           *)
LEMMA PlacesExist ==
    ASSUME NEW n \in Nat, HasRoom(n)
    PROVE  \E p \in [1 .. n -> Free(memory)] : IsInjective(p)
  <1> DEFINE c == Cardinality(Free(memory))
  <1>1. c \in Nat /\ n <= c /\ ExistsBijection(1 .. c, Free(memory))
    BY FreeIsFinite, FS_CardinalityType DEF HasRoom, Free
  <1>2. PICK f \in Bijection(1 .. c, Free(memory)) : TRUE
    BY <1>1 DEF ExistsBijection
  <1> HIDE DEF c
  <1>3. f \in [1 .. c -> Free(memory)] /\ \A j, k \in 1 .. c : f[j] = f[k] => j = k
    BY <1>2 DEF Bijection, Injection, IsInjective
  <1> DEFINE p == [k \in 1 .. n |-> f[k]]
  <1>4. 1 .. n \subseteq 1 .. c
    BY <1>1
  <1>5. p \in [1 .. n -> Free(memory)] /\ \A j, k \in 1 .. n : p[j] = p[k] => j = k
    BY <1>3, <1>4
  <1>6. IsInjective(p)
    BY <1>5 DEF IsInjective
  <1> QED BY <1>5, <1>6

LEMMA NewStep == AInv /\ New => AInv'
  <1> SUFFICES ASSUME AInv, New PROVE AInv'
    OBVIOUS
  <1> DEFINE n == Nodes + 2
             place == CHOOSE p \in [1 .. n -> {a \in Addresses : memory[a] = FREE}] :
                         IsInjective(p)
             content(a) == CASE a = place[1] -> [kind |-> "context"]
                             [] a = place[2] -> [kind |-> "set"]
                             [] a \in Range(place) \ {place[1], place[2]} -> [kind |-> "node"]
                             [] a \notin Range(place) -> memory[a]
             arena == [k \in 1 .. Nodes |-> place[k + 2]]
             context == [at |-> place[1], string_set |-> << >>, storage |-> place[2],
                         arena |-> arena,
                         files |-> NULL, files_size |-> 0, files_capacity |-> 0]
  <1>1. /\ ast = NULL /\ HasRoom(n) /\ memory' = [a \in Addresses |-> content(a)]
        /\ ast' = context /\ UNCHANGED <<buffer, strings, sources>>
    BY DEF New
  <1>2. Nodes \in Nat /\ n \in Nat /\ 1 \in 1 .. n /\ 2 \in 1 .. n
        /\ \A k \in 1 .. Nodes : k + 2 \in 1 .. n
    BY AstContextAssumption
  <1>3. place \in [1 .. n -> Free(memory)] /\ IsInjective(place)
    BY <1>1, <1>2, PlacesExist DEF Free
  <1> HIDE DEF place
  <1>4. /\ \A k \in 1 .. n : place[k] \in Addresses
        /\ \A j, k \in 1 .. n : place[j] = place[k] => j = k
        /\ Range(place) = {place[k] : k \in 1 .. n}
    BY <1>3 DEF Free, IsInjective, Range
  <1>5. Nothing /\ buffer \in Texts
    BY <1>1 DEF AInv, Types
  <1>6. \A a \in Addresses : memory'[a] = content(a)
    BY <1>1
  <1>7. /\ memory'[place[1]] = [kind |-> "context"]
        /\ memory'[place[2]] = [kind |-> "set"]
        /\ \A k \in 1 .. Nodes : memory'[place[k + 2]] = [kind |-> "node"]
        /\ \A a \in Addresses : memory'[a] # FREE => a \in Range(place)
    <2>1. memory'[place[1]] = [kind |-> "context"] /\ memory'[place[2]] = [kind |-> "set"]
      BY <1>2, <1>4, <1>6
    <2>2. ASSUME NEW k \in 1 .. Nodes PROVE memory'[place[k + 2]] = [kind |-> "node"]
      <3>1. k + 2 \in 1 .. n /\ k + 2 # 1 /\ k + 2 # 2
        BY <1>2
      <3>2. place[k + 2] \in Range(place) /\ place[k + 2] # place[1] /\ place[k + 2] # place[2]
        BY <1>2, <1>4, <3>1
      <3> QED BY <1>4, <1>6, <3>1, <3>2
    <2>3. ASSUME NEW a \in Addresses, a \notin Range(place) PROVE memory'[a] = FREE
      <3>1. a # place[1] /\ a # place[2]
        BY <1>2, <1>4, <2>3
      <3>2. memory'[a] = memory[a]
        BY <1>6, <2>3, <3>1
      <3> QED BY <1>5, <3>2 DEF Nothing
    <2> QED BY <2>1, <2>2, <2>3
  <1>8. arena \in Seq(Addresses) /\ Len(arena) = Nodes
        /\ \A k \in 1 .. Nodes : arena[k] = place[k + 2]
    BY <1>2, <1>4, SMT
  <1>9. context \in Contexts
    <2>1. << >> \in Seq(StringRefs) /\ place[1] \in Addresses /\ place[2] \in Addresses
      BY <1>2, <1>4, NoneOnce
    <2> HIDE DEF arena
    <2> QED BY <1>8, <2>1 DEF Contexts
  <1>10. Types'
    <2>1. ast' \in Contexts
      BY <1>1, <1>9
    <2>2. \A a \in Addresses : memory'[a] \in Blocks \cup {FREE}
      <3>1. ASSUME NEW a \in Range(place) PROVE memory'[a] \in Blocks
        <4>1. PICK k \in 1 .. n : a = place[k]
          BY <1>4
        <4>2. k = 1 \/ k = 2 \/ (k - 2 \in 1 .. Nodes /\ k = (k - 2) + 2)
          BY <1>2
        <4> QED BY <1>7, <4>1, <4>2, Made
      <3> QED BY <1>7, <3>1
    <2>3. memory' \in [Addresses -> Blocks \cup {FREE}]
      <3>1. memory' = [a \in Addresses |-> memory'[a]]
        BY <1>1
      <3> QED BY <2>2, <3>1
    <2> HIDE DEF context
    <2> QED BY <1>1, <1>5, <2>1, <2>3 DEF Types
  <1> HIDE DEF arena
  <1>11. ast' # NULL
    <2> HIDE DEF context
    <2> QED BY <1>1, <1>9, NotNull
  <1>12. Range(arena) = {place[k + 2] : k \in 1 .. Nodes} /\ IsInjective(arena)
    <2>1. Range(arena) = {arena[k] : k \in 1 .. Len(arena)}
      BY <1>8, RangeAt
    <2>2. \A j, k \in 1 .. Len(arena) : arena[j] = arena[k] => j = k
      <3> SUFFICES ASSUME NEW j \in 1 .. Nodes, NEW k \in 1 .. Nodes, arena[j] = arena[k]
                   PROVE  j = k
        BY <1>8
      <3>1. j + 2 \in 1 .. n /\ k + 2 \in 1 .. n /\ place[j + 2] = place[k + 2]
        BY <1>2, <1>8
      <3>2. j + 2 = k + 2
        BY <1>4, <3>1
      <3> QED BY <3>2
    <2>3. IsInjective(arena)
      BY <1>8, <2>2, InjectiveAt
    <2> QED BY <1>8, <2>1, <2>3
  <1>13. /\ ast'.at = place[1] /\ ast'.storage = place[2] /\ ast'.arena = arena
         /\ ast'.files = NULL /\ ast'.files_size = 0 /\ ast'.files_capacity = 0
         /\ ast'.string_set = << >>
    BY <1>1
  <1>14. Owners'
    <2>1. Holds(ast.at, {"context"})' /\ Holds(ast.storage, {"set"})'
      BY <1>2, <1>4, <1>7, <1>13, Made, NotFree DEF Holds
    <2>2. ASSUME NEW a \in Range(arena) PROVE Holds(a, {"node", "string", "source"})'
      <3>1. PICK k \in 1 .. Nodes : a = place[k + 2]
        BY <1>12
      <3>2. a \in Addresses /\ memory'[a] = [kind |-> "node"]
        BY <1>2, <1>4, <1>7, <3>1
      <3> QED BY <3>2, Made, NotFree DEF Holds
    <2> QED BY <1>12, <1>13, <2>1, <2>2 DEF Owners
  <1>15. Files'
    <2>1. Items' = << >>
      BY <1>13 DEF Items
    <2> QED BY <1>13, <2>1, NoneOnce DEF Files
  <1>16. Covered'
    <2> SUFFICES ASSUME NEW a \in Addresses, memory'[a] # FREE
                 PROVE  a \in {ast'.at, ast'.storage} \cup Range(ast'.arena)
      BY DEF Covered
    <2>1. PICK k \in 1 .. n : a = place[k]
      BY <1>4, <1>7
    <2>2. k = 1 \/ k = 2 \/ (k - 2 \in 1 .. Nodes /\ k = (k - 2) + 2)
      BY <1>2
    <2> QED BY <1>12, <1>13, <2>1, <2>2
  <1>17. Names' /\ Sources'
    <2>1. Keys' = {}
      BY <1>13, NoneOnce DEF Keys
    <2> QED BY <1>1, <1>5, <2>1 DEF Nothing, Names, Sources
  <1> QED BY <1>10, <1>11, <1>14, <1>15, <1>16, <1>17 DEF AInv

-----------------------------------------------------------------------------
(* What the operations that add something leave alone: every block but the *)
(* array of files, and the chunks there were.                              *)
Kept == \A a \in Addresses : memory[a] # FREE /\ a # ast.files => memory'[a] = memory[a]

LEMMA KeysKept ==
    ASSUME AInv, ast # NULL, Kept, Range(ast.arena) \subseteq Range(ast'.arena),
           NEW k \in Keys
    PROVE  IsKey(k)' /\ KeyText(k)' = KeyText(k)
  <1>1. IsKey(k)
    BY DEF AInv, Names
  <1>2. CASE k = [data |-> NULL, size |-> 0]
    BY <1>2 DEF IsKey, KeyText
  <1>3. CASE k # [data |-> NULL, size |-> 0]
    <2>1. /\ k = [data |-> k.data, size |-> 1] /\ k.size = 1
          /\ Holds(k.data, {"string"}) /\ k.data \in Range(ast.arena)
          /\ memory[k.data].text \in Texts \ {NoText}
      BY <1>1, <1>3 DEF IsKey
    <2>2. k.data # ast.files
      BY <2>1, NotNull DEF AInv, Owners, Holds
    <2>3. memory'[k.data] = memory[k.data]
      BY <2>1, <2>2 DEF Kept, Holds
    <2> QED BY <2>1, <2>3 DEF IsKey, KeyText, Holds
  <1> QED BY <1>2, <1>3

(* More chunks at the front of the arena, none of them taken before.       *)
LEMMA ArenaGrows ==
    ASSUME AInv, ast # NULL, Kept, ast'.at = ast.at, ast'.storage = ast.storage,
           NEW A \in Seq(Addresses), IsInjective(A), ast'.arena = A \o ast.arena,
           \A a \in Range(A) : memory[a] = FREE /\ Holds(a, {"node", "string", "source"})',
           ast'.files # NULL => Holds(ast.files, {"array"})'
    PROVE  /\ ast'.arena \in Seq(Addresses)
           /\ Range(ast'.arena) = Range(A) \cup Range(ast.arena)
           /\ Owners'
  <1>1. ast \in Contexts /\ ast.arena \in Seq(Addresses) /\ Owners
    BY DEF AInv, Types, Contexts
  <1>2. Range(A) \cap Range(ast.arena) = {}
    BY <1>1 DEF Owners, Holds
  <1>3. /\ ast'.arena \in Seq(Addresses)
        /\ Range(ast'.arena) = Range(A) \cup Range(ast.arena)
        /\ IsInjective(ast'.arena)
    BY <1>1, <1>2, ConcatOnce DEF Owners
  <1>4. ASSUME NEW a, NEW kinds, Holds(a, kinds), "array" \notin kinds
        PROVE  Holds(a, kinds)'
    <2>1. a # ast.files
      BY <1>1, <1>4, NotNull DEF Owners, Holds
    <2> QED BY <1>4, <2>1 DEF Holds, Kept
  <1>5. Holds(ast.at, {"context"})' /\ Holds(ast.storage, {"set"})'
    <2>1. /\ ast.at # ast.files /\ ast.storage # ast.files
          /\ Holds(ast.at, {"context"}) /\ Holds(ast.storage, {"set"})
      BY <1>1, NotNull DEF Owners, Holds
    <2>2. memory'[ast.at] = memory[ast.at] /\ memory'[ast.storage] = memory[ast.storage]
      BY <2>1 DEF Kept, Holds
    <2> QED BY <2>1, <2>2 DEF Holds
  <1>6. \A a \in Range(ast'.arena) : Holds(a, {"node", "string", "source"})'
    BY <1>1, <1>3, <1>4 DEF Owners
  <1>7. Owners'
    BY <1>3, <1>5, <1>6 DEF Owners
  <1> QED BY <1>3, <1>7

(* A string that is in the set, or becomes the last key of it.             *)
LEMMA NamesStay ==
    ASSUME AInv, ast # NULL, Kept, Range(ast.arena) \subseteq Range(ast'.arena),
           NEW key,
           \/ /\ key \in Keys /\ KeyText(key) = buffer
              /\ ast'.string_set = ast.string_set
           \/ /\ \A k \in Keys : KeyText(k) # buffer
              /\ key \in StringRefs /\ IsKey(key)' /\ KeyText(key)' = buffer
              /\ ast'.string_set = Append(ast.string_set, key),
           strings' \in {strings, strings \cup {[text |-> buffer, string |-> key]}}
    PROVE  /\ Names' /\ key \in Keys' /\ KeyText(key)' = buffer
           /\ ast'.string_set \in Seq(StringRefs)
           /\ \A k \in Keys : k \in Keys' /\ KeyText(k)' = KeyText(k)
  <1>1. ast \in Contexts /\ ast.string_set \in Seq(StringRefs) /\ Names
    BY DEF AInv, Types, Contexts
  <1>2. \A k \in Keys : IsKey(k)' /\ KeyText(k)' = KeyText(k)
    BY KeysKept
  <1>3. /\ Keys' = Keys \cup {key} /\ IsKey(key)' /\ KeyText(key)' = buffer
        /\ ast'.string_set \in Seq(StringRefs)
        /\ key \in Keys \/ \A k \in Keys : KeyText(k) # buffer
    <2>1. CASE key \in Keys /\ KeyText(key) = buffer /\ ast'.string_set = ast.string_set
      BY <1>1, <1>2, <2>1 DEF Keys
    <2>2. CASE /\ \A k \in Keys : KeyText(k) # buffer
               /\ key \in StringRefs /\ IsKey(key)' /\ KeyText(key)' = buffer
               /\ ast'.string_set = Append(ast.string_set, key)
      <3>1. /\ ast'.string_set \in Seq(StringRefs)
            /\ Range(ast'.string_set) = Range(ast.string_set) \cup {key}
        BY <1>1, <2>2, AppendOnce
      <3> QED BY <2>2, <3>1 DEF Keys
    <2> QED BY <2>1, <2>2
  <1>4. \A k \in Keys' : IsKey(k)'
    BY <1>2, <1>3
  <1>5. ASSUME NEW j \in Keys', NEW k \in Keys', KeyText(j)' = KeyText(k)' PROVE j = k
    <2>1. \A x, y \in Keys : KeyText(x) = KeyText(y) => x = y
      BY <1>1 DEF Names
    <2> QED BY <1>2, <1>3, <1>5, <2>1
  <1>6. ASSUME NEW t \in strings' PROVE t.string \in Keys' /\ KeyText(t.string)' = t.text
    <2>1. CASE t \in strings
      BY <1>1, <1>2, <1>3, <2>1 DEF Names
    <2>2. CASE t = [text |-> buffer, string |-> key]
      BY <1>3, <2>2
    <2> QED BY <1>6, <2>1, <2>2
  <1>7. Names'
    BY <1>4, <1>5, <1>6 DEF Names
  <1> QED BY <1>2, <1>3, <1>7

(* The files, when none is added.                                          *)
LEMMA FilesStay ==
    ASSUME AInv, ast # NULL, Kept, sources' = sources,
           ast.files # NULL => memory'[ast.files] = memory[ast.files],
           ast'.files = ast.files, ast'.files_size = ast.files_size,
           ast'.files_capacity = ast.files_capacity,
           Range(ast.arena) \subseteq Range(ast'.arena),
           \A k \in Keys : k \in Keys' /\ KeyText(k)' = KeyText(k)
    PROVE  /\ Files' /\ Sources'
           /\ \A k \in 1 .. ast.files_size : Data(k)' = Data(k)
  <1>1. Owners /\ Files /\ Sources
    BY DEF AInv
  <1>2. Items' = Items
    BY DEF Items
  <1>3. ASSUME NEW k \in 1 .. ast.files_size
        PROVE  /\ memory'[Items[k]] = memory[Items[k]] /\ Data(k)' = Data(k)
               /\ memory'[Data(k)] = memory[Data(k)]
    <2>1. Holds(Items[k], {"source"}) /\ Holds(Data(k), {"bytes"})
      BY <1>1 DEF Files
    <2>2. Items[k] # ast.files /\ Data(k) # ast.files
      BY <1>1, <2>1, NotNull DEF Owners, Holds
    <2>3. memory'[Items[k]] = memory[Items[k]] /\ memory'[Data(k)] = memory[Data(k)]
      BY <2>1, <2>2 DEF Kept, Holds
    <2> QED BY <1>2, <2>3 DEF Data
  <1>4. Files'
    <2>1. ASSUME NEW k \in 1 .. ast.files_size
          PROVE  /\ Items'[k] \in Range(ast'.arena) /\ Holds(Items[k], {"source"})'
                 /\ Holds(Data(k), {"bytes"})'
      BY <1>1, <1>2, <1>3 DEF Files, Holds
    <2>2. \A j, k \in 1 .. ast.files_size : Data(j)' = Data(k)' => j = k
      BY <1>1, <1>3 DEF Files
    <2>3. /\ Items' \in Seq(Addresses) /\ Len(Items') = ast'.files_size
          /\ ast'.files_size <= ast'.files_capacity
          /\ IF ast'.files = NULL THEN ast'.files_capacity = 0 ELSE ast'.files_capacity > 1
      BY <1>1, <1>2 DEF Files
    <2> QED BY <2>1, <2>2, <2>3 DEF Files
  <1>5. Sources'
    <2> SUFFICES ASSUME NEW f \in sources
                 PROVE  /\ \E k \in 1 .. ast'.files_size : f.at = Items'[k]
                        /\ memory'[f.at].path \in Keys' /\ KeyText(memory[f.at].path)' = f.path
                        /\ memory'[memory'[f.at].data] = Bytes(f.text)
      BY DEF Sources
    <2>1. PICK k \in 1 .. ast.files_size : f.at = Items[k]
      BY <1>1 DEF Sources
    <2>2. /\ memory[f.at].path \in Keys /\ KeyText(memory[f.at].path) = f.path
          /\ memory[memory[f.at].data] = Bytes(f.text)
      BY <1>1 DEF Sources
    <2>3. memory'[f.at] = memory[f.at] /\ memory'[memory[f.at].data] = memory[memory[f.at].data]
      BY <1>3, <2>1 DEF Data
    <2>4. memory'[f.at].path \in Keys' /\ KeyText(memory[f.at].path)' = f.path
      <3> DEFINE q == memory[f.at].path
      <3>1. q \in Keys /\ KeyText(q) = f.path /\ memory'[f.at].path = q
        BY <2>2, <2>3
      <3> QED BY <3>1
    <2> QED BY <1>2, <2>1, <2>2, <2>3, <2>4
  <1> QED BY <1>3, <1>4, <1>5

-----------------------------------------------------------------------------
(* AstContext_add_string of the caller's buffer, in its two cases.         *)
Copied(m) == [data |-> IF buffer = NoText THEN NULL ELSE Place(m),
              size |-> IF buffer = NoText THEN 0 ELSE 1]

LEMMA InternedCases ==
    ASSUME AInv, ast # NULL, NEW c, c.string_set = ast.string_set, NEW m
    PROVE  \/ \E k \in Keys :
                 /\ KeyText(k) = buffer
                 /\ Interned(c, m, InBuffer) = [context |-> c, memory |-> m, string |-> k]
           \/ /\ \A k \in Keys : KeyText(k) # buffer
              /\ Interned(c, m, InBuffer) =
                    [context |-> [Allocated(c, m) EXCEPT !.string_set = Append(@, Copied(m))],
                     memory |-> Put(m, [kind |-> "string", text |-> buffer]),
                     string |-> Copied(m)]
  <1>1. Names
    BY DEF AInv
  <1>2. ASSUME NEW k \in Keys PROVE Text(k) = KeyText(k)
    <2>1. IsKey(k)
      BY <1>1 DEF Names
    <2>2. k.size = 0 \/ k.data # BUFFER
      BY <2>1, NotNull DEF IsKey, Holds
    <2> QED BY <2>2 DEF Text, KeyText
  <1>3. Text(InBuffer) = buffer /\ InBuffer.size = IF buffer = NoText THEN 0 ELSE 1
    BY DEF Text, InBuffer
  <1>4. InBuffer.size = 0 <=> buffer = NoText
    BY <1>3
  <1> DEFINE known == {k \in Range(c.string_set) : Text(k) = Text(InBuffer)}
             copy == [data |-> IF InBuffer.size = 0 THEN NULL ELSE Place(m),
                      size |-> InBuffer.size]
  <1>5. copy = Copied(m)
    BY <1>3, <1>4, Zenon DEF Copied
  <1>6. known = {k \in Keys : KeyText(k) = buffer}
    BY <1>2, <1>3 DEF Keys
  <1>7. Interned(c, m, InBuffer) =
          IF known # {} THEN [context |-> c, memory |-> m, string |-> CHOOSE k \in known : TRUE]
          ELSE [context |-> [Allocated(c, m) EXCEPT !.string_set = Append(@, copy)],
                memory |-> Put(m, [kind |-> "string", text |-> Text(InBuffer)]),
                string |-> copy]
    BY Zenon DEF Interned
  <1> HIDE DEF known, copy
  <1>8. CASE known # {}
    <2>1. (CHOOSE k \in known : TRUE) \in known
      BY <1>8
    <2> QED BY <1>6, <1>7, <1>8, <2>1
  <1>9. CASE known = {}
    BY <1>3, <1>5, <1>6, <1>7, <1>9
  <1> QED BY <1>8, <1>9

LEMMA CopiedIsKey ==
    ASSUME buffer \in Texts, NEW m, NEW a \in Addresses, a = Place(m),
           memory'[a] = [kind |-> "string", text |-> buffer], a \in Range(ast'.arena),
           NEW key, key = Copied(m)
    PROVE  key \in StringRefs /\ IsKey(key)' /\ KeyText(key)' = buffer
  <1>1. memory'[a] \in Blocks /\ memory'[a] # FREE
    BY Made, NotFree
  <1>2. CASE buffer = NoText
    <2>1. key = [data |-> NULL, size |-> 0]
      BY <1>2 DEF Copied
    <2> QED BY <1>2, <2>1 DEF StringRefs, IsKey, KeyText
  <1>3. CASE buffer # NoText
    <2>1. key = [data |-> a, size |-> 1]
      BY <1>3 DEF Copied
    <2> QED BY <1>1, <1>3, <2>1 DEF StringRefs, IsKey, KeyText, Holds
  <1> QED BY <1>2, <1>3

-----------------------------------------------------------------------------
LEMMA AddStringStep == AInv /\ AddString => AInv'
  <1> SUFFICES ASSUME AInv, AddString PROVE AInv'
    OBVIOUS
  <1> DEFINE result == Interned(ast, memory, InBuffer)
             block == [kind |-> "string", text |-> buffer]
  <1>1. /\ ast # NULL /\ HasRoom(1)
        /\ ast' = result.context /\ memory' = result.memory
        /\ strings' = strings \cup {[text |-> buffer, string |-> result.string]}
        /\ UNCHANGED <<buffer, sources>>
    BY DEF AddString
  <1>2. Types /\ ast \in Contexts /\ buffer \in Texts
    BY <1>1 DEF AInv, Types
  <1>3. CASE \E k \in Keys :
                 /\ KeyText(k) = buffer
                 /\ result = [context |-> ast, memory |-> memory, string |-> k]
    <2>1. PICK k \in Keys : /\ KeyText(k) = buffer
                            /\ result = [context |-> ast, memory |-> memory, string |-> k]
      BY <1>3
    <2> HIDE DEF result
    <2>2. /\ ast' = ast /\ memory' = memory
          /\ strings' = strings \cup {[text |-> buffer, string |-> k]}
      BY <1>1, <2>1
    <2>3. Kept
      BY <2>2 DEF Kept
    <2>4. Names' /\ \A j \in Keys : j \in Keys' /\ KeyText(j)' = KeyText(j)
      BY <1>1, <2>1, <2>2, <2>3, NamesStay
    <2>5. Files' /\ Sources'
      BY <1>1, <2>2, <2>3, <2>4, FilesStay
    <2>6. Types' /\ Owners' /\ Covered'
      BY <1>1, <1>2, <2>2 DEF AInv, Types, Owners, Covered, Holds, Data, Items
    <2> QED BY <1>1, <2>2, <2>4, <2>5, <2>6 DEF AInv
  <1>4. CASE /\ \A k \in Keys : KeyText(k) # buffer
             /\ result = [context |-> [Allocated(ast, memory) EXCEPT
                                           !.string_set = Append(@, Copied(memory))],
                          memory |-> Put(memory, block), string |-> Copied(memory)]
    <2>1. PICK a \in Addresses :
            /\ a = Place(memory) /\ memory[a] = FREE
            /\ memory' = [x \in Addresses |-> IF x = a THEN block ELSE memory[x]]
      <3>1. DOMAIN memory = Addresses /\ memory = [x \in Addresses |-> memory[x]]
        BY <1>2 DEF Types
      <3>2. memory' = Put(memory, block)
        BY <1>1, <1>4
      <3> DEFINE p == Place(memory)
      <3>3. /\ p \in Addresses /\ memory[p] = FREE
            /\ memory' = [x \in Addresses |-> IF x = p THEN block ELSE memory[x]]
        BY <1>1, <3>1, <3>2, RoomForOne, PutFacts
      <3> HIDE DEF block
      <3> QED BY <3>3
    <2>2. PICK key : key = Copied(memory)
      OBVIOUS
    <2>3. ast' = [ast EXCEPT !.arena = <<a>> \o ast.arena,
                             !.string_set = Append(ast.string_set, key)]
          /\ strings' = strings \cup {[text |-> buffer, string |-> key]}
      BY <1>1, <1>2, <1>4, <2>2, <2>1 DEF Allocated, Contexts
    <2> HIDE DEF result
    <2>4. /\ ast'.at = ast.at /\ ast'.storage = ast.storage /\ ast'.files = ast.files
          /\ ast'.files_size = ast.files_size /\ ast'.files_capacity = ast.files_capacity
          /\ ast'.arena = <<a>> \o ast.arena
          /\ ast'.string_set = Append(ast.string_set, key)
      BY <1>2, <2>3 DEF Contexts
    <2>5. block \in Blocks /\ block # FREE /\ memory'[a] = block
      BY <1>2, <2>1, Made, NotFree
    <2>6. Kept /\ \A x \in Addresses : memory[x] # FREE => memory'[x] = memory[x]
      BY <2>1 DEF Kept
    <2>7. ast.files # NULL => /\ memory'[ast.files] = memory[ast.files]
                             /\ Holds(ast.files, {"array"})'
      BY <1>1, <2>4, <2>6 DEF AInv, Owners, Holds
    <2> DEFINE A == <<a>>
    <2>8. A \in Seq(Addresses) /\ Range(A) = {a} /\ IsInjective(A)
      BY <2>1, OneOnce
    <2>9. Holds(a, {"node", "string", "source"})'
      <3>1. block.kind = "string"
        OBVIOUS
      <3> HIDE DEF block
      <3> QED BY <2>1, <2>5, <3>1 DEF Holds
    <2>10. ast'.arena = A \o ast.arena
      BY <2>4
    <2> HIDE DEF A
    <2>11. /\ ast'.arena \in Seq(Addresses) /\ Owners'
           /\ Range(ast'.arena) = {a} \cup Range(ast.arena)
      BY <1>1, <2>1, <2>4, <2>6, <2>7, <2>8, <2>9, <2>10, ArenaGrows
    <2>12. key \in StringRefs /\ IsKey(key)' /\ KeyText(key)' = buffer
      BY <1>2, <2>2, <2>1, <2>5, <2>11, CopiedIsKey
    <2>13. /\ Names' /\ ast'.string_set \in Seq(StringRefs)
           /\ \A k \in Keys : k \in Keys' /\ KeyText(k)' = KeyText(k)
      BY <1>1, <1>4, <2>3, <2>4, <2>6, <2>11, <2>12, NamesStay
    <2>14. /\ Files' /\ Sources' /\ \A k \in 1 .. ast.files_size : Data(k)' = Data(k)
      BY <1>1, <2>4, <2>6, <2>7, <2>11, <2>13, FilesStay
    <2>15. ast' \in Contexts
      BY <1>2, <2>3, <2>11, <2>13, <2>4 DEF Contexts
    <2>16. Types'
      BY <1>1, <1>2, <2>1, <2>5, <2>15 DEF Types
    <2>17. Covered'
      BY <1>1, <2>1, <2>4, <2>11, <2>14 DEF AInv, Covered
    <2> QED BY <2>11, <2>13, <2>14, <2>15, <2>16, <2>17, NotNull DEF AInv
  <1> QED BY <1>1, <1>3, <1>4, InternedCases

LEMMA AllocateStep == AInv /\ Allocate => AInv'
  <1> SUFFICES ASSUME AInv, Allocate PROVE AInv'
    OBVIOUS
  <1> DEFINE block == [kind |-> "node"]
  <1>1. /\ ast # NULL /\ HasRoom(1)
        /\ ast' = Allocated(ast, memory) /\ memory' = Put(memory, block)
        /\ UNCHANGED <<buffer, strings, sources>>
    BY DEF Allocate
  <1>2. Types /\ ast \in Contexts /\ buffer \in Texts
    BY <1>1 DEF AInv, Types
  <1>3. PICK a \in Addresses :
          /\ a = Place(memory) /\ memory[a] = FREE
          /\ memory' = [x \in Addresses |-> IF x = a THEN block ELSE memory[x]]
    <2>1. DOMAIN memory = Addresses /\ memory = [x \in Addresses |-> memory[x]]
      BY <1>2 DEF Types
    <2> DEFINE p == Place(memory)
    <2>2. /\ p \in Addresses /\ memory[p] = FREE
          /\ memory' = [x \in Addresses |-> IF x = p THEN block ELSE memory[x]]
      BY <1>1, <2>1, RoomForOne, PutFacts
    <2> HIDE DEF block
    <2> QED BY <2>2
  <1>4. ast' = [ast EXCEPT !.arena = <<a>> \o ast.arena]
    BY <1>1, <1>2, <1>3 DEF Allocated, Contexts
  <1>5. /\ ast'.at = ast.at /\ ast'.storage = ast.storage /\ ast'.files = ast.files
        /\ ast'.files_size = ast.files_size /\ ast'.files_capacity = ast.files_capacity
        /\ ast'.arena = <<a>> \o ast.arena
        /\ ast'.string_set = ast.string_set
    BY <1>2, <1>4 DEF Contexts
  <1>6. block \in Blocks /\ block # FREE /\ memory'[a] = block
    BY <1>2, <1>3, Made, NotFree
  <1>7. Kept /\ \A x \in Addresses : memory[x] # FREE => memory'[x] = memory[x]
    BY <1>3 DEF Kept
  <1>8. ast.files # NULL => /\ memory'[ast.files] = memory[ast.files]
                           /\ Holds(ast.files, {"array"})'
    BY <1>1, <1>5, <1>7 DEF AInv, Owners, Holds
  <1> DEFINE A == <<a>>
  <1>9. A \in Seq(Addresses) /\ Range(A) = {a} /\ IsInjective(A)
    BY <1>3, OneOnce
  <1>10. Holds(a, {"node", "string", "source"})'
    <2>1. block.kind = "node"
      OBVIOUS
    <2> HIDE DEF block
    <2> QED BY <1>3, <1>6, <2>1 DEF Holds
  <1>11. ast'.arena = A \o ast.arena
    BY <1>5
  <1> HIDE DEF A
  <1>12. /\ ast'.arena \in Seq(Addresses) /\ Owners'
         /\ Range(ast'.arena) = {a} \cup Range(ast.arena)
    BY <1>1, <1>3, <1>5, <1>7, <1>8, <1>9, <1>10, <1>11, ArenaGrows
  <1>13. /\ \A k \in Keys : k \in Keys' /\ KeyText(k)' = KeyText(k) /\ IsKey(k)'
         /\ Keys' = Keys
    BY <1>1, <1>5, <1>7, <1>12, KeysKept DEF Keys
  <1>14. Names'
    BY <1>1, <1>13 DEF AInv, Names
  <1>15. /\ Files' /\ Sources' /\ \A k \in 1 .. ast.files_size : Data(k)' = Data(k)
    BY <1>1, <1>5, <1>7, <1>8, <1>12, <1>13, FilesStay
  <1>16. ast' \in Contexts
    BY <1>2, <1>4, <1>12, <1>5 DEF Contexts
  <1>17. Types'
    BY <1>1, <1>2, <1>3, <1>6, <1>16 DEF Types
  <1>18. Covered'
    <2> SUFFICES ASSUME NEW x \in Addresses, memory'[x] # FREE
                 PROVE  \/ x \in {ast'.at, ast'.storage, ast'.files} \cup Range(ast'.arena)
                        \/ \E k \in 1 .. ast'.files_size : x = Data(k)'
      BY DEF Covered
    <2>1. x = a \/ memory[x] # FREE
      BY <1>3
    <2>2. Covered
      BY <1>1 DEF AInv
    <2> QED BY <1>5, <1>12, <1>15, <2>1, <2>2 DEF Covered
  <1> QED BY <1>12, <1>14, <1>15, <1>16, <1>17, <1>18, NotNull DEF AInv

LEMMA RefillStep ==
    ASSUME AInv, UNCHANGED <<memory, ast, strings, sources>>, buffer' \in Texts
    PROVE  AInv'
  <1>1. /\ Types' /\ Items' = Items /\ (Nothing' <=> Nothing) /\ (Owners' <=> Owners)
        /\ Keys' = Keys
    BY DEF AInv, Types, Nothing, Items, Owners, Holds, Keys
  <1>2. /\ (Files' <=> Files) /\ (Covered' <=> Covered) /\ (Sources' <=> Sources)
    BY <1>1 DEF Files, Covered, Sources, Data, Holds, KeyText
  <1>3. Names' <=> Names
    BY <1>1 DEF Names, IsKey, KeyText, Holds
  <1> QED BY <1>1, <1>2, <1>3 DEF AInv

(* What AstContext_delete finds in the array of files.                     *)
LEMMA DataOnce ==
    ASSUME ast \in Contexts, Files, NEW S, Addresses \subseteq S
    PROVE  /\ FileData \in Seq(S) /\ IsInjective(FileData)
           /\ Range(FileData) = {Data(k) : k \in 1 .. ast.files_size}
           /\ \A k \in 1 .. ast.files_size : Holds(Data(k), {"bytes"})
  <1>1. FileData = [k \in 1 .. ast.files_size |-> Data(k)] /\ ast.files_size \in Nat
    BY DEF FileData, Data, Items, Contexts
  <1>2. \A k \in 1 .. ast.files_size : Holds(Data(k), {"bytes"}) /\ Data(k) \in S
    BY DEF Files, Holds
  <1>3. \A j, k \in 1 .. ast.files_size : Data(j) = Data(k) => j = k
    BY DEF Files
  <1> DEFINE s == FileData
  <1> HIDE DEF s
  <1>4. /\ s \in Seq(S) /\ Len(s) = ast.files_size
        /\ \A k \in 1 .. ast.files_size : s[k] = Data(k)
    BY <1>1, <1>2, SMT DEF s
  <1>5. Range(s) = {s[k] : k \in 1 .. ast.files_size} /\ IsInjective(s)
    BY <1>3, <1>4, RangeAt, InjectiveAt
  <1>6. Range(s) = {Data(k) : k \in 1 .. ast.files_size}
    BY <1>4, <1>5
  <1> QED BY <1>2, <1>4, <1>5, <1>6 DEF s

(* Everything that is not free is in what is freed, and once.              *)
LEMMA DeleteStep == AInv /\ Delete => AInv'
  <1> SUFFICES ASSUME AInv, Delete PROVE AInv'
    OBVIOUS
  <1> DEFINE S == Addresses \cup {NULL}
             heads == <<ast.files, ast.storage>>
             last == <<ast.at>>
             blocks == FileData \o heads \o ast.arena \o last
  <1>1. /\ ast # NULL /\ memory' = xfreeAll(memory, blocks)
        /\ ast' = NULL /\ strings' = {} /\ sources' = {} /\ buffer' = buffer
    BY DEF Delete
  <1>2. Types /\ ast \in Contexts /\ Owners /\ Files /\ Covered
    BY <1>1 DEF AInv, Types
  <1>3. /\ ast.arena \in Seq(S) /\ ast.at \in Addresses /\ ast.storage \in Addresses
        /\ ast.files \in S /\ ast.files_size \in Nat
    BY <1>2 DEF Contexts
  <1>4. /\ FileData \in Seq(S) /\ Range(FileData) = {Data(k) : k \in 1 .. ast.files_size}
        /\ IsInjective(FileData)
        /\ \A k \in 1 .. ast.files_size : Holds(Data(k), {"bytes"})
    BY <1>2, DataOnce
  <1>5. heads \in Seq(S) /\ Range(heads) = {ast.files, ast.storage} /\ IsInjective(heads)
    <2>1. ast.files # ast.storage
      BY <1>2, <1>3, NotNull DEF Owners, Holds
    <2>2. ast.files \in S /\ ast.storage \in S
      BY <1>3
    <2> HIDE DEF S
    <2> QED BY <2>1, <2>2, TwoOnce
  <1>6. last \in Seq(S) /\ Range(last) = {ast.at} /\ IsInjective(last)
    BY <1>3, OneOnce
  <1> HIDE DEF heads, last, S
  <1>7. /\ FileData \o heads \in Seq(S) /\ IsInjective(FileData \o heads)
        /\ Range(FileData \o heads) = Range(FileData) \cup {ast.files, ast.storage}
    <2>1. Range(FileData) \cap Range(heads) = {}
      BY <1>2, <1>3, <1>4, <1>5, NotNull DEF Owners, Holds
    <2>2. FileData \in Seq(S) /\ IsInjective(FileData) /\ heads \in Seq(S) /\ IsInjective(heads)
      BY <1>4, <1>5
    <2>3. /\ FileData \o heads \in Seq(S) /\ IsInjective(FileData \o heads)
          /\ Range(FileData \o heads) = Range(FileData) \cup Range(heads)
      <3> HIDE DEF blocks
      <3> QED BY <2>1, <2>2, ConcatOnce
    <2> QED BY <1>5, <2>3
  <1> DEFINE front == FileData \o heads
             middle == front \o ast.arena
  <1> HIDE DEF front
  <1>8. /\ middle \in Seq(S) /\ IsInjective(middle)
        /\ Range(middle) = Range(front) \cup Range(ast.arena)
    <2>1. \A a \in Range(ast.arena) : Holds(a, {"node", "string", "source"})
      BY <1>2 DEF Owners
    <2>2. Range(front) \cap Range(ast.arena) = {}
      BY <1>2, <1>3, <1>4, <1>7, <2>1, NotNull DEF Owners, Holds, front
    <2>3. front \in Seq(S) /\ IsInjective(front) /\ IsInjective(ast.arena)
      BY <1>2, <1>7 DEF Owners, front
    <2> QED BY <1>3, <2>2, <2>3, ConcatOnce
  <1> HIDE DEF middle
  <1>9. /\ blocks \in Seq(S) /\ IsInjective(blocks)
        /\ Range(blocks) = Range(middle) \cup {ast.at}
    <2>1. \A a \in Range(ast.arena) : Holds(a, {"node", "string", "source"})
      BY <1>2 DEF Owners
    <2>2. Range(middle) \cap Range(last) = {}
      BY <1>2, <1>3, <1>4, <1>6, <1>7, <1>8, <2>1, NotNull DEF Owners, Holds, front
    <2>3. IsInjective(middle \o last) /\ middle \o last \in Seq(S)
          /\ Range(middle \o last) = Range(middle) \cup Range(last)
      BY <1>6, <1>8, <2>2, ConcatOnce
    <2> QED BY <1>6, <2>3 DEF front, middle
  <1>10. \A a \in Addresses : memory[a] # FREE <=> a \in Range(blocks)
    <2>1. Range(blocks) = {Data(k) : k \in 1 .. ast.files_size}
             \cup {ast.files, ast.storage, ast.at} \cup Range(ast.arena)
      BY <1>4, <1>7, <1>8, <1>9 DEF front
    <2>2. ASSUME NEW a \in Addresses, memory[a] # FREE PROVE a \in Range(blocks)
      BY <1>2, <2>1, <2>2 DEF Covered
    <2>3. ASSUME NEW a \in Addresses, a \in Range(blocks) PROVE memory[a] # FREE
      BY <1>2, <1>4, <2>1, <2>3, NotNull DEF Owners, Holds
    <2> QED BY <2>2, <2>3
  <1> HIDE DEF blocks
  <1>11. memory' = [a \in Addresses |-> FREE]
    BY <1>1, <1>9, <1>10, FreedAll
  <1>12. Types' /\ Nothing'
    BY <1>1, <1>2, <1>11 DEF Types, Nothing
  <1> QED BY <1>1, <1>12 DEF AInv

-----------------------------------------------------------------------------
(* The first half of add_file: the bytes are at d, the chunk of the source *)
(* at s; the path is a key, perhaps a new one.  Memory is m, the new       *)
(* chunks are those of A, and the keys of the set are those of S.          *)
Named(A, S) == [ast EXCEPT !.arena = A \o ast.arena, !.string_set = S]

FileNamed(text, d, s, m, key, A, S) ==
    /\ d \in Addresses /\ s \in Addresses /\ d # s
    /\ memory[d] = FREE /\ m[d] = Bytes(text)
    /\ m \in [Addresses -> Blocks \cup {FREE}]
    /\ A \in Seq(Addresses) /\ IsInjective(A) /\ s \in Range(A) /\ d \notin Range(A)
    /\ \A a \in Range(A) :
          /\ memory[a] = FREE /\ m[a] # FREE
          /\ a = s \/ m[a] = [kind |-> "string", text |-> buffer]
    /\ \A a \in Addresses : IF memory[a] # FREE THEN m[a] = memory[a]
                            ELSE m[a] # FREE => a = d \/ a \in Range(A)
    /\ \E a \in Addresses : m[a] = FREE
    /\ \/ key \in Keys /\ KeyText(key) = buffer /\ S = ast.string_set
       \/ /\ \A k \in Keys : KeyText(k) # buffer
          /\ S = Append(ast.string_set, key)
          /\ \E a \in Range(A) :
                /\ m[a] = [kind |-> "string", text |-> buffer] /\ a # s
                /\ key = [data |-> IF buffer = NoText THEN NULL ELSE a,
                          size |-> IF buffer = NoText THEN 0 ELSE 1]

LEMMA FileGetsName ==
    ASSUME AInv, ast # NULL, HasRoom(4), NEW text \in Texts,
           NEW d, d = Place(memory), NEW m1, m1 = Put(memory, Bytes(text)),
           NEW s, s = Place(m1), NEW m2, m2 = Put(m1, [kind |-> "none"])
    PROVE  \E m, key, A, S :
             /\ FileNamed(text, d, s, m, key, A, S)
             /\ Interned(Allocated(ast, m1), m2, InBuffer) =
                   [context |-> Named(A, S),
                    memory |-> m, string |-> key]
  <1> DEFINE none == [kind |-> "none"]
             c == [ast EXCEPT !.arena = <<s>> \o ast.arena]
  <1>1. Types /\ ast \in Contexts /\ buffer \in Texts
        /\ DOMAIN memory = Addresses /\ memory = [x \in Addresses |-> memory[x]]
    BY DEF AInv, Types
  <1>2. Bytes(text) \in Blocks /\ Bytes(text) # FREE /\ none \in Blocks /\ none # FREE
    BY Made, NotFree
  <1>3. /\ d \in Addresses /\ memory[d] = FREE
        /\ m1 = [x \in Addresses |-> IF x = d THEN Bytes(text) ELSE memory[x]]
    <2>1. Free(memory) # {}
      BY RoomForFour
    <2> QED BY <1>1, <2>1, PutFacts
  <1>4. /\ s \in Addresses /\ s # d /\ memory[s] = FREE
        /\ m2 = [x \in Addresses |-> IF x = s THEN none ELSE m1[x]]
    <2>1. PICK a \in Free(memory) : a \notin {d, d, d}
      BY RoomForFour
    <2>2. a \in Free(m1)
      BY <1>3, <2>1 DEF Free
    <2>3. DOMAIN m1 = Addresses /\ m1 = [x \in Addresses |-> m1[x]]
      BY <1>3
    <2> HIDE DEF none
    <2>4. /\ s \in Addresses /\ m1[s] = FREE
          /\ m2 = [x \in Addresses |-> IF x = s THEN none ELSE m1[x]]
      BY <2>2, <2>3, PutFacts DEF none
    <2> QED BY <1>2, <1>3, <2>4
  <1>5. /\ DOMAIN m2 = Addresses /\ m2 = [x \in Addresses |-> m2[x]]
        /\ m2[d] = Bytes(text) /\ m2[s] = none
        /\ \A x \in Addresses : x # d /\ x # s => m2[x] = memory[x]
        /\ m2 \in [Addresses -> Blocks \cup {FREE}]
    <2> HIDE DEF none
    <2> QED BY <1>1, <1>2, <1>3, <1>4 DEF Types
  <1>6. Allocated(ast, m1) = c /\ c.string_set = ast.string_set
    BY <1>1 DEF Allocated, Contexts
  <1>7. <<s>> \in Seq(Addresses) /\ Range(<<s>>) = {s} /\ IsInjective(<<s>>)
    BY <1>4, OneOnce
  <1>8. CASE \E k \in Keys :
                 /\ KeyText(k) = buffer
                 /\ Interned(c, m2, InBuffer) = [context |-> c, memory |-> m2, string |-> k]
    <2>1. PICK k \in Keys :
                 /\ KeyText(k) = buffer
                 /\ Interned(c, m2, InBuffer) = [context |-> c, memory |-> m2, string |-> k]
      BY <1>8
    <2> DEFINE A == <<s>>
               S == ast.string_set
    <2>2. c = Named(A, S)
      BY <1>1 DEF Contexts, Named
    <2>3. \E a \in Addresses : m2[a] = FREE
      <3>1. PICK a \in Free(memory) : a \notin {d, s, s}
        BY RoomForFour
      <3> QED BY <1>5, <3>1 DEF Free
    <2>4. \A a \in Addresses : IF memory[a] # FREE THEN m2[a] = memory[a]
                               ELSE m2[a] # FREE => a = d \/ a \in Range(A)
      BY <1>3, <1>4, <1>5, <1>7
    <2>5. \A a \in Range(A) : memory[a] = FREE /\ m2[a] # FREE /\ a = s
      BY <1>2, <1>4, <1>5, <1>7
    <2>6. /\ A \in Seq(Addresses) /\ IsInjective(A) /\ s \in Range(A) /\ d \notin Range(A)
      BY <1>4, <1>7
    <2> HIDE DEF A, c, none
    <2>7. FileNamed(text, d, s, m2, k, A, S)
      BY <1>3, <1>4, <1>5, <2>1, <2>3, <2>4, <2>5, <2>6 DEF FileNamed
    <2>8. Interned(Allocated(ast, m1), m2, InBuffer) =
            [context |-> Named(A, S),
             memory |-> m2, string |-> k]
      BY <1>6, <2>1, <2>2
    <2> HIDE DEF S
    <2> QED BY <2>7, <2>8
  <1>9. CASE /\ \A k \in Keys : KeyText(k) # buffer
             /\ Interned(c, m2, InBuffer) =
                   [context |-> [Allocated(c, m2) EXCEPT !.string_set = Append(@, Copied(m2))],
                    memory |-> Put(m2, [kind |-> "string", text |-> buffer]),
                    string |-> Copied(m2)]
    <2> DEFINE block == [kind |-> "string", text |-> buffer]
               m == Put(m2, block)
               p == Place(m2)
               A == <<p>> \o <<s>>
               key == Copied(m2)
               S == Append(ast.string_set, key)
    <2>1. block \in Blocks /\ block # FREE
      BY <1>1, Made, NotFree
    <2>2. /\ p \in Addresses /\ p # d /\ p # s /\ memory[p] = FREE
          /\ m = [x \in Addresses |-> IF x = p THEN block ELSE m2[x]]
      <3>1. PICK a \in Free(memory) : a \notin {d, s, s}
        BY RoomForFour
      <3>2. a \in Free(m2)
        BY <1>5, <3>1 DEF Free
      <3> HIDE DEF block
      <3>3. /\ p \in Addresses /\ m2[p] = FREE
            /\ m = [x \in Addresses |-> IF x = p THEN block ELSE m2[x]]
        BY <1>5, <3>2, PutFacts
      <3> HIDE DEF p, m, none
      <3> QED BY <1>2, <1>5, <3>3
    <2>3. /\ m[p] = block /\ m[d] = Bytes(text) /\ m[s] = none
          /\ \A x \in Addresses : x # d /\ x # s /\ x # p => m[x] = memory[x]
          /\ m \in [Addresses -> Blocks \cup {FREE}]
      <3> HIDE DEF p, m, none, block
      <3> QED BY <1>3, <1>4, <1>5, <2>1, <2>2
    <2>4. A \in Seq(Addresses) /\ IsInjective(A) /\ Range(A) = {p, s}
      <3>1. p \in Addresses /\ s \in Addresses /\ p # s
        BY <1>4, <2>2
      <3> HIDE DEF p
      <3> QED BY <3>1, JoinOnce
    <2>5. [Allocated(c, m2) EXCEPT !.string_set = Append(@, Copied(m2))]
            = Named(A, S)
      <3>1. <<p>> \o (<<s>> \o ast.arena) = A \o ast.arena
        BY <1>1, <1>7, <2>2, ConcatAssociative DEF Contexts
      <3>2. c.arena = <<s>> \o ast.arena /\ c.string_set = ast.string_set
        BY <1>1 DEF Contexts
      <3> HIDE DEF p, key, A
      <3>3. Allocated(c, m2) = [c EXCEPT !.arena = <<p>> \o (<<s>> \o ast.arena)]
        BY <3>2 DEF Allocated, p
      <3> QED BY <1>1, <3>1, <3>2, <3>3 DEF Contexts, key, Named
    <2>6. \E a \in Addresses : m[a] = FREE
      <3>1. PICK a \in Free(memory) : a \notin {d, s, p}
        BY RoomForFour
      <3> HIDE DEF m
      <3> QED BY <2>3, <3>1 DEF Free
    <2>7. key = [data |-> IF buffer = NoText THEN NULL ELSE p,
                 size |-> IF buffer = NoText THEN 0 ELSE 1]
      BY DEF Copied
    <2> HIDE DEF A, c, none, m, p, key, block
    <2>8. \A a \in Addresses : IF memory[a] # FREE THEN m[a] = memory[a]
                               ELSE m[a] # FREE => a = d \/ a \in Range(A)
      BY <1>3, <1>4, <2>2, <2>3, <2>4
    <2>9. \A a \in Range(A) :
             /\ memory[a] = FREE /\ m[a] # FREE
             /\ a = s \/ m[a] = block
      BY <1>2, <1>4, <2>1, <2>2, <2>3, <2>4
    <2>10. s \in Range(A) /\ p \in Range(A) /\ d \notin Range(A)
      BY <1>4, <2>2, <2>4
    <2>11. FileNamed(text, d, s, m, key, A, S)
      BY <1>3, <1>4, <1>9, <2>2, <2>3, <2>4, <2>6, <2>7, <2>8, <2>9, <2>10 DEF FileNamed, block
    <2>12. Interned(Allocated(ast, m1), m2, InBuffer) =
            [context |-> Named(A, S),
             memory |-> m, string |-> key]
      BY <1>6, <1>9, <2>5 DEF m, key, block
    <2> HIDE DEF S
    <2> QED BY <2>11, <2>12
  <1> QED
    <2>1. c.string_set = ast.string_set
      BY <1>6
    <2> HIDE DEF c
    <2> QED BY <1>8, <1>9, <2>1, InternedCases

(* The second half: the array of files is at F, perhaps a new place.       *)
FileAdded(text, d, s, m, key, A, S, F, capacity) ==
    /\ FileNamed(text, d, s, m, key, A, S)
    /\ F \in Addresses /\ (F = ast.files \/ m[F] = FREE)
    /\ capacity \in Nat /\ capacity > 1 /\ capacity >= ast.files_size + 1
    /\ memory' = [a \in Addresses |->
                    IF a = F THEN [kind |-> "array", capacity |-> capacity,
                                   items |-> Append(Items, s)]
                    ELSE IF a = ast.files THEN FREE
                    ELSE IF a = s THEN [kind |-> "source", path |-> key, data |-> d]
                    ELSE m[a]]
    /\ ast' = [Named(A, S) EXCEPT !.files = F, !.files_capacity = capacity,
                                  !.files_size = @ + 1]
    /\ sources' = sources \cup {[at |-> s, path |-> buffer, text |-> text]}
    /\ UNCHANGED <<buffer, strings>>

LEMMA FileIsAdded ==
    ASSUME AInv, CanAddFile, NEW text \in Texts,
           NewSource(AddFile(ast, Put(memory, Bytes(text)), InBuffer, Place(memory)), text)
    PROVE  \E d, s, m, key, A, S, F, capacity :
              FileAdded(text, d, s, m, key, A, S, F, capacity)
  <1> DEFINE d == Place(memory)
             m1 == Put(memory, Bytes(text))
             s == Place(m1)
             m2 == Put(m1, [kind |-> "none"])
             named == Interned(Allocated(ast, m1), m2, InBuffer)
  <1>1. m1 = Put(memory, Bytes(text)) /\ d = Place(memory)
    OBVIOUS
  <1>2. NewSource(AddFile(ast, m1, InBuffer, d), text)
    OBVIOUS
  <1> HIDE DEF d, m1
  <1>3. ast # NULL /\ HasRoom(4) /\ Types /\ ast \in Contexts /\ Owners /\ Files
    BY DEF CanAddFile, AInv, Types
  <1>4. \E m, key, A, S :
             /\ FileNamed(text, d, s, m, key, A, S)
             /\ named = [context |-> Named(A, S), memory |-> m, string |-> key]
    BY <1>1, <1>3, FileGetsName
  <1> DEFINE capacity == Ensured(ast.files_capacity, ast.files_size, 1)
             grows == capacity # ast.files_capacity
             items == IF ast.files = NULL THEN << >> ELSE m1[ast.files].items
             source == [kind |-> "source", path |-> named.string, data |-> d]
             filled == [named.memory EXCEPT ![s] = source]
             room == IF grows THEN xfree(filled, ast.files) ELSE filled
             F == IF grows THEN Place(room) ELSE ast.files
             array == [kind |-> "array", capacity |-> capacity, items |-> Append(items, s)]
             context == [named.context EXCEPT !.files = F, !.files_capacity = capacity,
                                              !.files_size = @ + 1]
  <1>5. AddFile(ast, m1, InBuffer, d) =
          [source |-> s, memory |-> [room EXCEPT ![F] = array], context |-> context]
    BY DEF AddFile
  <1> HIDE DEF named, s, m2, capacity, items
  <1>6. /\ memory' = [room EXCEPT ![F] = array] /\ ast' = context
        /\ sources' = sources \cup {[at |-> s, path |-> buffer, text |-> text]}
        /\ UNCHANGED <<buffer, strings>>
    <2> HIDE DEF room, F, array, context
    <2> QED BY <1>2, <1>5 DEF NewSource
  <1>7. /\ capacity \in Nat /\ capacity > 1 /\ capacity >= ast.files_size + 1
        /\ ast.files = NULL => grows
    <2>1. /\ ast.files_capacity \in Nat /\ ast.files_size \in Nat /\ ast.files_capacity # 1
          /\ ast.files = NULL => ast.files_capacity = 0
      BY <1>3 DEF Contexts, Files
    <2>2. capacity \in Nat /\ capacity - ast.files_size >= 1 /\ capacity > 1
      <3>1. PICK c, n, x \in Nat : c = ast.files_capacity /\ n = ast.files_size /\ x = 1
        BY <2>1
      <3>2. /\ Ensured(c, n, x) \in Nat /\ Ensured(c, n, x) - n >= x
            /\ c > 1 \/ x > 0 => Ensured(c, n, x) > 1
        BY <2>1, <3>1, EnsuredHasRoom, Zenon
      <3> QED BY <3>1, <3>2 DEF capacity
    <2> QED BY <2>1, <2>2
  <1>8. PICK m, key, A, S :
             /\ FileNamed(text, d, s, m, key, A, S)
             /\ named = [context |-> Named(A, S), memory |-> m, string |-> key]
    BY <1>4
  <1>9. named.string = key /\ named.memory = m /\ named.context = Named(A, S)
    BY <1>8
  <1>10. /\ s \in Addresses /\ m[s] # FREE /\ memory[s] = FREE /\ d \in Addresses
         /\ memory[d] = FREE /\ m = [a \in Addresses |-> m[a]]
         /\ \A a \in Addresses : memory[a] # FREE => m[a] = memory[a]
         /\ \E a \in Addresses : m[a] = FREE
    <2>1. /\ s \in Addresses /\ d \in Addresses /\ memory[d] = FREE
          /\ m \in [Addresses -> Blocks \cup {FREE}]
          /\ s \in Range(A) /\ \A a \in Range(A) : memory[a] = FREE /\ m[a] # FREE
          /\ \A a \in Addresses : memory[a] # FREE => m[a] = memory[a]
          /\ \E a \in Addresses : m[a] = FREE
      BY <1>8, Zenon DEF FileNamed
    <2> QED BY <2>1
  <1>11. ast.files # NULL => ast.files \in Addresses /\ memory[ast.files] # FREE
    BY <1>3 DEF Owners, Holds
  <1>12. items = Items
    <2>1. CASE ast.files = NULL
      BY <2>1 DEF Items, items
    <2>2. CASE ast.files # NULL
      <3>1. m1[ast.files] = memory[ast.files]
        <4>1. ast.files \in Addresses /\ ast.files # d
          BY <1>10, <1>11, <2>2
        <4>2. DOMAIN memory = Addresses
          BY <1>3 DEF Types
        <4> QED BY <1>1, <4>1, <4>2 DEF Put
      <3> QED BY <2>2, <3>1 DEF Items, items
    <2> QED BY <2>1, <2>2
  <1>13. source # FREE
    <2>1. key \in StringRefs
      <3>1. key \in Keys => key \in StringRefs
        <4>1. ast.string_set \in Seq(StringRefs)
          BY <1>3 DEF Contexts
        <4> QED BY <4>1, RangeAt DEF Keys
      <3>2. ASSUME NEW a \in Range(A),
                   key = [data |-> IF buffer = NoText THEN NULL ELSE a,
                          size |-> IF buffer = NoText THEN 0 ELSE 1]
            PROVE  key \in StringRefs
        <4>1. a \in Addresses
          <5>1. A \in Seq(Addresses)
            BY <1>8 DEF FileNamed
          <5> QED BY <5>1, RangeAt
        <4> QED BY <3>2, <4>1 DEF StringRefs
      <3> QED BY <1>8, <3>1, <3>2 DEF FileNamed
    <2> QED BY <1>10, <1>9, <2>1, Made, NotFree
  <1>14. filled = [a \in Addresses |-> IF a = s THEN source ELSE m[a]]
    <2> HIDE DEF source
    <2> QED BY <1>10, <1>9
  <1>15. source = [kind |-> "source", path |-> key, data |-> d]
    BY <1>9
  <1>16. context = [Named(A, S) EXCEPT !.files = F, !.files_capacity = capacity,
                                       !.files_size = @ + 1]
    <2> HIDE DEF F
    <2> QED BY <1>9
  <1> HIDE DEF source, filled, array
  <1>17. room = [a \in Addresses |-> IF grows /\ a = ast.files THEN FREE ELSE filled[a]]
    <2>1. ast.files # NULL => filled[ast.files] # FREE /\ ast.files # s
      BY <1>10, <1>11, <1>14
    <2>2. filled = [a \in Addresses |-> filled[a]]
      BY <1>14
    <2>3. CASE ~grows
      BY <2>2, <2>3
    <2>4. CASE grows /\ ast.files = NULL
      BY <2>2, <2>4, NotNull DEF xfree
    <2>5. CASE grows /\ ast.files # NULL
      <3>1. xfree(filled, ast.files) = [filled EXCEPT ![ast.files] = FREE]
        BY <2>1, <2>5, Zenon DEF xfree
      <3> QED BY <1>11, <2>2, <2>5, <3>1
    <2> QED BY <2>3, <2>4, <2>5
  <1>18. /\ F \in Addresses /\ (F = ast.files \/ m[F] = FREE)
         /\ room[F] = FREE \/ F = ast.files
    <2>1. CASE grows
      <3>1. PICK a \in Addresses : m[a] = FREE
        BY <1>10, Zenon
      <3>2. a \in Free(room)
        BY <1>10, <1>14, <1>17, <3>1 DEF Free
      <3>3. DOMAIN room = Addresses /\ room = [x \in Addresses |-> room[x]]
        BY <1>17
      <3>4. F \in Addresses /\ room[F] = FREE
        <4>1. F = Place(room)
          BY <2>1
        <4> HIDE DEF room, F
        <4> QED BY <3>2, <3>3, <4>1, PutFacts
      <3> HIDE DEF room, F
      <3> QED BY <1>10, <1>13, <1>14, <1>17, <3>4
    <2>2. CASE ~grows
      BY <1>7, <1>11, <2>2
    <2> QED BY <2>1, <2>2
  <1>19. memory' = [a \in Addresses |->
                     IF a = F THEN array ELSE IF a = ast.files THEN FREE
                     ELSE IF a = s THEN source ELSE m[a]]
    <2>1. ~grows => F = ast.files
      OBVIOUS
    <2>2. memory' = [a \in Addresses |-> IF a = F THEN array ELSE room[a]]
      <3> HIDE DEF F, grows
      <3> QED BY <1>6, <1>17, <1>18
    <2>3. ASSUME NEW a \in Addresses, a # F
          PROVE  room[a] = IF a = ast.files THEN FREE ELSE IF a = s THEN source ELSE m[a]
      <3> HIDE DEF F, grows, room
      <3> QED BY <1>14, <1>17, <2>1, <2>3
    <2> HIDE DEF F, grows, room
    <2> QED BY <2>2, <2>3
  <1>20. array = [kind |-> "array", capacity |-> capacity, items |-> Append(Items, s)]
    BY <1>12, Zenon DEF array
  <1>21. FileAdded(text, d, s, m, key, A, S, F, capacity)
    <2> HIDE DEF F, context, grows
    <2>1. ast' = [Named(A, S) EXCEPT !.files = F, !.files_capacity = capacity,
                                     !.files_size = @ + 1]
      BY <1>6, <1>16
    <2>2. memory' = [a \in Addresses |->
                      IF a = F THEN [kind |-> "array", capacity |-> capacity,
                                     items |-> Append(Items, s)]
                      ELSE IF a = ast.files THEN FREE
                      ELSE IF a = s THEN [kind |-> "source", path |-> key, data |-> d]
                      ELSE m[a]]
      BY <1>19, <1>20, <1>15
    <2> QED BY <1>6, <1>7, <1>18, <1>8, <2>1, <2>2, Zenon DEF FileAdded
  <1> HIDE DEF F, room, context
  <1> QED BY <1>21

LEMMA FileAddedStep ==
    ASSUME AInv, ast # NULL, NEW text \in Texts,
           NEW d, NEW s, NEW m, NEW key, NEW A, NEW S, NEW F, NEW capacity,
           FileAdded(text, d, s, m, key, A, S, F, capacity)
    PROVE  AInv'
  <1> DEFINE array == [kind |-> "array", capacity |-> capacity, items |-> Append(Items, s)]
             source == [kind |-> "source", path |-> key, data |-> d]
             string == [kind |-> "string", text |-> buffer]
  <1>1. PICK n \in Nat : n = ast.files_size
    BY DEF AInv, Types, Contexts
  <1>2. /\ Types /\ ast \in Contexts /\ buffer \in Texts /\ buffer' = buffer
        /\ Owners /\ Files /\ Covered /\ Names /\ Sources
        /\ strings' = strings /\ Items \in Seq(Addresses) /\ Len(Items) = n
        /\ ast.string_set \in Seq(StringRefs) /\ ast.arena \in Seq(Addresses)
    BY <1>1 DEF FileAdded, AInv, Types, Contexts, Files
  <1>3. /\ d \in Addresses /\ s \in Addresses /\ d # s
        /\ memory[d] = FREE /\ m[d] = Bytes(text)
        /\ m \in [Addresses -> Blocks \cup {FREE}]
        /\ A \in Seq(Addresses) /\ IsInjective(A) /\ s \in Range(A) /\ d \notin Range(A)
        /\ \A a \in Range(A) : memory[a] = FREE /\ m[a] # FREE
        /\ \A a \in Range(A) : a = s \/ m[a] = string
        /\ \A a \in Addresses : memory[a] # FREE => m[a] = memory[a]
        /\ \A a \in Addresses : memory[a] = FREE /\ m[a] # FREE => a = d \/ a \in Range(A)
    BY Zenon DEF FileAdded, FileNamed
  <1>4. \/ key \in Keys /\ KeyText(key) = buffer /\ S = ast.string_set
        \/ /\ \A k \in Keys : KeyText(k) # buffer
           /\ S = Append(ast.string_set, key)
           /\ \E a \in Range(A) :
                 /\ m[a] = string /\ a # s
                 /\ key = [data |-> IF buffer = NoText THEN NULL ELSE a,
                           size |-> IF buffer = NoText THEN 0 ELSE 1]
    BY Zenon DEF FileAdded, FileNamed
  <1>5. /\ F \in Addresses /\ (F = ast.files \/ m[F] = FREE)
        /\ capacity \in Nat /\ capacity > 1 /\ capacity >= n + 1
        /\ memory' = [a \in Addresses |-> IF a = F THEN array
                                          ELSE IF a = ast.files THEN FREE
                                          ELSE IF a = s THEN source ELSE m[a]]
        /\ sources' = sources \cup {[at |-> s, path |-> buffer, text |-> text]}
    <2>1. capacity >= ast.files_size + 1
      BY Zenon DEF FileAdded
    <2> QED BY <1>1, <2>1, Zenon DEF FileAdded
  <1>6. /\ ast'.at = ast.at /\ ast'.storage = ast.storage /\ ast'.files = F
        /\ ast'.files_size = n + 1 /\ ast'.files_capacity = capacity
        /\ ast'.arena = A \o ast.arena /\ ast'.string_set = S
        /\ ast' = [ast EXCEPT !.arena = A \o ast.arena, !.string_set = S, !.files = F,
                              !.files_capacity = capacity, !.files_size = n + 1]
    <2>1. ast' = [Named(A, S) EXCEPT !.files = F, !.files_capacity = capacity,
                                     !.files_size = @ + 1]
      BY Zenon DEF FileAdded
    <2> QED BY <1>1, <1>2, <2>1 DEF Named, Contexts
  <1> HIDE DEF array, source, string
  <1>7. ast.files # NULL => ast.files \in Addresses /\ memory[ast.files] # FREE
    BY <1>2 DEF Owners, Holds
  <1>8. s # F /\ d # F /\ s # ast.files /\ d # ast.files /\ \A a \in Range(A) : a # F
    <2>1. m[s] # FREE /\ m[d] # FREE
      BY <1>3, Made, NotFree
    <2> QED BY <1>3, <1>5, <1>7, <2>1, NotNull
  <1>9. /\ memory'[F] = array /\ memory'[s] = source /\ memory'[d] = Bytes(text)
        /\ \A a \in Range(A) : a # s => memory'[a] = string
        /\ \A a \in Addresses : memory[a] # FREE /\ a # ast.files => memory'[a] = memory[a]
        /\ \A a \in Addresses : memory'[a] # FREE =>
              a \in {F, d} \cup Range(A) \/ (memory[a] # FREE /\ a # ast.files)
    <2>1. memory'[F] = array /\ memory'[s] = source /\ memory'[d] = Bytes(text)
      BY <1>3, <1>5, <1>8
    <2>2. ASSUME NEW a \in Range(A), a # s PROVE memory'[a] = string
      <3>1. a \in Addresses /\ a # F /\ a # ast.files
        BY <1>3, <1>7, <1>8, NotNull, RangeAt
      <3> QED BY <1>3, <1>5, <2>2, <3>1
    <2>3. ASSUME NEW a \in Addresses, memory[a] # FREE, a # ast.files
          PROVE  memory'[a] = memory[a]
      <3>1. a # F /\ a # s /\ m[a] = memory[a]
        BY <1>3, <1>5, <2>3
      <3> QED BY <1>5, <2>3, <3>1
    <2>4. ASSUME NEW a \in Addresses, memory'[a] # FREE, a # F, a # d, a \notin Range(A)
          PROVE  memory[a] # FREE /\ a # ast.files
      <3>1. a # ast.files /\ a # s
        BY <1>3, <1>5, <2>4
      <3>2. memory'[a] = m[a]
        BY <1>5, <2>4, <3>1
      <3> QED BY <1>3, <2>4, <3>1, <3>2
    <2> QED BY <2>1, <2>2, <2>3, <2>4
  <1>10. Kept
    BY <1>9 DEF Kept
  <1>11. /\ array \in Blocks /\ array # FREE /\ array.kind = "array"
         /\ array.items = Append(Items, s)
    <2>1. Append(Items, s) \in Seq(Addresses)
      BY <1>2, <1>3, AppendOnce
    <2> QED BY <1>5, <2>1, Made, NotFree DEF array
  <1>12. /\ key \in StringRefs /\ source \in Blocks /\ source # FREE
         /\ source.kind = "source" /\ source.path = key /\ source.data = d
    <2>1. key \in Keys => key \in StringRefs
      BY <1>2, RangeAt DEF Keys
    <2>2. ASSUME NEW a \in Range(A),
                 key = [data |-> IF buffer = NoText THEN NULL ELSE a,
                        size |-> IF buffer = NoText THEN 0 ELSE 1]
          PROVE  key \in StringRefs
      <3>1. a \in Addresses
        BY <1>3, RangeAt
      <3> QED BY <2>2, <3>1 DEF StringRefs
    <2>3. key \in StringRefs
      BY <1>4, <2>1, <2>2
    <2> QED BY <1>3, <2>3, Made, NotFree DEF source
  <1>13. string \in Blocks /\ string # FREE /\ string.kind = "string"
    BY <1>2, Made, NotFree DEF string
  <1>14. /\ ast'.arena \in Seq(Addresses) /\ Owners'
         /\ Range(ast'.arena) = Range(A) \cup Range(ast.arena)
    <2>1. ASSUME NEW a \in Range(A)
          PROVE  memory[a] = FREE /\ Holds(a, {"node", "string", "source"})'
      <3>1. a \in Addresses
        BY <1>3, RangeAt
      <3>2. memory'[a] \in {source, string}
        BY <1>9
      <3> QED BY <1>3, <1>12, <1>13, <3>1, <3>2 DEF Holds
    <2>2. Holds(ast.files, {"array"})'
      BY <1>5, <1>6, <1>9, <1>11 DEF Holds
    <2> QED BY <1>3, <1>6, <1>10, <2>1, <2>2, ArenaGrows
  <1>15. /\ Names' /\ key \in Keys' /\ KeyText(key)' = buffer
         /\ ast'.string_set \in Seq(StringRefs)
         /\ \A k \in Keys : k \in Keys' /\ KeyText(k)' = KeyText(k)
    <2>1. Range(ast.arena) \subseteq Range(ast'.arena)
      BY <1>14
    <2>2. CASE key \in Keys /\ KeyText(key) = buffer /\ S = ast.string_set
      BY <1>2, <1>6, <1>10, <2>1, <2>2, NamesStay
    <2>3. CASE /\ \A k \in Keys : KeyText(k) # buffer
               /\ S = Append(ast.string_set, key)
               /\ \E a \in Range(A) :
                     /\ m[a] = string /\ a # s
                     /\ key = [data |-> IF buffer = NoText THEN NULL ELSE a,
                               size |-> IF buffer = NoText THEN 0 ELSE 1]
      <3>1. PICK a \in Range(A) :
                     /\ m[a] = string /\ a # s
                     /\ key = [data |-> IF buffer = NoText THEN NULL ELSE a,
                               size |-> IF buffer = NoText THEN 0 ELSE 1]
        BY <2>3
      <3>2. a \in Addresses /\ memory'[a] = string /\ a \in Range(ast'.arena)
        BY <1>3, <1>9, <1>14, <3>1, RangeAt
      <3>3. IsKey(key)' /\ KeyText(key)' = buffer
        <4>1. string.text = buffer
          BY DEF string
        <4>2. CASE buffer = NoText
          <5>1. key = [data |-> NULL, size |-> 0]
            BY <3>1, <4>2
          <5> QED BY <4>2, <5>1 DEF IsKey, KeyText
        <4>3. CASE buffer # NoText
          <5>1. key = [data |-> a, size |-> 1]
            BY <3>1, <4>3
          <5> QED BY <1>2, <1>13, <3>2, <4>1, <4>3, <5>1 DEF IsKey, KeyText, Holds
        <4> QED BY <4>2, <4>3
      <3> QED BY <1>2, <1>6, <1>10, <1>12, <2>1, <2>3, <3>3, NamesStay
    <2> QED BY <1>4, <2>2, <2>3
  <1>16. /\ Items' = Append(Items, s) /\ Items' \in Seq(Addresses) /\ Len(Items') = n + 1
         /\ \A k \in 1 .. n : Items'[k] = Items[k]
         /\ Items'[n + 1] = s
    <2>1. Items' = Append(Items, s)
      BY <1>5, <1>6, <1>9, <1>11, NotNull DEF Items
    <2>2. PICK i : i = Items
      OBVIOUS
    <2>3. i \in Seq(Addresses) /\ Len(i) = n
      BY <1>2, <2>2
    <2> QED BY <1>3, <2>1, <2>2, <2>3, AppendOnce
  <1>17. ASSUME NEW k \in 1 .. n
         PROVE  /\ Items[k] \in Range(ast.arena) /\ Holds(Items[k], {"source"})'
                /\ memory'[Items[k]] = memory[Items[k]]
                /\ Data(k)' = Data(k) /\ Data(k) # d
                /\ Holds(Data(k), {"bytes"}) /\ memory'[Data(k)] = memory[Data(k)]
    <2>1. /\ Holds(Items[k], {"source"}) /\ Holds(Data(k), {"bytes"})
          /\ Items[k] \in Range(ast.arena)
      BY <1>1, <1>2, <1>17 DEF Files
    <2>2. Items[k] # ast.files /\ Data(k) # ast.files
      BY <1>2, <2>1, NotNull DEF Owners, Holds
    <2>3. memory'[Items[k]] = memory[Items[k]] /\ memory'[Data(k)] = memory[Data(k)]
      BY <1>9, <2>1, <2>2 DEF Holds
    <2>4. Data(k)' = Data(k) /\ Data(k) # d
      BY <1>3, <1>16, <1>17, <2>1, <2>3 DEF Data, Holds
    <2>5. Items'[k] = Items[k]
      BY <1>16, <1>17
    <2>6. Holds(Items[k], {"source"})'
      BY <2>1, <2>3, <2>5 DEF Holds
    <2> QED BY <2>1, <2>3, <2>4, <2>6
  <1>18. Data(n + 1)' = d
    BY <1>9, <1>12, <1>16 DEF Data
  <1>19. ast' \in Contexts /\ Types'
    <2>1. ast' \in Contexts
      <3>1. A \o ast.arena \in Seq(Addresses) /\ S \in Seq(StringRefs)
        BY <1>6, <1>14, <1>15
      <3>2. n + 1 \in Nat
        BY <1>1
      <3> QED BY <1>2, <1>5, <1>6, <3>1, <3>2 DEF Contexts
    <2>2. memory' \in [Addresses -> Blocks \cup {FREE}]
      BY <1>3, <1>5, <1>11, <1>12
    <2> QED BY <1>2, <2>1, <2>2 DEF Types
  <1>20. \A k \in 1 .. n + 1 : k \in 1 .. n \/ k = n + 1
    BY <1>2
  <1>21. Files'
    <2>1. ASSUME NEW k \in 1 .. n + 1
          PROVE  /\ Items'[k] \in Range(ast'.arena) /\ Holds(Items[k], {"source"})'
                 /\ Holds(Data(k), {"bytes"})'
      <3>1. CASE k \in 1 .. n
        BY <1>14, <1>16, <1>17, <3>1 DEF Holds
      <3>2. CASE k = n + 1
        <4>1. memory'[d] # FREE /\ memory'[d].kind = "bytes"
          <5>1. Bytes(text) # FREE /\ Bytes(text).kind = "bytes"
            <6>1. Bytes(text) # FREE
              BY Made, NotFree
            <6> QED BY <6>1 DEF Bytes
          <5> QED BY <1>9, <5>1
        <4> QED BY <1>3, <1>9, <1>12, <1>14, <1>16, <1>18, <3>2, <4>1 DEF Holds
      <3> QED BY <1>20, <2>1, <3>1, <3>2
    <2>2. ASSUME NEW j \in 1 .. n + 1, NEW k \in 1 .. n + 1, Data(j)' = Data(k)'
          PROVE  j = k
      <3>1. \A x, y \in 1 .. n : Data(x) = Data(y) => x = y
        BY <1>2 DEF Files
      <3> QED BY <1>17, <1>18, <1>20, <2>2, <3>1
    <2>3. /\ Items' \in Seq(Addresses) /\ Len(Items') = ast'.files_size
          /\ ast'.files_size <= ast'.files_capacity
          /\ ast'.files # NULL /\ ast'.files_capacity > 1
      BY <1>2, <1>5, <1>6, <1>16, NotNull
    <2> QED BY <1>6, <2>1, <2>2, <2>3 DEF Files
  <1>22. Covered'
    <2> SUFFICES ASSUME NEW a \in Addresses, memory'[a] # FREE
                 PROVE  \/ a \in {ast'.at, ast'.storage, ast'.files} \cup Range(ast'.arena)
                        \/ \E k \in 1 .. ast'.files_size : a = Data(k)'
      BY DEF Covered
    <2>1. n + 1 \in 1 .. n + 1 /\ \A k \in 1 .. n : k \in 1 .. n + 1
      BY <1>2
    <2>2. CASE a \in {F, d} \cup Range(A)
      BY <1>6, <1>14, <1>18, <2>1, <2>2
    <2>3. CASE memory[a] # FREE /\ a # ast.files
      <3>1. \/ a \in {ast.at, ast.storage} \cup Range(ast.arena)
            \/ \E k \in 1 .. n : a = Data(k)
        BY <1>1, <1>2, <2>3 DEF Covered
      <3> QED BY <1>6, <1>14, <1>17, <2>1, <3>1
    <2> QED BY <1>9, <2>2, <2>3
  <1>23. Sources'
    <2> SUFFICES ASSUME NEW f \in sources'
                 PROVE  /\ \E k \in 1 .. ast'.files_size : f.at = Items'[k]
                        /\ memory'[f.at].path \in Keys'
                        /\ KeyText(memory[f.at].path)' = f.path
                        /\ memory'[memory'[f.at].data] = Bytes(f.text)
      BY DEF Sources
    <2>1. CASE f \in sources
      <3>1. PICK k \in 1 .. n : f.at = Items[k]
        BY <1>1, <1>2, <2>1 DEF Sources
      <3> DEFINE q == memory[f.at].path
      <3>2. q \in Keys /\ KeyText(q) = f.path /\ memory[memory[f.at].data] = Bytes(f.text)
        BY <1>2, <2>1 DEF Sources
      <3>3. memory'[f.at] = memory[f.at] /\ memory'[memory[f.at].data] = memory[memory[f.at].data]
        BY <1>17, <3>1 DEF Data
      <3>4. memory'[f.at].path \in Keys' /\ KeyText(memory[f.at].path)' = f.path
        BY <1>15, <3>2, <3>3
      <3>5. k \in 1 .. n + 1 /\ f.at = Items'[k]
        BY <1>2, <1>16, <3>1
      <3> QED BY <1>6, <3>2, <3>3, <3>4, <3>5
    <2>2. CASE f = [at |-> s, path |-> buffer, text |-> text]
      <3>1. f.at = s /\ f.path = buffer /\ f.text = text
        BY <2>2
      <3>2. n + 1 \in 1 .. n + 1
        BY <1>2
      <3>3. memory'[f.at].path = key /\ memory'[f.at].data = d
        BY <1>9, <1>12, <3>1
      <3>4. KeyText(memory[f.at].path)' = f.path
        BY <1>15, <3>1, <3>3
      <3> QED BY <1>6, <1>9, <1>15, <1>16, <3>1, <3>2, <3>3, <3>4
    <2> QED BY <1>5, <2>1, <2>2
  <1> QED BY <1>14, <1>15, <1>19, <1>21, <1>22, <1>23, NotNull DEF AInv

-----------------------------------------------------------------------------
LEMMA SourceStep ==
    ASSUME AInv, CanAddFile, NEW text \in Texts,
           NewSource(AddFile(ast, Put(memory, Bytes(text)), InBuffer, Place(memory)), text)
    PROVE  AInv'
  <1>1. PICK d, s, m, key, A, S, F, capacity :
              FileAdded(text, d, s, m, key, A, S, F, capacity)
    BY FileIsAdded
  <1>2. ast # NULL
    BY DEF CanAddFile
  <1> QED BY <1>1, <1>2, FileAddedStep

LEMMA StepAInv == AInv /\ [Next]_vars => AInv'
  <1> SUFFICES ASSUME AInv, [Next]_vars PROVE AInv'
    OBVIOUS
  <1>1. CASE New
    BY <1>1, NewStep
  <1>2. CASE AddString
    BY <1>2, AddStringStep
  <1>3. CASE Allocate
    BY <1>3, AllocateStep
  <1>4. CASE SourceFromBytes
    <2>1. PICK text \in Texts : text = buffer
      BY DEF AInv, Types
    <2>2. CanAddFile
          /\ NewSource(AddFile(ast, Put(memory, Bytes(text)), InBuffer, Place(memory)), text)
      BY <1>4, <2>1 DEF SourceFromBytes
    <2> QED BY <2>2, SourceStep
  <1>5. CASE Delete
    BY <1>5, DeleteStep
  <1>6. ASSUME NEW text \in Texts, SourceFromFile(text) PROVE AInv'
    BY <1>6, SourceStep DEF SourceFromFile
  <1>7. ASSUME NEW text \in Texts, Refill(text) PROVE AInv'
    BY <1>7, RefillStep DEF Refill
  <1>8. CASE UNCHANGED vars
    BY <1>8, RefillStep DEF vars, AInv, Types
  <1> QED BY <1>1, <1>2, <1>3, <1>4, <1>5, <1>6, <1>7, <1>8 DEF Next

LEMMA AlwaysAInv == Spec => []AInv
  BY InitAInv, StepAInv, PTL DEF Spec

-----------------------------------------------------------------------------
(* Every string that was returned reads the same until the context is      *)
(* deleted, and equal strings are one: AstContext_add_string, for any      *)
(* texts, however often the caller fills its buffer anew.                  *)
THEOREM StringsReadTheSame == Spec => []NamesForGood
  <1>1. AInv => NamesForGood
    <2> SUFFICES ASSUME AInv PROVE NamesForGood
      OBVIOUS
    <2>1. CASE ast = NULL
      BY <2>1 DEF AInv, Nothing, NamesForGood
    <2>2. CASE ast # NULL
      <3>1. Names
        BY <2>2 DEF AInv
      <3>2. ASSUME NEW k \in Keys PROVE Text(k) = KeyText(k)
        BY <3>1, NotNull DEF Names, IsKey, Holds, Text, KeyText
      <3> QED BY <3>1, <3>2 DEF Names, NamesForGood
    <2> QED BY <2>1, <2>2
  <1> QED BY <1>1, AlwaysAInv, PTL

(* Every source has the path and the bytes it was made with, and is in the *)
(* array of files, which has room for it: add_file, for any number of      *)
(* files and whether or not realloc moves the array.                       *)
THEOREM SourcesStay == Spec => []SourcesKept
  <1>1. AInv => SourcesKept
    <2> SUFFICES ASSUME AInv PROVE SourcesKept
      OBVIOUS
    <2>1. CASE ast = NULL
      BY <2>1 DEF AInv, Nothing, SourcesKept
    <2>2. CASE ast # NULL
      <3>1. Names /\ Files /\ Sources /\ Owners /\ ast \in Contexts
        BY <2>2 DEF AInv, Types
      <3>2. ASSUME NEW k \in Keys PROVE Text(k) = KeyText(k)
        BY <3>1, NotNull DEF Names, IsKey, Holds, Text, KeyText
      <3>3. ASSUME NEW f \in sources
            PROVE  /\ Text(memory[f.at].path) = f.path
                   /\ memory[f.at].data \in Addresses
                   /\ memory[memory[f.at].data] = Bytes(f.text)
                   /\ f.at \in Range(memory[ast.files].items)
        <4>1. PICK k \in 1 .. ast.files_size : f.at = Items[k]
          BY <3>1 DEF Sources
        <4>2. Holds(Data(k), {"bytes"}) /\ Items \in Seq(Addresses) /\ Len(Items) = ast.files_size
          BY <3>1 DEF Files
        <4>3. ast.files # NULL
          <5>1. ast.files_size # 0
            BY <3>1, <4>1 DEF Contexts
          <5> QED BY <4>2, <5>1, NoneOnce DEF Items
        <4>4. f.at \in Range(Items) /\ Items = memory[ast.files].items
          BY <4>1, <4>2, <4>3, RangeAt DEF Items
        <4>5. Text(memory[f.at].path) = f.path /\ memory[memory[f.at].data] = Bytes(f.text)
          BY <3>1, <3>2 DEF Sources
        <4> QED BY <4>1, <4>2, <4>4, <4>5 DEF Data, Holds
      <3>4. ast.files_size <= ast.files_capacity
        BY <3>1 DEF Files
      <3> QED BY <3>3, <3>4 DEF SourcesKept
    <2> QED BY <2>1, <2>2
  <1> QED BY <1>1, AlwaysAInv, PTL

(* Every block that is not free has one owner and no second one, so that   *)
(* AstContext_delete frees each once and leaves none.                      *)
THEOREM EachBlockOwnedOnce == Spec => []OwnedOnce
  <1>1. AInv => OwnedOnce
    <2> SUFFICES ASSUME AInv PROVE OwnedOnce
      OBVIOUS
    <2>1. CORRUPTED \notin Range(memory)
      <3>1. memory \in [Addresses -> Blocks \cup {FREE}]
        BY DEF AInv, Types
      <3> QED BY <3>1, AstContextAssumption DEF Range
    <2>2. CASE ast = NULL
      BY <2>1, <2>2, NoneOnce DEF AInv, Nothing, OwnedOnce
    <2>3. CASE ast # NULL
      <3> DEFINE S == Addresses
                 heads == <<ast.at, ast.storage>>
                 last == IF ast.files = NULL THEN << >> ELSE <<ast.files>>
                 front == FileData \o heads
                 middle == front \o ast.arena
                 owned == middle \o last
      <3>1. /\ ast \in Contexts /\ Owners /\ Files /\ Covered /\ ast.arena \in Seq(S)
            /\ IsInjective(ast.arena)
            /\ \A a \in Range(ast.arena) : Holds(a, {"node", "string", "source"})
        BY <2>3 DEF AInv, Types, Contexts, Owners
      <3>2. /\ FileData \in Seq(S) /\ IsInjective(FileData)
            /\ Range(FileData) = {Data(k) : k \in 1 .. ast.files_size}
            /\ \A k \in 1 .. ast.files_size : Holds(Data(k), {"bytes"})
        BY <3>1, DataOnce
      <3>3. heads \in Seq(S) /\ Range(heads) = {ast.at, ast.storage} /\ IsInjective(heads)
        <4>1. ast.at # ast.storage /\ ast.at \in S /\ ast.storage \in S
          BY <3>1 DEF Owners, Holds
        <4> QED BY <4>1, TwoOnce
      <3>4. /\ last \in Seq(S) /\ IsInjective(last)
            /\ Range(last) = IF ast.files = NULL THEN {} ELSE {ast.files}
        <4>1. ast.files # NULL => ast.files \in S
          BY <3>1 DEF Owners, Holds
        <4> QED BY <4>1, OneOnce, NoneOnce
      <3> HIDE DEF heads, last, S
      <3>5. front \in Seq(S) /\ IsInjective(front) /\ Range(front) = Range(FileData) \cup Range(heads)
        <4>1. Range(FileData) \cap Range(heads) = {}
          BY <3>1, <3>2, <3>3 DEF Owners, Holds
        <4> QED BY <3>2, <3>3, <4>1, ConcatOnce
      <3>6. /\ middle \in Seq(S) /\ IsInjective(middle)
            /\ Range(middle) = Range(front) \cup Range(ast.arena)
        <4>1. Range(front) \cap Range(ast.arena) = {}
          BY <3>1, <3>2, <3>3, <3>5 DEF Owners, Holds
        <4> HIDE DEF front
        <4> QED BY <3>1, <3>5, <4>1, ConcatOnce
      <3>7. IsInjective(owned) /\ Range(owned) = Range(middle) \cup Range(last)
        <4>1. Range(middle) \cap Range(last) = {}
          BY <3>1, <3>2, <3>3, <3>4, <3>5, <3>6 DEF Owners, Holds
        <4> HIDE DEF front, middle
        <4> QED BY <3>4, <3>6, <4>1, ConcatOnce
      <3>8. Range(owned) = {Data(k) : k \in 1 .. ast.files_size} \cup {ast.at, ast.storage}
                           \cup Range(ast.arena) \cup Range(last)
        BY <3>2, <3>3, <3>5, <3>6, <3>7
      <3> HIDE DEF owned
      <3>9. Range(owned) = {a \in Addresses : memory[a] # FREE}
        <4>1. ASSUME NEW a \in Range(owned) PROVE a \in Addresses /\ memory[a] # FREE
          BY <3>1, <3>2, <3>4, <3>8 DEF Owners, Holds
        <4>2. ASSUME NEW a \in Addresses, memory[a] # FREE PROVE a \in Range(owned)
          <5>1. CASE a = ast.files
            BY <3>4, <3>8, <5>1, NotNull
          <5>2. CASE a # ast.files
            BY <3>1, <3>8, <4>2, <5>2 DEF Covered
          <5> QED BY <5>1, <5>2
        <4> QED BY <4>1, <4>2
      <3>10. owned = (FileData \o <<ast.at, ast.storage>>) \o ast.arena
                       \o (IF ast.files = NULL THEN << >> ELSE <<ast.files>>)
        BY DEF owned, heads, last
      <3> QED BY <2>1, <2>3, <3>7, <3>9, <3>10 DEF OwnedOnce
    <2> QED BY <2>2, <2>3
  <1> QED BY <1>1, AlwaysAInv, PTL
=============================================================================
