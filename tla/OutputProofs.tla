---------------------------- MODULE OutputProofs ----------------------------
(***************************************************************************)
(* Theorems about Output for any files, any reports and messages, and      *)
(* however often write(2) is interrupted or fails.                         *)
(***************************************************************************)
EXTENDS Output, FiniteSetTheorems, SequenceTheorems, WellFoundedInduction, TLAPS

-----------------------------------------------------------------------------
(* A nonempty set of natural numbers has a least member, so what holds of  *)
(* a and goes on from each number to the next holds up to n.               *)
LEMMA LeastNat ==
    ASSUME NEW T, T \subseteq Nat, T # {}
    PROVE  \E x \in T : \A y \in T : x <= y
  <1>1. \E x \in T : \A y \in T : ~ (<<y, x>> \in OpToRel(<, Nat))
    BY NatLessThanWellFounded, WFMin
  <1>2. PICK x \in T : \A y \in T : ~ (<<y, x>> \in OpToRel(<, Nat))
    BY <1>1
  <1>3. ASSUME NEW y \in T PROVE x <= y
    <2>1. y \in Nat /\ x \in Nat
      OBVIOUS
    <2>2. ~ (<<y, x>> \in OpToRel(<, Nat))
      BY <1>2
    <2>3. ~ (y < x)
      BY <2>1, <2>2 DEF OpToRel
    <2> QED BY <2>1, <2>3, SMT
  <1> QED BY <1>3

LEMMA UpTo ==
    ASSUME NEW a \in Nat, NEW n \in Nat, NEW T,
           a \in T, \A k \in a + 1 .. n : k - 1 \in T => k \in T
    PROVE  \A k \in a .. n : k \in T
  <1> DEFINE R == {k \in a .. n : k \notin T}
  <1> SUFFICES ASSUME R # {} PROVE FALSE
    OBVIOUS
  <1>1. PICK k \in R : \A y \in R : k <= y
    <2>1. R \subseteq Nat
      OBVIOUS
    <2> HIDE DEF R
    <2> QED BY <2>1, LeastNat
  <1>2. k \in a + 1 .. n /\ k - 1 \in a .. n /\ ~(k <= k - 1)
    BY <1>1
  <1>3. k - 1 \in T
    BY <1>1, <1>2
  <1> QED BY <1>1, <1>2, <1>3

(* A function that is defined step by step exists.                         *)
Follows(f, a, n, b, step) ==
    /\ f[a] = b
    /\ \A k \in a + 1 .. n : f[k] = step[<<k, f[k - 1]>>]

LEMMA StepsExist ==
    ASSUME NEW S, NEW a \in Nat, NEW n \in Nat, a <= n, NEW b \in S,
           NEW step \in [Nat \X S -> S]
    PROVE  \E f \in [a .. n -> S] : Follows(f, a, n, b, step)
  <1> DEFINE Upto(m, f) == /\ f \in [a .. m -> S] /\ f[a] = b
                           /\ \A k \in a + 1 .. m : f[k] = step[<<k, f[k - 1]>>]
             T == {m \in Nat : \E f : Upto(m, f)}
  <1>1. a \in T
    <2> DEFINE f == [k \in a .. a |-> b]
    <2>1. f \in [a .. a -> S] /\ f[a] = b /\ a + 1 .. a = {}
      OBVIOUS
    <2> HIDE DEF f
    <2>2. Upto(a, f)
      BY <2>1
    <2> QED BY <2>2
  <1>2. ASSUME NEW m \in a + 1 .. n, m - 1 \in T PROVE m \in T
    <2>1. PICK g : Upto(m - 1, g)
      BY <1>2
    <2> DEFINE f == [k \in a .. m |-> IF k = m THEN step[<<m, g[m - 1]>>] ELSE g[k]]
    <2>2. m \in Nat /\ m - 1 \in a .. m - 1 /\ a \in a .. m - 1
      BY <1>2
    <2>3. g[m - 1] \in S /\ step[<<m, g[m - 1]>>] \in S
      BY <2>1, <2>2
    <2>4. f \in [a .. m -> S]
      BY <2>1, <2>2, <2>3
    <2>5. f[a] = b
      BY <2>1, <2>2
    <2>6. ASSUME NEW k \in a + 1 .. m PROVE f[k] = step[<<k, f[k - 1]>>]
      <3>1. k - 1 \in a .. m - 1 /\ k \in a .. m /\ k - 1 # m
        BY <1>2
      <3>2. f[k - 1] = g[k - 1]
        BY <3>1
      <3>3. k # m => k \in a + 1 .. m - 1
        BY <1>2
      <3> QED BY <2>1, <3>1, <3>2, <3>3
    <2> HIDE DEF f
    <2>7. Upto(m, f)
      BY <2>4, <2>5, <2>6
    <2> HIDE DEF Upto
    <2> QED BY <2>2, <2>7
  <1> HIDE DEF T
  <1>3. \A k \in a .. n : k \in T
    BY <1>1, <1>2, UpTo
  <1>4. n \in T
    BY <1>3
  <1> QED BY <1>4 DEF T, Follows

-----------------------------------------------------------------------------
(* FlattenSeq.                                                             *)
LEMMA FlattenSteps ==
    ASSUME NEW S, NEW ss \in Seq(Seq(S)), Len(ss) > 0
    PROVE  \E f \in [1 .. Len(ss) -> Seq(S)] :
              /\ f[1] = ss[1]
              /\ \A k \in 2 .. Len(ss) : f[k] = f[k - 1] \o ss[k]
              /\ FlattenSeq(ss) = f[Len(ss)]
  <1> DEFINE n == Len(ss)
             T == Seq(S)
             step == [p \in Nat \X T |-> IF p[1] \in 1 .. n THEN p[2] \o ss[p[1]] ELSE p[2]]
             Rec(g) == g = [i \in 1 .. n |-> IF i = 1 THEN ss[i] ELSE g[i - 1] \o ss[i]]
  <1>1. n \in Nat /\ 1 <= n /\ 1 \in Nat /\ \A k \in 1 .. n : ss[k] \in T
    OBVIOUS
  <1>2. step \in [Nat \X T -> T]
    <2>1. \A s, t \in T : s \o t \in T
      OBVIOUS
    <2> HIDE DEF T, n
    <2> QED BY <1>1, <2>1
  <1>3. PICK f \in [1 .. n -> T] :
           f[1] = ss[1] /\ \A k \in 1 + 1 .. n : f[k] = step[<<k, f[k - 1]>>]
    <2>1. ss[1] \in T
      BY <1>1
    <2> HIDE DEF step, n, T
    <2>2. \E f \in [1 .. n -> T] : Follows(f, 1, n, ss[1], step)
      BY <1>1, <1>2, <2>1, StepsExist, Zenon
    <2> QED BY <2>2 DEF Follows
  <1>4. ASSUME NEW k \in 2 .. n PROVE f[k] = f[k - 1] \o ss[k]
    <2>1. k - 1 \in 1 .. n /\ k \in Nat /\ k \in 1 + 1 .. n /\ k \in 1 .. n
      BY <1>1
    <2>3. f[k - 1] \in T
      BY <1>3, <2>1
    <2>2. f[k] = step[<<k, f[k - 1]>>]
      BY <1>3, <2>1
    <2> HIDE DEF T, n
    <2> QED BY <2>1, <2>2, <2>3
  <1>5. Rec(f)
    <2>1. f = [k \in 1 .. n |-> f[k]]
      BY <1>3
    <2>2. ASSUME NEW k \in 1 .. n
          PROVE  f[k] = IF k = 1 THEN ss[k] ELSE f[k - 1] \o ss[k]
      <3>1. k # 1 => k \in 2 .. n
        BY <1>1
      <3> QED BY <1>3, <1>4, <3>1
    <2> HIDE DEF n
    <2> QED BY <2>1, <2>2, Zenon
  <1>6. FlattenSeq(ss) = (CHOOSE g : Rec(g))[n]
    BY <1>1 DEF FlattenSeq
  <1> DEFINE g == CHOOSE g : Rec(g)
  <1>7. Rec(g)
    <2> HIDE DEF Rec
    <2> QED BY <1>5
  <1>8. \A i \in 1 .. n : g[i] = IF i = 1 THEN ss[i] ELSE g[i - 1] \o ss[i]
    <2> HIDE DEF g, n
    <2> QED BY <1>7
  <1> HIDE DEF g, Rec, step
  <1>9. g[n] = f[n]
    <2> DEFINE R == {k \in 1 .. n : g[k] = f[k]}
    <2>1. 1 \in R
      BY <1>1, <1>3, <1>8
    <2>2. ASSUME NEW k \in 1 + 1 .. n, k - 1 \in R PROVE k \in R
      <3>1. k \in 2 .. n /\ k \in 1 .. n /\ k # 1
        BY <1>1
      <3> QED BY <1>4, <1>8, <2>2, <3>1
    <2> HIDE DEF R
    <2>3. \A k \in 1 .. n : k \in R
      BY <1>1, <2>1, <2>2, UpTo
    <2>4. n \in R
      BY <1>1, <2>3
    <2> QED BY <2>4 DEF R
  <1> QED BY <1>3, <1>4, <1>6, <1>9 DEF g

LEMMA FlattenType ==
    ASSUME NEW S, NEW ss \in Seq(Seq(S))
    PROVE  FlattenSeq(ss) \in Seq(S)
  <1>1. CASE Len(ss) = 0
    BY <1>1 DEF FlattenSeq
  <1>2. CASE Len(ss) > 0
    <2>1. Len(ss) \in 1 .. Len(ss)
      BY <1>2
    <2>2. PICK f \in [1 .. Len(ss) -> Seq(S)] : FlattenSeq(ss) = f[Len(ss)]
      BY <1>2, FlattenSteps
    <2> QED BY <2>1, <2>2
  <1> QED BY <1>1, <1>2

LEMMA FlattenNone == FlattenSeq(<< >>) = << >>
  BY DEF FlattenSeq

LEMMA FlattenAppend ==
    ASSUME NEW S, NEW ss \in Seq(Seq(S)), NEW s \in Seq(S)
    PROVE  FlattenSeq(Append(ss, s)) = FlattenSeq(ss) \o s
  <1> DEFINE tt == Append(ss, s)
             n == Len(ss)
  <1>1. /\ tt \in Seq(Seq(S)) /\ Len(tt) = n + 1 /\ n \in Nat /\ tt[n + 1] = s
        /\ \A k \in 1 .. n : tt[k] = ss[k]
    OBVIOUS
  <1> HIDE DEF tt
  <1>2. PICK f \in [1 .. n + 1 -> Seq(S)] :
           /\ f[1] = tt[1]
           /\ \A k \in 2 .. n + 1 : f[k] = f[k - 1] \o tt[k]
           /\ FlattenSeq(tt) = f[n + 1]
    <2>1. Len(tt) > 0
      BY <1>1
    <2>2. \E f \in [1 .. Len(tt) -> Seq(S)] :
             /\ f[1] = tt[1]
             /\ \A k \in 2 .. Len(tt) : f[k] = f[k - 1] \o tt[k]
             /\ FlattenSeq(tt) = f[Len(tt)]
      BY <1>1, <2>1, FlattenSteps, Zenon
    <2> HIDE DEF n
    <2> QED BY <1>1, <2>2
  <1>3. CASE n = 0
    <2>1. ss = << >> /\ FlattenSeq(tt) = s
      BY <1>1, <1>2, <1>3
    <2> QED BY <2>1, FlattenNone, ConcatEmptySeq DEF tt
  <1>4. CASE n > 0
    <2>1. PICK g \in [1 .. n -> Seq(S)] :
             /\ g[1] = ss[1]
             /\ \A k \in 2 .. n : g[k] = g[k - 1] \o ss[k]
             /\ FlattenSeq(ss) = g[n]
      BY <1>4, FlattenSteps
    <2> DEFINE T == {k \in 1 .. n : f[k] = g[k]}
    <2>2. 1 \in T
      BY <1>1, <1>2, <1>4, <2>1
    <2>3. ASSUME NEW k \in 1 + 1 .. n, k - 1 \in T PROVE k \in T
      <3>1. k \in 2 .. n /\ k \in 2 .. n + 1 /\ k \in 1 .. n
        BY <1>1
      <3>2. f[k] = f[k - 1] \o tt[k] /\ g[k] = g[k - 1] \o ss[k] /\ tt[k] = ss[k]
        BY <1>1, <1>2, <2>1, <3>1
      <3> QED BY <2>3, <3>1, <3>2
    <2> HIDE DEF T
    <2>4. \A k \in 1 .. n : k \in T
      BY <1>1, <2>2, <2>3, UpTo
    <2>5. f[n] = g[n]
      BY <1>1, <1>4, <2>4 DEF T
    <2>6. n + 1 \in 2 .. n + 1 /\ (n + 1) - 1 = n
      BY <1>1, <1>4
    <2>8. f[n + 1] = f[(n + 1) - 1] \o tt[n + 1]
      BY <1>2, <2>6
    <2>7. f[n + 1] = f[n] \o s
      BY <1>1, <2>6, <2>8
    <2> QED BY <1>2, <2>1, <2>5, <2>7 DEF tt
  <1> QED BY <1>1, <1>3, <1>4

LEMMA Regroup ==
    ASSUME NEW S, NEW x \in Seq(S), NEW y \in Seq(S), NEW z \in Seq(S)
    PROVE  (x \o y) \o z = x \o (y \o z)
  BY ConcatAssociative

LEMMA FlattenFurther ==
    ASSUME NEW S, NEW a \in Seq(Seq(S)), NEW b \in Seq(Seq(S)), NEW s \in Seq(S),
           FlattenSeq(a \o b) = FlattenSeq(a) \o FlattenSeq(b)
    PROVE  FlattenSeq(a \o Append(b, s)) = FlattenSeq(a) \o FlattenSeq(Append(b, s))
  <1>1. a \o Append(b, s) = Append(a \o b, s) /\ a \o b \in Seq(Seq(S))
    OBVIOUS
  <1>2. FlattenSeq(a \o Append(b, s)) = FlattenSeq(a \o b) \o s
    BY <1>1, FlattenAppend
  <1>3. FlattenSeq(Append(b, s)) = FlattenSeq(b) \o s
    BY FlattenAppend
  <1> DEFINE x == FlattenSeq(a)
             y == FlattenSeq(b)
  <1>4. x \in Seq(S) /\ y \in Seq(S)
    BY FlattenType
  <1>5. (x \o y) \o s = x \o (y \o s)
    <2> HIDE DEF x, y
    <2> QED BY <1>4, Regroup, SMTT(60)
  <1> QED BY <1>2, <1>3, <1>5

LEMMA FlattenConcat ==
    ASSUME NEW S, NEW a \in Seq(Seq(S)), NEW b \in Seq(Seq(S))
    PROVE  FlattenSeq(a \o b) = FlattenSeq(a) \o FlattenSeq(b)
  <1> DEFINE n == Len(b)
             part(k) == SubSeq(b, 1, k)
             T == {k \in 0 .. n : FlattenSeq(a \o part(k)) = FlattenSeq(a) \o FlattenSeq(part(k))}
  <1>1. n \in Nat /\ FlattenSeq(a) \in Seq(S)
    BY FlattenType
  <1>2. 0 \in T
    <2>1. part(0) = << >> /\ a \o << >> = a
      BY ConcatEmptySeq
    <2>2. FlattenSeq(a) \o << >> = FlattenSeq(a)
      BY <1>1, ConcatEmptySeq
    <2>3. FlattenSeq(a \o part(0)) = FlattenSeq(a) \o FlattenSeq(part(0))
      <3> HIDE DEF part
      <3>1. FlattenSeq(a \o part(0)) = FlattenSeq(a) /\ FlattenSeq(part(0)) = << >>
        BY <2>1, FlattenNone
      <3> QED BY <2>2, <3>1
    <2> QED BY <1>1, <2>3
  <1>3. ASSUME NEW k \in 0 + 1 .. n, k - 1 \in T PROVE k \in T
    <2>1. k \in 1 .. n /\ k - 1 \in 0 .. n /\ b[k] \in Seq(S)
      BY <1>1
    <2>2. part(k) \in Seq(Seq(S)) /\ part(k - 1) \in Seq(Seq(S)) /\ a \o part(k - 1) \in Seq(Seq(S))
      BY <2>1, SubSeqProperties
    <2>3. part(k) = Append(part(k - 1), b[k])
      <3>1. SubSeq(b, 1, k) = SubSeq(b, 1, k - 1) \o <<b[k]>>
        BY <2>1, SubSeqRecursiveSecond
      <3> QED BY <2>1, <2>2, <3>1, AppendIsConcat
    <2>4. FlattenSeq(a \o part(k - 1)) = FlattenSeq(a) \o FlattenSeq(part(k - 1))
      BY <1>3
    <2> HIDE DEF part
    <2>11. FlattenSeq(a \o part(k)) = FlattenSeq(a) \o FlattenSeq(part(k))
      BY <2>1, <2>2, <2>3, <2>4, FlattenFurther, ZenonT(60)
    <2>12. k \in 0 .. n
      BY <1>1
    <2> QED BY <2>11, <2>12
  <1>4. part(n) = b
    BY SubSeqFull
  <1> HIDE DEF T, part
  <1>5. n \in T
    <2>1. \A k \in 0 .. n : k \in T
      BY <1>1, <1>2, <1>3, UpTo
    <2> QED BY <1>1, <2>1
  <1> QED BY <1>4, <1>5 DEF T

LEMMA FlattenOne ==
    ASSUME NEW S, NEW s \in Seq(S)
    PROVE  FlattenSeq(<<s>>) = s
  <1>1. <<s>> = Append(<< >>, s) /\ << >> \in Seq(Seq(S))
    OBVIOUS
  <1>2. FlattenSeq(Append(<< >>, s)) = FlattenSeq(<< >>) \o s
    BY <1>1, FlattenAppend
  <1> QED BY <1>1, <1>2, FlattenNone, ConcatEmptySeq

LEMMA FlattenCons ==
    ASSUME NEW S, NEW ss \in Seq(Seq(S)), ss # << >>
    PROVE  FlattenSeq(ss) = Head(ss) \o FlattenSeq(Tail(ss))
  <1>1. /\ Head(ss) \in Seq(S) /\ Tail(ss) \in Seq(Seq(S))
        /\ <<Head(ss)>> \in Seq(Seq(S)) /\ ss = <<Head(ss)>> \o Tail(ss)
    OBVIOUS
  <1>2. FlattenSeq(<<Head(ss)>>) = Head(ss)
    BY <1>1, FlattenOne
  <1>3. FlattenSeq(<<Head(ss)>> \o Tail(ss)) = FlattenSeq(<<Head(ss)>>) \o FlattenSeq(Tail(ss))
    BY <1>1, FlattenConcat
  <1> QED BY <1>1, <1>2, <1>3

-----------------------------------------------------------------------------
(* ensure_array_capacity.  The loop grows the capacity by half; the least  *)
(* capacity it meets that is large enough exists, and is what it returns.  *)
Up(c) == c + c \div 2

Closed(c, T) == c \in T /\ \A y \in T : Up(y) \in T
Reached(c) == {x \in Nat : \A T \in SUBSET Nat : Closed(c, T) => x \in T}

Loop(g, size, extra) ==
    g = [c \in Nat |-> IF c - size >= extra THEN c ELSE g[c + c \div 2]]

LEMMA UpGrows ==
    ASSUME NEW c \in Nat
    PROVE  Up(c) \in Nat /\ Up(c) >= c /\ (c > 1 => Up(c) > c)
  BY SMT DEF Up

LEMMA ReachedUnfolds ==
    ASSUME NEW c \in Nat
    PROVE  /\ c \in Reached(c) /\ \A x \in Reached(c) : x >= c
           /\ Reached(c) = {c} \cup Reached(Up(c))
  <1>1. Up(c) \in Nat /\ \A y \in Nat : Up(y) \in Nat /\ Up(y) >= y
    BY UpGrows
  <1>2. c \in Reached(c)
    BY DEF Reached, Closed
  <1>3. ASSUME NEW x \in Reached(c) PROVE x >= c
    <2> DEFINE T == {y \in Nat : y >= c}
    <2>1. Closed(c, T)
      <3>1. c \in T
        OBVIOUS
      <3>2. ASSUME NEW y \in T PROVE Up(y) \in T
        <4>1. y \in Nat /\ y >= c /\ Up(y) \in Nat /\ Up(y) >= y
          BY <1>1
        <4> HIDE DEF Up
        <4> QED BY <4>1, SMT
      <3> QED BY <3>1, <3>2 DEF Closed
    <2> QED BY <2>1 DEF Reached
  <1>4. ASSUME NEW x \in Reached(c), x # c PROVE x \in Reached(Up(c))
    <2> SUFFICES ASSUME NEW T \in SUBSET Nat, Closed(Up(c), T) PROVE x \in T
      BY <1>4 DEF Reached
    <2>1. Closed(c, T \cup {c})
      BY DEF Closed
    <2> QED BY <1>4, <2>1 DEF Reached
  <1>5. ASSUME NEW x \in Reached(Up(c)) PROVE x \in Reached(c)
    BY <1>5 DEF Reached, Closed
  <1> QED BY <1>2, <1>3, <1>4, <1>5

LEMMA LoopExists ==
    ASSUME NEW size \in Nat, NEW extra \in Nat
    PROVE  \E g : Loop(g, size, extra)
  <1> DEFINE Enough(c) == {x \in Reached(c) : x - size >= extra}
             Least(T) == CHOOSE x \in T : \A y \in T : x <= y
             g == [c \in Nat |-> Least(Enough(c))]
  <1>1. ASSUME NEW c \in Nat, c - size >= extra PROVE Least(Enough(c)) = c
    <2>1. c \in Enough(c) /\ (\A y \in Enough(c) : c <= y) /\ Enough(c) \subseteq Nat
      <3>1. c \in Reached(c) /\ (\A x \in Reached(c) : x >= c) /\ Reached(c) \subseteq Nat
        BY ReachedUnfolds DEF Reached
      <3> QED BY <1>1, <3>1
    <2> DEFINE T == Enough(c)
    <2> HIDE DEF T
    <2>2. c \in T /\ (\A y \in T : c <= y) /\ T \subseteq Nat
      BY <2>1 DEF T
    <2>3. \A x \in T : (\A y \in T : x <= y) => x = c
      BY <2>2, SMT
    <2>4. Least(T) = c
      BY <2>2, <2>3, Zenon
    <2> QED BY <2>4 DEF T
  <1>2. ASSUME NEW c \in Nat, ~(c - size >= extra) PROVE Enough(c) = Enough(Up(c))
    BY <1>2, ReachedUnfolds
  <1>3. ASSUME NEW c \in Nat
        PROVE  g[c] = IF c - size >= extra THEN c ELSE g[c + c \div 2]
    <2>1. Up(c) \in Nat /\ Up(c) = c + c \div 2
      BY UpGrows DEF Up
    <2>2. g[c] = Least(Enough(c)) /\ g[Up(c)] = Least(Enough(Up(c)))
      BY <2>1
    <2>3. CASE c - size >= extra
      BY <1>1, <2>2, <2>3
    <2>4. CASE ~(c - size >= extra)
      <3>1. g[c] = g[Up(c)]
        BY <1>2, <2>2, <2>4
      <3> HIDE DEF g
      <3> QED BY <2>1, <2>4, <3>1
    <2> QED BY <2>3, <2>4
  <1>4. g = [c \in Nat |-> IF c - size >= extra THEN c ELSE g[c + c \div 2]]
    <2>1. g = [c \in Nat |-> g[c]]
      OBVIOUS
    <2> HIDE DEF g
    <2> QED BY <1>3, <2>1
  <1> HIDE DEF g
  <1> QED BY <1>4 DEF Loop

LEMMA LoopEnds ==
    ASSUME NEW size \in Nat, NEW extra \in Nat, NEW g, Loop(g, size, extra),
           NEW c \in Nat, c > 1
    PROVE  g[c] \in Nat /\ g[c] >= c /\ g[c] - size >= extra
  <1> DEFINE Good(x) == g[x] \in Nat /\ g[x] >= x /\ g[x] - size >= extra
  <1>1. \A x \in Nat : g[x] = IF x - size >= extra THEN x ELSE g[Up(x)]
    BY DEF Loop, Up
  <1>2. SUFFICES ASSUME ~Good(c) PROVE FALSE
    OBVIOUS
  <1> DEFINE Gap(x) == size + extra - x
             T == {n \in Nat : \E x \in Nat : x > 1 /\ ~Good(x) /\ n = Gap(x)}
  <1>3. ASSUME NEW x \in Nat, x > 1, ~Good(x)
        PROVE  Gap(x) \in T /\ ~(x - size >= extra)
    <2>1. ~(x - size >= extra)
      BY <1>1, <1>3
    <2>2. Gap(x) \in Nat
      BY <2>1
    <2> QED BY <1>3, <2>1, <2>2
  <1>4. T \subseteq Nat /\ T # {}
    BY <1>2, <1>3
  <1>5. PICK n \in T : \A k \in T : n <= k
    BY <1>4, LeastNat
  <1>6. PICK x \in Nat : x > 1 /\ ~Good(x) /\ n = Gap(x)
    BY <1>5
  <1>7. g[x] = g[Up(x)] /\ Up(x) \in Nat /\ Up(x) > x
    BY <1>1, <1>3, <1>6, UpGrows
  <1>8. ~Good(Up(x)) /\ Up(x) > 1
    BY <1>6, <1>7
  <1>9. Gap(Up(x)) \in T
    BY <1>3, <1>7, <1>8
  <1>10. n <= Gap(Up(x))
    BY <1>5, <1>9
  <1> QED BY <1>6, <1>7, <1>10

(* What is asked for fits the capacity there is afterwards.                *)
LEMMA EnsuredHasRoom ==
    ASSUME NEW capacity \in Nat, NEW size \in Nat, NEW extra \in Nat, capacity # 1
    PROVE  LET c == Ensured(capacity, size, extra) IN
           /\ c \in Nat /\ c - size >= extra /\ c >= capacity
           /\ capacity > 1 \/ extra > 0 => c > 1
  <1> DEFINE g == CHOOSE f : Loop(f, size, extra)
             start == IF capacity = 0 THEN FirstCapacity ELSE capacity
  <1>1. Loop(g, size, extra)
    BY LoopExists, Zenon
  <1>2. start \in Nat /\ start > 1 /\ start >= capacity
    BY GrowingArrayAssumption
  <1>3. Ensured(capacity, size, extra) = IF capacity - size >= extra THEN capacity ELSE g[start]
    BY Zenon DEF Ensured, Loop
  <1>4. g[start] \in Nat /\ g[start] >= start /\ g[start] - size >= extra
    BY <1>1, <1>2, LoopEnds
  <1> HIDE DEF g, start
  <1> DEFINE c == Ensured(capacity, size, extra)
  <1>5. c = IF capacity - size >= extra THEN capacity ELSE g[start]
    BY <1>3
  <1> HIDE DEF c
  <1>6. /\ c \in Nat /\ c - size >= extra /\ c >= capacity
        /\ capacity > 1 \/ extra > 0 => c > 1
    BY <1>2, <1>4, <1>5
  <1> QED BY <1>6 DEF c

-----------------------------------------------------------------------------
(* What is written: words of the program and its arguments, digits, what   *)
(* the program itself has between them, and what an array held before.     *)
Units == STRING \cup {Digit[k] : k \in 1 .. 16}
                \cup {JUNK, "invalid UTF-8 encoding", "unexpected character U+", "%04X",
                      ": info: ", ": warning: ", ": error: ", "\n", "0"}
Texts == Seq(Units)

Parts == {"chunk", "string", "zero", "number", "last"}
Writes == [bytes : Texts, part : Parts]
Bytes(ws) == [i \in 1 .. Len(ws) |-> ws[i].bytes]
Written(ws) == FlattenSeq(Bytes(ws))

LEMMA BytesType ==
    ASSUME NEW ws \in Seq(Writes)
    PROVE  Bytes(ws) \in Seq(Texts) /\ Len(Bytes(ws)) = Len(ws)
  <1> DEFINE n == Len(ws)
  <1>1. n \in Nat /\ \A i \in 1 .. n : ws[i].bytes \in Texts
    <2>1. \A i \in 1 .. n : ws[i] \in Writes
      OBVIOUS
    <2> HIDE DEF n
    <2>2. \A w \in Writes : w.bytes \in Texts
      BY Zenon DEF Writes
    <2> QED BY <2>1, <2>2 DEF n
  <1> HIDE DEF n
  <1>2. [i \in 1 .. n |-> ws[i].bytes] \in Seq(Texts) /\ Len([i \in 1 .. n |-> ws[i].bytes]) = n
    <2> HIDE DEF Texts
    <2> QED BY <1>1
  <1> QED BY <1>2 DEF Bytes, n

LEMMA WrittenType ==
    ASSUME NEW ws \in Seq(Writes)
    PROVE  Written(ws) \in Texts
  BY BytesType, FlattenType DEF Written, Texts

LEMMA WrittenConcat ==
    ASSUME NEW ws \in Seq(Writes), NEW vs \in Seq(Writes)
    PROVE  Written(ws \o vs) = Written(ws) \o Written(vs)
  <1> DEFINE a == Bytes(ws)
             b == Bytes(vs)
  <1>1. a \in Seq(Texts) /\ b \in Seq(Texts) /\ Len(a) = Len(ws) /\ Len(b) = Len(vs)
    BY BytesType
  <1>2. Bytes(ws \o vs) = a \o b
    <2>1. /\ Len(ws \o vs) = Len(ws) + Len(vs) /\ Len(ws) \in Nat /\ Len(vs) \in Nat
          /\ ws \o vs \in Seq(Writes)
      OBVIOUS
    <2>2. Bytes(ws \o vs) \in Seq(Texts) /\ Len(Bytes(ws \o vs)) = Len(ws \o vs)
      BY <2>1, BytesType
    <2>3. a \o b \in Seq(Texts) /\ Len(a \o b) = Len(ws) + Len(vs)
      <3> HIDE DEF a, b
      <3>1. a \o b \in Seq(Texts) /\ Len(a \o b) = Len(a) + Len(b)
        BY <1>1
      <3> QED BY <1>1, <3>1
    <2>4. ASSUME NEW i \in 1 .. Len(ws) + Len(vs) PROVE Bytes(ws \o vs)[i] = (a \o b)[i]
      <3>1. Bytes(ws \o vs)[i] = (ws \o vs)[i].bytes
        BY <2>1 DEF Bytes
      <3>2. CASE i <= Len(ws)
        <4>1. (ws \o vs)[i] = ws[i]
          BY <2>1, <3>2
        <4>2. (a \o b)[i] = a[i] /\ i \in 1 .. Len(ws)
          BY <1>1, <2>1, <3>2, ConcatProperties
        <4>3. a[i] = ws[i].bytes
          BY <4>2 DEF Bytes
        <4> QED BY <3>1, <4>1, <4>2, <4>3
      <3>3. CASE i > Len(ws)
        <4>1. (ws \o vs)[i] = vs[i - Len(ws)]
          BY <2>1, <3>3
        <4>2. (a \o b)[i] = b[i - Len(ws)] /\ i - Len(ws) \in 1 .. Len(vs)
          <5> HIDE DEF a, b
          <5> QED BY <1>1, <2>1, <3>3, ConcatProperties
        <4>3. b[i - Len(ws)] = vs[i - Len(ws)].bytes
          BY <4>2 DEF Bytes
        <4> QED BY <3>1, <4>1, <4>2, <4>3
      <3>4. i <= Len(ws) \/ i > Len(ws)
        BY <2>1
      <3> HIDE DEF a, b
      <3> QED BY <3>2, <3>3, <3>4
    <2> HIDE DEF a, b
    <2> QED BY <2>1, <2>2, <2>3, <2>4, SeqEqual
  <1> HIDE DEF a, b
  <1>3. FlattenSeq(a \o b) = FlattenSeq(a) \o FlattenSeq(b)
    BY <1>1, FlattenConcat DEF Texts
  <1> QED BY <1>2, <1>3 DEF Written, a, b

LEMMA WrittenNone == Written(<< >>) = << >>
  <1>1. Bytes(<< >>) = << >>
    BY DEF Bytes
  <1> QED BY <1>1, FlattenNone DEF Written

LEMMA WrittenOne ==
    ASSUME NEW w \in Writes
    PROVE  Written(<<w>>) = w.bytes
  <1>1. w.bytes \in Texts
    BY Zenon DEF Writes
  <1>2. Bytes(<<w>>) = <<w.bytes>>
    <2>1. Len(<<w>>) = 1 /\ <<w>>[1] = w
      OBVIOUS
    <2>2. [i \in 1 .. 1 |-> <<w>>[i].bytes] = [i \in 1 .. 1 |-> w.bytes]
      BY <2>1
    <2>3. [i \in 1 .. 1 |-> w.bytes] = <<w.bytes>>
      OBVIOUS
    <2> QED BY <2>1, <2>2, <2>3 DEF Bytes
  <1> QED BY <1>1, <1>2, FlattenOne DEF Written, Texts

LEMMA WrittenCons ==
    ASSUME NEW ws \in Seq(Writes), ws # << >>
    PROVE  /\ Head(ws) \in Writes /\ Head(ws).bytes \in Texts /\ Tail(ws) \in Seq(Writes)
           /\ Written(ws) = Head(ws).bytes \o Written(Tail(ws))
  <1>1. /\ Head(ws) \in Writes /\ Tail(ws) \in Seq(Writes) /\ <<Head(ws)>> \in Seq(Writes)
        /\ ws = <<Head(ws)>> \o Tail(ws)
    OBVIOUS
  <1>2. Head(ws).bytes \in Texts
    <2>1. \A w \in Writes : w.bytes \in Texts
      BY Zenon DEF Writes
    <2> QED BY <1>1, <2>1
  <1>3. Written(<<Head(ws)>>) = Head(ws).bytes
    BY <1>1, WrittenOne
  <1>4. Written(<<Head(ws)>> \o Tail(ws)) = Written(<<Head(ws)>>) \o Written(Tail(ws))
    BY <1>1, WrittenConcat
  <1> QED BY <1>1, <1>2, <1>3, <1>4

-----------------------------------------------------------------------------
(* Some units of a text, in their order; taking each as soon as it comes   *)
(* finds them all.                                                         *)
Places(e, s, t) == /\ \A i \in 1 .. Len(s) : t[e[i]] = s[i]
                   /\ \A i, j \in 1 .. Len(s) : i < j => e[i] < e[j]
Within(s, t) == \E e \in [1 .. Len(s) -> 1 .. Len(t)] : Places(e, s, t)

LEMMA WithinSelf ==
    ASSUME NEW s \in Texts
    PROVE  Within(s, s)
  <1> DEFINE e == [i \in 1 .. Len(s) |-> i]
  <1>1. e \in [1 .. Len(s) -> 1 .. Len(s)] /\ \A i \in 1 .. Len(s) : e[i] = i
    OBVIOUS
  <1> HIDE DEF e
  <1>2. Places(e, s, s)
    BY <1>1 DEF Places
  <1> QED BY <1>1, <1>2 DEF Within

LEMMA WithinBoth ==
    ASSUME NEW s \in Texts, NEW t \in Texts, NEW u \in Texts, Within(s, t)
    PROVE  Within(s \o u, t \o u)
  <1> DEFINE m == Len(s)
             n == Len(t)
             l == Len(u)
  <1>1. /\ m \in Nat /\ n \in Nat /\ l \in Nat /\ Len(s \o u) = m + l /\ Len(t \o u) = n + l
        /\ \A i \in 1 .. m : (s \o u)[i] = s[i]
        /\ \A i \in 1 .. n : (t \o u)[i] = t[i]
        /\ \A i \in 1 .. l : (s \o u)[m + i] = u[i] /\ (t \o u)[n + i] = u[i]
    BY DEF Texts
  <1>2. PICK e \in [1 .. m -> 1 .. n] : Places(e, s, t)
    BY DEF Within
  <1> HIDE DEF m, n, l
  <1> DEFINE g == [i \in 1 .. m + l |-> IF i <= m THEN e[i] ELSE n + (i - m)]
  <1>3. \A i \in 1 .. m : e[i] \in 1 .. n /\ i \in 1 .. m + l
    BY <1>1, <1>2
  <1>4. g \in [1 .. m + l -> 1 .. n + l]
    BY <1>1, <1>3
  <1>5. \A i \in 1 .. m + l : g[i] = IF i <= m THEN e[i] ELSE n + (i - m)
    OBVIOUS
  <1> HIDE DEF g
  <1>6. ASSUME NEW i \in 1 .. m + l PROVE (t \o u)[g[i]] = (s \o u)[i]
    <2>1. CASE i <= m
      <3>1. i \in 1 .. m /\ g[i] = e[i] /\ e[i] \in 1 .. n
        BY <1>1, <1>3, <1>5, <2>1
      <3>2. t[e[i]] = s[i]
        BY <1>2, <3>1 DEF Places, m
      <3> QED BY <1>1, <3>1, <3>2
    <2>2. CASE i > m
      <3> DEFINE j == i - m
      <3>1. j \in 1 .. l /\ i = m + j /\ g[i] = n + j
        BY <1>1, <1>5, <2>2
      <3> HIDE DEF j
      <3> QED BY <1>1, <3>1
    <2>3. i <= m \/ i > m
      BY <1>1
    <2> QED BY <2>1, <2>2, <2>3
  <1>7. ASSUME NEW i \in 1 .. m + l, NEW j \in 1 .. m + l, i < j PROVE g[i] < g[j]
    <2>1. CASE j <= m
      <3>1. i \in 1 .. m /\ j \in 1 .. m
        BY <1>1, <1>7, <2>1
      <3>2. e[i] < e[j]
        BY <1>2, <1>7, <3>1 DEF Places, m
      <3> QED BY <1>5, <3>1, <3>2
    <2>2. CASE j > m /\ i <= m
      <3>1. i \in 1 .. m /\ e[i] \in 1 .. n
        BY <1>1, <1>3, <2>2
      <3>2. g[i] = e[i] /\ g[j] = n + (j - m) /\ j \in Nat /\ e[i] \in Nat /\ e[i] <= n
        BY <1>1, <1>5, <2>2, <3>1
      <3> QED BY <1>1, <2>2, <3>2
    <2>3. CASE i > m
      <3>1. g[i] = n + (i - m) /\ g[j] = n + (j - m) /\ i \in Nat /\ j \in Nat
        BY <1>1, <1>5, <1>7, <2>3
      <3> QED BY <1>1, <1>7, <3>1
    <2>4. j <= m \/ (j > m /\ i <= m) \/ i > m
      BY <1>1
    <2> QED BY <2>1, <2>2, <2>3, <2>4
  <1>8. Places(g, s \o u, t \o u)
    BY <1>1, <1>6, <1>7 DEF Places
  <1> QED BY <1>1, <1>4, <1>8 DEF Within

LEMMA WithinMore ==
    ASSUME NEW s \in Texts, NEW t \in Texts, NEW u \in Texts, Within(s, t)
    PROVE  Within(s, t \o u)
  <1> DEFINE m == Len(s)
             n == Len(t)
             l == Len(u)
  <1>1. /\ m \in Nat /\ n \in Nat /\ l \in Nat /\ Len(t \o u) = n + l
        /\ \A i \in 1 .. n : (t \o u)[i] = t[i]
    BY DEF Texts
  <1>2. PICK e \in [1 .. m -> 1 .. n] : Places(e, s, t)
    BY DEF Within
  <1> HIDE DEF m, n, l
  <1>3. \A i \in 1 .. m : e[i] \in 1 .. n /\ e[i] \in 1 .. n + l
    BY <1>1, <1>2
  <1>4. e \in [1 .. m -> 1 .. n + l]
    BY <1>2, <1>3
  <1>5. Places(e, s, t \o u)
    BY <1>1, <1>2, <1>3 DEF Places, m
  <1> QED BY <1>1, <1>4, <1>5 DEF Within, m

LEMMA MetIs ==
    ASSUME NEW s \in Texts, NEW t \in Texts
    PROVE  \E f \in [0 .. Len(t) -> Nat] :
              /\ f[0] = 0
              /\ \A k \in 1 .. Len(t) :
                    f[k] = IF f[k - 1] < Len(s) /\ s[f[k - 1] + 1] = t[k]
                           THEN f[k - 1] + 1 ELSE f[k - 1]
              /\ InPlace(s, t) <=> f[Len(t)] = Len(s)
  <1> DEFINE n == Len(t)
             Taken(m, k) == IF m < Len(s) /\ s[m + 1] = t[k] THEN m + 1 ELSE m
             step == [p \in Nat \X Nat |-> Taken(p[2], p[1])]
             Rec(g) == g = [i \in 0 .. n |->
                              IF i = 0 THEN 0
                              ELSE LET m == g[i - 1]
                                   IN IF m < Len(s) /\ s[m + 1] = t[i] THEN m + 1 ELSE m]
  <1>1. n \in Nat /\ 0 \in Nat /\ 0 <= n
    BY DEF Texts
  <1>2. step \in [Nat \X Nat -> Nat]
    <2>1. \A m, k \in Nat : Taken(m, k) \in Nat
      OBVIOUS
    <2> HIDE DEF Taken
    <2> QED BY <2>1
  <1>3. PICK f \in [0 .. n -> Nat] : Follows(f, 0, n, 0, step)
    <2> HIDE DEF step, n, Rec
    <2> QED BY <1>1, <1>2, StepsExist, Zenon
  <1>4. f[0] = 0
    BY <1>3 DEF Follows
  <1>5. ASSUME NEW k \in 1 .. n PROVE f[k] = Taken(f[k - 1], k)
    <2>1. k - 1 \in 0 .. n /\ k \in Nat /\ k \in 0 + 1 .. n
      BY <1>1
    <2>2. f[k - 1] \in Nat
      BY <1>3, <2>1
    <2>3. f[k] = step[<<k, f[k - 1]>>]
      BY <1>3, <2>1 DEF Follows
    <2> HIDE DEF Taken
    <2> QED BY <2>1, <2>2, <2>3
  <1>6. Rec(f)
    <2>1. f = [k \in 0 .. n |-> f[k]]
      BY <1>3
    <2>2. ASSUME NEW k \in 0 .. n
          PROVE  f[k] = IF k = 0 THEN 0
                        ELSE LET m == f[k - 1]
                             IN IF m < Len(s) /\ s[m + 1] = t[k] THEN m + 1 ELSE m
      <3>1. k # 0 => k \in 1 .. n
        BY <1>1
      <3> QED BY <1>4, <1>5, <3>1
    <2> HIDE DEF n
    <2> QED BY <2>1, <2>2, Zenon
  <1> DEFINE g == CHOOSE g : Rec(g)
  <1>7. Rec(g)
    <2> HIDE DEF Rec
    <2> QED BY <1>6
  <1>8. \A i \in 0 .. n : g[i] = IF i = 0 THEN 0 ELSE Taken(g[i - 1], i)
    <2> HIDE DEF g, n
    <2> QED BY <1>7
  <1>9. InPlace(s, t) <=> g[n] = Len(s)
    BY DEF InPlace
  <1> HIDE DEF g, Rec, step, Taken
  <1>10. g[n] = f[n]
    <2> DEFINE R == {k \in 0 .. n : g[k] = f[k]}
    <2>1. 0 \in R
      BY <1>1, <1>4, <1>8
    <2>2. ASSUME NEW k \in 0 + 1 .. n, k - 1 \in R PROVE k \in R
      <3>1. k \in 1 .. n /\ k \in 0 .. n /\ k # 0
        BY <1>1
      <3> QED BY <1>5, <1>8, <2>2, <3>1
    <2> HIDE DEF R
    <2>3. \A k \in 0 .. n : k \in R
      BY <1>1, <2>1, <2>2, UpTo
    <2>4. n \in R
      BY <1>1, <2>3
    <2> QED BY <2>4 DEF R
  <1> QED BY <1>3, <1>4, <1>5, <1>9, <1>10 DEF Taken

LEMMA WithinInPlace ==
    ASSUME NEW s \in Texts, NEW t \in Texts, Within(s, t)
    PROVE  InPlace(s, t)
  <1> DEFINE m == Len(s)
             n == Len(t)
  <1>1. m \in Nat /\ n \in Nat
    BY DEF Texts
  <1>2. PICK e \in [1 .. m -> 1 .. n] : Places(e, s, t)
    BY DEF Within
  <1>3. PICK f \in [0 .. n -> Nat] :
           /\ f[0] = 0
           /\ \A k \in 1 .. n : f[k] = IF f[k - 1] < m /\ s[f[k - 1] + 1] = t[k]
                                       THEN f[k - 1] + 1 ELSE f[k - 1]
           /\ InPlace(s, t) <=> f[n] = m
    BY MetIs
  <1>4. /\ \A i \in 1 .. m : e[i] \in 1 .. n /\ t[e[i]] = s[i]
        /\ \A i, j \in 1 .. m : i < j => e[i] < e[j]
    BY <1>2 DEF Places
  <1> HIDE DEF m, n
  <1> DEFINE T == {k \in 0 .. n : f[k] <= m /\ \A i \in 1 .. m : e[i] <= k => i <= f[k]}
  <1>5. 0 \in T
    <2>1. ASSUME NEW i \in 1 .. m PROVE ~(e[i] <= 0)
      BY <1>1, <1>4
    <2> QED BY <1>1, <1>3, <2>1
  <1>6. ASSUME NEW k \in 0 + 1 .. n, k - 1 \in T PROVE k \in T
    <2>1. k \in 1 .. n /\ k \in 0 .. n /\ k - 1 \in 0 .. n
      BY <1>1
    <2> DEFINE h == f[k - 1]
    <2>2. /\ h \in Nat /\ h <= m /\ \A i \in 1 .. m : e[i] <= k - 1 => i <= h
          /\ f[k] = IF h < m /\ s[h + 1] = t[k] THEN h + 1 ELSE h
      BY <1>3, <1>6, <2>1
    <2> HIDE DEF h
    <2>3. f[k] \in Nat /\ f[k] <= m /\ h <= f[k]
      BY <1>1, <2>2
    <2>4. ASSUME NEW i \in 1 .. m, e[i] <= k PROVE i <= f[k]
      <3>1. CASE e[i] <= k - 1
        BY <1>1, <2>2, <2>3, <3>1
      <3>2. CASE e[i] = k
        <4>1. i - 1 <= h
          <5>1. CASE i = 1
            BY <2>2, <5>1
          <5>2. CASE i # 1
            <6>1. i - 1 \in 1 .. m /\ i - 1 < i
              BY <1>1, <5>2
            <6>2. e[i - 1] < k
              BY <1>4, <3>2, <6>1
            <6>3. e[i - 1] \in Nat
              BY <1>1, <1>4, <6>1
            <6>4. e[i - 1] <= k - 1
              BY <2>1, <6>2, <6>3
            <6> QED BY <2>2, <6>1, <6>4
          <5> QED BY <5>1, <5>2
        <4>2. s[i] = t[k]
          BY <1>4, <3>2
        <4>3. CASE h = i - 1
          <5>1. h + 1 = i /\ h < m
            BY <1>1, <2>2, <4>3
          <5>2. s[h + 1] = t[k]
            BY <4>2, <5>1
          <5>3. f[k] = h + 1
            BY <2>2, <5>1, <5>2
          <5> QED BY <5>1, <5>3
        <4>4. CASE h # i - 1
          BY <1>1, <2>2, <2>3, <4>1, <4>4
        <4> QED BY <4>3, <4>4
      <3>3. e[i] <= k - 1 \/ e[i] = k
        BY <1>1, <1>4, <2>1, <2>4
      <3> QED BY <3>1, <3>2, <3>3
    <2> QED BY <2>1, <2>3, <2>4
  <1> HIDE DEF T
  <1>7. \A k \in 0 .. n : k \in T
    <2>1. 0 \in Nat
      OBVIOUS
    <2> QED BY <1>1, <1>5, <1>6, <2>1, UpTo
  <1>8. f[n] <= m /\ \A i \in 1 .. m : e[i] <= n => i <= f[n]
    BY <1>1, <1>7 DEF T
  <1>9. f[n] = m
    <2>1. f[n] \in Nat
      BY <1>1, <1>3
    <2>2. CASE m = 0
      BY <1>8, <2>1, <2>2
    <2>3. CASE m > 0
      <3>1. m \in 1 .. m /\ e[m] <= n
        BY <1>1, <1>4, <2>3
      <3> QED BY <1>1, <1>8, <2>1, <3>1
    <2> QED BY <1>1, <2>2, <2>3
  <1> QED BY <1>3, <1>9

-----------------------------------------------------------------------------
(* utf8_decode.                                                            *)
LEMMA AssembledSteps ==
    ASSUME NEW data \in Seq(0 .. 255), NEW length \in 1 .. 4, length <= Len(data)
    PROVE  \E g : /\ Assembled(data, 1, length) = g[length - 1]
                  /\ g[0] = data[1] % (CASE length = 1 -> 128 [] length = 2 -> 32
                                         [] length = 3 -> 16 [] OTHER -> 8)
                  /\ \A k \in 1 .. length - 1 : g[k] = g[k - 1] * 64 + (data[1 + k] % 64)
  <1> DEFINE n == length - 1
             mask == CASE length = 1 -> 128 [] length = 2 -> 32
                       [] length = 3 -> 16 [] OTHER -> 8
             first == data[1] % mask
             more(k) == IF k \in 1 .. n THEN data[1 + k] % 64 ELSE 0
             step == [p \in Nat \X Nat |-> p[2] * 64 + more(p[1])]
             Rec(g) == g = [k \in 0 .. n |->
                              IF k = 0
                              THEN data[1] % (CASE length = 1 -> 128 [] length = 2 -> 32
                                                [] length = 3 -> 16 [] OTHER -> 8)
                              ELSE g[k - 1] * 64 + (data[1 + k] % 64)]
  <1>1. n \in Nat /\ 0 \in Nat /\ 0 <= n /\ length \in Nat /\ Len(data) \in Nat /\ 1 <= length
    OBVIOUS
  <1> HIDE DEF step, more, Rec, first, mask
  <1>0. \A i \in 1 .. Len(data) : data[i] \in 0 .. 255
    BY ElementOfSeq, Zenon
  <1>2. first \in Nat
    <2>1. data[1] \in 0 .. 255
      <3>1. 1 \in 1 .. Len(data)
        BY <1>1
      <3> QED BY <1>0, <3>1
    <2>2. mask \in {128, 32, 16, 8}
      BY DEF mask
    <2>3. \A b \in 0 .. 255 : b % 128 \in Nat /\ b % 32 \in Nat /\ b % 16 \in Nat /\ b % 8 \in Nat
      OBVIOUS
    <2>4. data[1] % mask \in Nat
      <3>1. \/ data[1] % mask = data[1] % 128 \/ data[1] % mask = data[1] % 32
            \/ data[1] % mask = data[1] % 16 \/ data[1] % mask = data[1] % 8
        BY <2>2, Zenon
      <3> QED BY <2>1, <2>3, <3>1, ZenonT(60)
    <2> QED BY <2>4 DEF first
  <1>3. \A k \in Nat : more(k) \in Nat
    <2>1. ASSUME NEW k \in 1 .. n PROVE data[1 + k] % 64 \in Nat
      <3>1. 1 + k \in 1 .. Len(data)
        BY <1>1
      <3>3. data[1 + k] \in 0 .. 255
        BY <1>0, <3>1
      <3>2. \A b \in 0 .. 255 : b % 64 \in Nat
        OBVIOUS
      <3> QED BY <3>2, <3>3
    <2> QED BY <2>1 DEF more
  <1>4. step \in [Nat \X Nat -> Nat]
    <2>1. ASSUME NEW k \in Nat, NEW v \in Nat PROVE v * 64 + more(k) \in Nat
      <3>1. more(k) \in Nat /\ v * 64 \in Nat
        BY <1>3
      <3> QED BY <3>1
    <2> QED BY <2>1 DEF step
  <1>5. PICK f \in [0 .. n -> Nat] : Follows(f, 0, n, first, step)
    <2> HIDE DEF n
    <2> QED BY <1>1, <1>2, <1>4, StepsExist, Zenon
  <1>6. ASSUME NEW k \in 1 .. n PROVE f[k] = f[k - 1] * 64 + (data[1 + k] % 64)
    <2>1. k - 1 \in 0 .. n /\ k \in Nat /\ k \in 0 + 1 .. n
      BY <1>1
    <2>2. f[k - 1] \in Nat
      BY <1>5, <2>1
    <2>3. f[k] = step[<<k, f[k - 1]>>]
      BY <1>5, <2>1 DEF Follows
    <2>4. f[k] = f[k - 1] * 64 + more(k)
      BY <2>1, <2>2, <2>3 DEF step
    <2> QED BY <2>4 DEF more
  <1>7. Rec(f)
    <2>1. f = [k \in 0 .. n |-> f[k]]
      BY <1>5
    <2>2. f[0] = first
      BY <1>5 DEF Follows
    <2>3. ASSUME NEW k \in 0 .. n
          PROVE  f[k] = IF k = 0 THEN first ELSE f[k - 1] * 64 + (data[1 + k] % 64)
      <3>1. k # 0 => k \in 1 .. n
        BY <1>1
      <3> QED BY <1>6, <2>2, <3>1
    <2> HIDE DEF n
    <2> QED BY <2>1, <2>3, Zenon DEF Rec, first, mask
  <1> DEFINE g == CHOOSE g : Rec(g)
  <1>8. Rec(g)
    <2> HIDE DEF Rec
    <2> QED BY <1>7
  <1>9. Assembled(data, 1, length) = g[length - 1]
    BY DEF Assembled, Rec
  <1> HIDE DEF g
  <1>10. 0 \in 0 .. n /\ \A k \in 1 .. n : k \in 0 .. n /\ k # 0
    BY <1>1
  <1>11. g[0] = first /\ \A k \in 1 .. n : g[k] = g[k - 1] * 64 + (data[1 + k] % 64)
    <2> HIDE DEF n
    <2>1. g = [k \in 0 .. n |-> IF k = 0 THEN first
                                ELSE g[k - 1] * 64 + (data[1 + k] % 64)]
      BY <1>8 DEF Rec, first, mask
    <2> QED BY <1>10, <2>1
  <1> QED BY <1>9, <1>11 DEF first, mask

Joined(a, b) == a * 64 + b
One(w) == w % 128
Two(w, x) == Joined(w % 32, x % 64)
Three(w, x, y) == Joined(Joined(w % 16, x % 64), y % 64)
Four(w, x, y, z) == Joined(Joined(Joined(w % 8, x % 64), y % 64), z % 64)

LEMMA JoinedIs ==
    ASSUME NEW a \in Nat, NEW b \in 0 .. 63
    PROVE  /\ Joined(a, b) \in Nat
           /\ Joined(a, b) \div 64 = a /\ Joined(a, b) % 64 = b
  BY DEF Joined

LEMMA AssembledIs ==
    ASSUME NEW data \in Seq(0 .. 255), NEW length \in 1 .. 4, length <= Len(data)
    PROVE  /\ length = 1 => Assembled(data, 1, length) = One(data[1])
           /\ length = 2 => Assembled(data, 1, length) = Two(data[1], data[2])
           /\ length = 3 => Assembled(data, 1, length) = Three(data[1], data[2], data[3])
           /\ length = 4 => Assembled(data, 1, length) = Four(data[1], data[2], data[3], data[4])
  <1>1. PICK g : /\ Assembled(data, 1, length) = g[length - 1]
                 /\ g[0] = data[1] % (CASE length = 1 -> 128 [] length = 2 -> 32
                                        [] length = 3 -> 16 [] OTHER -> 8)
                 /\ \A k \in 1 .. length - 1 : g[k] = g[k - 1] * 64 + (data[1 + k] % 64)
    BY AssembledSteps, ZenonT(60)
  <1> DEFINE Next64(k) == g[k] = g[k - 1] * 64 + (data[1 + k] % 64)
  <1>9. /\ length > 1 => 1 \in 1 .. length - 1
        /\ length > 2 => 2 \in 1 .. length - 1
        /\ length > 3 => 3 \in 1 .. length - 1
    OBVIOUS
  <1>10. \A k \in 1 .. length - 1 : Next64(k)
    BY <1>1
  <1> HIDE DEF Next64
  <1>11. /\ 1 - 1 = 0 /\ 2 - 1 = 1 /\ 3 - 1 = 2 /\ 1 + 1 = 2 /\ 1 + 2 = 3 /\ 1 + 3 = 4
    OBVIOUS
  <1>2. length > 1 => g[1] = g[0] * 64 + (data[2] % 64)
    BY <1>9, <1>10, <1>11, Zenon DEF Next64
  <1>3. length > 2 => g[2] = g[1] * 64 + (data[3] % 64)
    BY <1>9, <1>10, <1>11, Zenon DEF Next64
  <1>4. length > 3 => g[3] = g[2] * 64 + (data[4] % 64)
    BY <1>9, <1>10, <1>11, Zenon DEF Next64
  <1>5. CASE length = 1
    BY <1>1, <1>5 DEF One
  <1>6. CASE length = 2
    BY <1>1, <1>2, <1>6 DEF Two, Joined
  <1>7. CASE length = 3
    BY <1>1, <1>2, <1>3, <1>7 DEF Three, Joined
  <1>8. CASE length = 4
    BY <1>1, <1>2, <1>3, <1>4, <1>8 DEF Four, Joined
  <1> QED BY <1>5, <1>6, <1>7, <1>8

LEMMA ByteTypes ==
    ASSUME NEW data \in Seq(0 .. 255)
    PROVE  /\ \A i \in 1 .. Len(data) : data[i] \in 0 .. 255
           /\ \A i \in Nat \ {0} : ByteAt(data, i) \in 0 .. 255
           /\ \A i \in Nat : i > Len(data) => ByteAt(data, i) = 0
  <1>1. \A i \in 1 .. Len(data) : data[i] \in 0 .. 255
    BY ElementOfSeq, Zenon
  <1>2. Len(data) \in Nat /\ 0 \in 0 .. 255
    OBVIOUS
  <1>3. \A i \in Nat \ {0} : i <= Len(data) => i \in 1 .. Len(data)
    BY <1>2
  <1>4. \A i \in Nat : i > Len(data) => ~(i <= Len(data))
    BY <1>2
  <1>5. \A i \in Nat \ {0} : ByteAt(data, i) \in 0 .. 255
    BY <1>1, <1>2, <1>3, Zenon DEF ByteAt
  <1>6. \A i \in Nat : i > Len(data) => ByteAt(data, i) = 0
    BY <1>4 DEF ByteAt
  <1> QED BY <1>1, <1>5, <1>6

(* Where the bytes after the first stop being continuations, nothing but   *)
(* continuations was passed, so the cursor stays within the limit.         *)
LEMMA WrongByte ==
    ASSUME NEW data \in Seq(0 .. 255), Len(data) > 0,
           NEW length \in 0 .. 4,
           NEW wrong, wrong = {i \in 1 .. length - 1 : ~is_utf8_continuation(ByteAt(data, 1 + i))}
    PROVE  /\ wrong # {} => Min(wrong) \in 1 .. Len(data)
           /\ wrong = {} => /\ length <= Len(data)
                            /\ \A i \in 2 .. length : data[i] \in 128 .. 191
  <1>1. /\ \A i \in 1 .. Len(data) : data[i] \in 0 .. 255
        /\ \A i \in Nat : i > Len(data) => ByteAt(data, i) = 0
    BY ByteTypes, Zenon
  <1>2. Len(data) \in Nat
    OBVIOUS
  <1>3. ~is_utf8_continuation(0)
    BY DEF is_utf8_continuation
  <1>4. \A i \in 1 .. length - 1 : 1 + i > Len(data) => i \in wrong
    <2>1. ASSUME NEW i \in 1 .. length - 1, 1 + i > Len(data) PROVE i \in wrong
      <3>1. 1 + i \in Nat
        OBVIOUS
      <3>2. ByteAt(data, 1 + i) = 0
        BY <1>1, <2>1, <3>1
      <3> QED BY <1>3, <3>2
    <2> QED BY <2>1
  <1>5. ASSUME wrong # {} PROVE Min(wrong) \in 1 .. Len(data)
    <2>1. wrong \subseteq Nat /\ \A i \in wrong : i \in 1 .. length - 1
      OBVIOUS
    <2>2. \E x \in wrong : \A y \in wrong : x <= y
      BY <1>5, <2>1, LeastNat, Zenon
    <2> DEFINE x == Min(wrong)
    <2>3. x \in wrong /\ \A y \in wrong : x <= y
      BY <2>2, Zenon DEF Min
    <2> HIDE DEF x
    <2>4. x \in 1 .. length - 1
      BY <2>1, <2>3
    <2>5. ASSUME x > Len(data) PROVE FALSE
      <3>1. x - 1 \in 1 .. length - 1 /\ 1 + (x - 1) > Len(data) /\ ~(x <= x - 1)
        BY <1>2, <2>4, <2>5
      <3>2. x - 1 \in wrong
        BY <1>4, <3>1
      <3> QED BY <2>3, <3>1, <3>2
    <2> QED BY <1>2, <2>4, <2>5 DEF x
  <1>6. ASSUME wrong = {} PROVE length <= Len(data)
    <2>1. length - 1 \in 1 .. length - 1 => ~(1 + (length - 1) > Len(data))
      BY <1>4, <1>6, Zenon
    <2>2. length \in 0 .. 1 => length <= Len(data)
      BY <1>2
    <2>3. length \notin 0 .. 1 => length - 1 \in 1 .. length - 1
      OBVIOUS
    <2> QED BY <1>2, <2>1, <2>2, <2>3
  <1>7. ASSUME wrong = {}, NEW i \in 2 .. length PROVE data[i] \in 128 .. 191
    <2>1. i - 1 \in 1 .. length - 1 /\ 1 + (i - 1) = i /\ i <= Len(data)
      BY <1>2, <1>6, <1>7
    <2>2. is_utf8_continuation(ByteAt(data, 1 + (i - 1)))
      BY <1>7, <2>1, Zenon
    <2>3. is_utf8_continuation(data[i])
      BY <2>1, <2>2, Zenon DEF ByteAt
    <2> QED BY <2>3 DEF is_utf8_continuation
  <1> QED BY <1>5, <1>6, <1>7

LEMMA LengthsIs ==
    ASSUME NEW byte \in 0 .. 255
    PROVE  /\ lengths(byte) \in 0 .. 4
           /\ lengths(byte) = 1 <=> byte \in 0 .. 127
           /\ lengths(byte) = 2 <=> byte \in 192 .. 223
           /\ lengths(byte) = 3 <=> byte \in 224 .. 239
           /\ lengths(byte) = 4 <=> byte \in 240 .. 247
  BY DEF lengths

LEMMA DecodeIs ==
    ASSUME NEW data \in Seq(0 .. 255), Len(data) > 0
    PROVE  LET d == utf8_decode(data, 1)
               length == lengths(data[1])
               ch == Assembled(data, 1, length)
               good == /\ length \in 1 .. 4 /\ length <= Len(data)
                       /\ \A i \in 2 .. length : data[i] \in 128 .. 191
           IN \/ ~good /\ d.ch = U_BAD /\ d.cursor \in 2 .. Len(data) + 1
              \/ /\ good /\ d.cursor = 1 + length
                 /\ d.ch = IF Refused(length, ch) THEN U_BAD ELSE ch
  <1> DEFINE d == utf8_decode(data, 1)
             length == lengths(data[1])
             ch == Assembled(data, 1, length)
             good == /\ length \in 1 .. 4 /\ length <= Len(data)
                     /\ \A i \in 2 .. length : data[i] \in 128 .. 191
             wrong == {i \in 1 .. length - 1 : ~is_utf8_continuation(ByteAt(data, 1 + i))}
  <1>1. Len(data) \in Nat /\ ~(1 > Len(data)) /\ 1 <= Len(data) /\ 1 \in 1 .. Len(data)
    OBVIOUS
  <1>2. data[1] \in 0 .. 255 /\ ByteAt(data, 1) = data[1]
    BY <1>1, ByteTypes, Zenon DEF ByteAt
  <1>3. length \in 0 .. 4
    BY <1>2, LengthsIs, ZenonT(60)
  <1>4. d = IF wrong # {} THEN [ch |-> U_BAD, cursor |-> 1 + Min(wrong)]
            ELSE IF length = 0 THEN [ch |-> U_BAD, cursor |-> 1 + 1]
            ELSE [ch |-> IF Refused(length, ch) THEN U_BAD ELSE ch, cursor |-> 1 + length]
    BY <1>1, <1>2, Zenon DEF utf8_decode
  <1>5. /\ wrong # {} => Min(wrong) \in 1 .. Len(data)
        /\ wrong = {} => length <= Len(data) /\ \A i \in 2 .. length : data[i] \in 128 .. 191
    <2> HIDE DEF length
    <2> QED BY <1>1, <1>3, WrongByte
  <1>6. wrong # {} => ~good
    <2>1. ASSUME NEW i \in wrong, good PROVE FALSE
      <3>1. /\ 1 + i \in 2 .. length /\ 1 + i <= Len(data)
            /\ ~is_utf8_continuation(ByteAt(data, 1 + i))
        BY <1>1, <1>3, <2>1
      <3>2. data[1 + i] \in 128 .. 191
        BY <2>1, <3>1
      <3> QED BY <3>1, <3>2, Zenon DEF ByteAt, is_utf8_continuation
    <2> QED BY <2>1
  <1> HIDE DEF d, wrong, length, ch
  <1>7. CASE wrong # {}
    <2>1. d.ch = U_BAD /\ d.cursor = 1 + Min(wrong)
      BY <1>4, <1>7
    <2>2. d.cursor \in 2 .. Len(data) + 1
      BY <1>1, <1>5, <1>7, <2>1
    <2>3. ~good /\ d.ch = U_BAD /\ d.cursor \in 2 .. Len(data) + 1
      BY <1>6, <1>7, <2>1, <2>2, Zenon
    <2> QED BY <2>3 DEF d, length
  <1>8. CASE wrong = {} /\ length = 0
    <2>1. d.ch = U_BAD /\ d.cursor = 2 /\ ~good
      BY <1>4, <1>8
    <2>2. d.cursor \in 2 .. Len(data) + 1
      BY <1>1, <2>1
    <2> QED BY <2>1, <2>2 DEF d, length
  <1>9. CASE wrong = {} /\ length # 0
    <2>1. /\ d.cursor = 1 + length
          /\ d.ch = IF Refused(length, ch) THEN U_BAD ELSE ch
      <3>1. d = [ch |-> IF Refused(length, ch) THEN U_BAD ELSE ch, cursor |-> 1 + length]
        BY <1>4, <1>9, Zenon
      <3> QED BY <3>1
    <2>2. length \in 1 .. 4
      BY <1>3, <1>9
    <2>3. good
      BY <1>5, <1>9, <2>2
    <2> QED BY <2>1, <2>3 DEF d, length, ch
  <1> QED BY <1>7, <1>8, <1>9

LEMMA Apart ==
    ASSUME NEW ch \in Nat
    PROVE  /\ ch = (ch \div 64) * 64 + (ch % 64) /\ ch \div 64 \in Nat /\ ch % 64 \in 0 .. 63
           /\ ch \div (64 * 64) = (ch \div 64) \div 64
           /\ ch \div (64 * 64 * 64) = ((ch \div 64) \div 64) \div 64
           /\ ch \div 1 = ch
  OBVIOUS

LEMMA Quotients ==
    ASSUME NEW ch \in Nat
    PROVE  /\ ch \div Weight[1] = ch
           /\ ch \div Weight[2] = ch \div 64
           /\ ch \div Weight[3] = (ch \div 64) \div 64
           /\ ch \div Weight[4] = ((ch \div 64) \div 64) \div 64
  BY Apart DEF Weight

LEMMA FormOfOne ==
    ASSUME NEW ch \in Nat
    PROVE  Form(ch, 1)[1] = ch
  <1>1. Form(ch, 1)[1] = LeadByte(1) + (ch \div Weight[1])
    BY SMT DEF Form
  <1>2. ch \div Weight[1] = ch
    BY Quotients
  <1> QED BY <1>1, <1>2 DEF LeadByte

LEMMA FormOfTwo ==
    ASSUME NEW ch \in Nat
    PROVE  Form(ch, 2)[1] = 192 + (ch \div 64) /\ Form(ch, 2)[2] = 128 + (ch % 64)
  <1>1. /\ Form(ch, 2)[1] = LeadByte(2) + (ch \div Weight[2])
        /\ Form(ch, 2)[2] = 128 + ((ch \div Weight[1]) % 64)
    BY SMT DEF Form
  <1>2. ch \div Weight[1] = ch /\ ch \div Weight[2] = ch \div 64
    BY Quotients
  <1>3. LeadByte(2) = 192
    BY DEF LeadByte
  <1> QED BY <1>1, <1>2, <1>3, Zenon

LEMMA FormOfThree ==
    ASSUME NEW ch \in Nat
    PROVE  /\ Form(ch, 3)[1] = 224 + ((ch \div 64) \div 64)
           /\ Form(ch, 3)[2] = 128 + ((ch \div 64) % 64)
           /\ Form(ch, 3)[3] = 128 + (ch % 64)
  <1>1. /\ Form(ch, 3)[1] = LeadByte(3) + (ch \div Weight[3])
        /\ Form(ch, 3)[2] = 128 + ((ch \div Weight[2]) % 64)
        /\ Form(ch, 3)[3] = 128 + ((ch \div Weight[1]) % 64)
    BY SMT DEF Form
  <1>2. /\ ch \div Weight[1] = ch /\ ch \div Weight[2] = ch \div 64
        /\ ch \div Weight[3] = (ch \div 64) \div 64
    BY Quotients
  <1>3. LeadByte(3) = 224
    BY DEF LeadByte
  <1> QED BY <1>1, <1>2, <1>3, Zenon

LEMMA FormOfFour ==
    ASSUME NEW ch \in Nat
    PROVE  /\ Form(ch, 4)[1] = 240 + (((ch \div 64) \div 64) \div 64)
           /\ Form(ch, 4)[2] = 128 + (((ch \div 64) \div 64) % 64)
           /\ Form(ch, 4)[3] = 128 + ((ch \div 64) % 64)
           /\ Form(ch, 4)[4] = 128 + (ch % 64)
  <1>1. /\ Form(ch, 4)[1] = LeadByte(4) + (ch \div Weight[4])
        /\ Form(ch, 4)[2] = 128 + ((ch \div Weight[3]) % 64)
        /\ Form(ch, 4)[3] = 128 + ((ch \div Weight[2]) % 64)
        /\ Form(ch, 4)[4] = 128 + ((ch \div Weight[1]) % 64)
    BY SMT DEF Form
  <1>2. /\ ch \div Weight[1] = ch /\ ch \div Weight[2] = ch \div 64
        /\ ch \div Weight[3] = (ch \div 64) \div 64
        /\ ch \div Weight[4] = ((ch \div 64) \div 64) \div 64
    BY Quotients
  <1>3. LeadByte(4) = 240
    BY DEF LeadByte
  <1> QED BY <1>1, <1>2, <1>3, Zenon

Ones == 0 .. 127
Twos == 192 .. 223
Threes == 224 .. 239
Fours == 240 .. 247
Continuations == 128 .. 191

LEMMA ByteIs ==
    ASSUME NEW byte \in Ones
    PROVE  LET ch == One(byte)
           IN ch \in Nat /\ ch < 128 /\ Form(ch, 1)[1] = byte
  <1>1. One(byte) = byte /\ byte \in Nat /\ byte < 128
    BY DEF One, Ones
  <1>2. Form(byte, 1)[1] = byte
    BY <1>1, FormOfOne
  <1> QED BY <1>1, <1>2

LEMMA TwoBytes ==
    ASSUME NEW w \in Twos, NEW x \in Continuations
    PROVE  LET ch == Two(w, x)
           IN ch \in Nat /\ ch < 2048 /\ Form(ch, 2)[1] = w /\ Form(ch, 2)[2] = x
  <1> DEFINE a == w % 32
             b == x % 64
             ch == Two(w, x)
  <1>1. a \in Nat /\ a < 32 /\ w = 192 + a /\ b \in 0 .. 63 /\ x = 128 + b
    BY DEF Twos, Continuations
  <1>2. ch = Joined(a, b)
    BY DEF Two
  <1> HIDE DEF a, b, ch
  <1>3. ch \in Nat /\ ch \div 64 = a /\ ch % 64 = b
    BY <1>1, <1>2, JoinedIs
  <1>4. ch < 2048
    BY <1>1, <1>2 DEF Joined
  <1>5. Form(ch, 2)[1] = 192 + (ch \div 64) /\ Form(ch, 2)[2] = 128 + (ch % 64)
    BY <1>3, FormOfTwo
  <1> QED BY <1>1, <1>3, <1>4, <1>5 DEF ch

LEMMA ThreeBytes ==
    ASSUME NEW w \in Threes, NEW x \in Continuations, NEW y \in Continuations
    PROVE  LET ch == Three(w, x, y)
           IN /\ ch \in Nat /\ ch < 65536
              /\ Form(ch, 3)[1] = w /\ Form(ch, 3)[2] = x /\ Form(ch, 3)[3] = y
  <1> DEFINE a == w % 16
             b == x % 64
             c == y % 64
             u == Joined(a, b)
             ch == Three(w, x, y)
  <1>1. /\ a \in Nat /\ a < 16 /\ w = 224 + a /\ b \in 0 .. 63 /\ x = 128 + b
        /\ c \in 0 .. 63 /\ y = 128 + c
    BY DEF Threes, Continuations
  <1>2. u = Joined(a, b) /\ ch = Joined(u, c)
    BY DEF Three
  <1> HIDE DEF a, b, c, u, ch
  <1>3. u \in Nat /\ u \div 64 = a /\ u % 64 = b
    BY <1>1, <1>2, JoinedIs
  <1>4. ch \in Nat /\ ch \div 64 = u /\ ch % 64 = c
    BY <1>1, <1>2, <1>3, JoinedIs
  <1>5. ch < 65536
    BY <1>1, <1>2, <1>3 DEF Joined
  <1>6. /\ Form(ch, 3)[1] = 224 + ((ch \div 64) \div 64)
        /\ Form(ch, 3)[2] = 128 + ((ch \div 64) % 64)
        /\ Form(ch, 3)[3] = 128 + (ch % 64)
    BY <1>4, FormOfThree
  <1>7. Form(ch, 3)[1] = w /\ Form(ch, 3)[2] = x /\ Form(ch, 3)[3] = y
    BY <1>1, <1>3, <1>4, <1>6
  <1> QED BY <1>4, <1>5, <1>7 DEF ch

LEMMA FourBytes ==
    ASSUME NEW w \in Fours, NEW x \in Continuations, NEW y \in Continuations,
           NEW z \in Continuations
    PROVE  LET ch == Four(w, x, y, z)
           IN /\ ch \in Nat
              /\ Form(ch, 4)[1] = w /\ Form(ch, 4)[2] = x
              /\ Form(ch, 4)[3] = y /\ Form(ch, 4)[4] = z
  <1> DEFINE a == w % 8
             b == x % 64
             c == y % 64
             d == z % 64
             u == Joined(a, b)
             v == Joined(u, c)
             ch == Four(w, x, y, z)
  <1>1. /\ a \in Nat /\ w = 240 + a /\ b \in 0 .. 63 /\ x = 128 + b
        /\ c \in 0 .. 63 /\ y = 128 + c /\ d \in 0 .. 63 /\ z = 128 + d
    BY DEF Fours, Continuations
  <1>2. u = Joined(a, b) /\ v = Joined(u, c) /\ ch = Joined(v, d)
    BY DEF Four
  <1> HIDE DEF a, b, c, d, u, v, ch
  <1>3. u \in Nat /\ u \div 64 = a /\ u % 64 = b
    BY <1>1, <1>2, JoinedIs
  <1>4. v \in Nat /\ v \div 64 = u /\ v % 64 = c
    BY <1>1, <1>2, <1>3, JoinedIs
  <1>5. ch \in Nat /\ ch \div 64 = v /\ ch % 64 = d
    BY <1>1, <1>2, <1>4, JoinedIs
  <1>6. /\ Form(ch, 4)[1] = 240 + (((ch \div 64) \div 64) \div 64)
        /\ Form(ch, 4)[2] = 128 + (((ch \div 64) \div 64) % 64)
        /\ Form(ch, 4)[3] = 128 + ((ch \div 64) % 64)
        /\ Form(ch, 4)[4] = 128 + (ch % 64)
    BY <1>5, FormOfFour
  <1>7. /\ Form(ch, 4)[1] = w /\ Form(ch, 4)[2] = x
        /\ Form(ch, 4)[3] = y /\ Form(ch, 4)[4] = z
    BY <1>1, <1>3, <1>4, <1>5, <1>6
  <1> QED BY <1>5, <1>7 DEF ch

LEMMA Looked ==
    ASSUME NEW data, NEW length \in 1 .. 4, \A i \in 2 .. length : data[i] \in 128 .. 191
    PROVE  /\ length = 2 => data[2] \in Continuations
           /\ length = 3 => data[2] \in Continuations /\ data[3] \in Continuations
           /\ length = 4 => /\ data[2] \in Continuations /\ data[3] \in Continuations
                            /\ data[4] \in Continuations
  BY DEF Continuations

LEMMA Bytewise ==
    ASSUME NEW data, NEW form, NEW length \in 1 .. 4,
           data[1] = form[1],
           length > 1 => data[2] = form[2],
           length > 2 => data[3] = form[3],
           length > 3 => data[4] = form[4]
    PROVE  \A i \in 1 .. length : data[i] = form[i]
  <1>1. \A i \in 1 .. length : /\ i \in {1, 2, 3, 4}
                               /\ i = 2 => length > 1
                               /\ i = 3 => length > 2
                               /\ i = 4 => length > 3
    OBVIOUS
  <1> QED BY <1>1

Looks(data, length) == /\ data \in Seq(0 .. 255) /\ length <= Len(data)
                       /\ lengths(data[1]) = length
                       /\ \A i \in 2 .. length : data[i] \in 128 .. 191

LEMMA FirstByte ==
    ASSUME NEW data, NEW length \in 1 .. 4, Looks(data, length)
    PROVE  /\ length = 1 => data[1] \in Ones
           /\ length = 2 => data[1] \in Twos
           /\ length = 3 => data[1] \in Threes
           /\ length = 4 => data[1] \in Fours
  <1>1. data \in Seq(0 .. 255) /\ 1 \in 1 .. Len(data) /\ lengths(data[1]) = length
    BY DEF Looks
  <1>2. data[1] \in 0 .. 255
    BY <1>1, ByteTypes, Zenon
  <1>3. lengths(data[1]) = length
    BY <1>1
  <1> QED BY <1>2, <1>3, LengthsIs DEF Ones, Twos, Threes, Fours

(* Bytes that look like a character are the form of what is assembled.     *)
LEMMA AssembledForm ==
    ASSUME NEW data, NEW length \in 1 .. 4, Looks(data, length),
           NEW ch, ch = Assembled(data, 1, length)
    PROVE  /\ ch \in Nat /\ \A i \in 1 .. length : data[i] = Form(ch, length)[i]
           /\ length = 1 => ch < 128
           /\ length = 2 => ch < 2048
           /\ length = 3 => ch < 65536
  <1>1. /\ length = 2 => data[2] \in Continuations
        /\ length = 3 => data[2] \in Continuations /\ data[3] \in Continuations
        /\ length = 4 => /\ data[2] \in Continuations /\ data[3] \in Continuations
                         /\ data[4] \in Continuations
    BY Looked DEF Looks
  <1>2. /\ length = 1 => data[1] \in Ones
        /\ length = 2 => data[1] \in Twos
        /\ length = 3 => data[1] \in Threes
        /\ length = 4 => data[1] \in Fours
    BY FirstByte
  <1>3. /\ length = 1 => ch = One(data[1])
        /\ length = 2 => ch = Two(data[1], data[2])
        /\ length = 3 => ch = Three(data[1], data[2], data[3])
        /\ length = 4 => ch = Four(data[1], data[2], data[3], data[4])
    BY AssembledIs DEF Looks
  <1>4. ASSUME data[1] = Form(ch, length)[1],
               length > 1 => data[2] = Form(ch, length)[2],
               length > 2 => data[3] = Form(ch, length)[3],
               length > 3 => data[4] = Form(ch, length)[4]
        PROVE  \A i \in 1 .. length : data[i] = Form(ch, length)[i]
    BY <1>4, Bytewise
  <1> DEFINE w == data[1]
             x == data[2]
             y == data[3]
             z == data[4]
             Goal == /\ ch \in Nat /\ \A i \in 1 .. length : data[i] = Form(ch, length)[i]
                     /\ length = 1 => ch < 128
                     /\ length = 2 => ch < 2048
                     /\ length = 3 => ch < 65536
  <1>5. CASE length = 1
    <2>1. ch \in Nat /\ ch < 128 /\ Form(ch, 1)[1] = w
      <3>1. w \in Ones /\ ch = One(w)
        BY <1>2, <1>3, <1>5
      <3> HIDE DEF w
      <3> QED BY <3>1, ByteIs
    <2>2. \A i \in 1 .. length : data[i] = Form(ch, length)[i]
      BY <1>4, <1>5, <2>1
    <2> QED BY <1>5, <2>1, <2>2
  <1>6. CASE length = 2
    <2>1. ch \in Nat /\ ch < 2048 /\ Form(ch, 2)[1] = w /\ Form(ch, 2)[2] = x
      <3>1. w \in Twos /\ x \in Continuations /\ ch = Two(w, x)
        BY <1>1, <1>2, <1>3, <1>6
      <3> HIDE DEF w, x
      <3> QED BY <3>1, TwoBytes
    <2>2. \A i \in 1 .. length : data[i] = Form(ch, length)[i]
      BY <1>4, <1>6, <2>1
    <2> QED BY <1>6, <2>1, <2>2
  <1>7. CASE length = 3
    <2>1. /\ ch \in Nat /\ ch < 65536
          /\ Form(ch, 3)[1] = w /\ Form(ch, 3)[2] = x /\ Form(ch, 3)[3] = y
      <3>1. /\ w \in Threes /\ x \in Continuations /\ y \in Continuations
            /\ ch = Three(w, x, y)
        BY <1>1, <1>2, <1>3, <1>7
      <3> HIDE DEF w, x, y
      <3> QED BY <3>1, ThreeBytes
    <2>2. \A i \in 1 .. length : data[i] = Form(ch, length)[i]
      BY <1>4, <1>7, <2>1
    <2> QED BY <1>7, <2>1, <2>2
  <1>8. CASE length = 4
    <2>1. /\ ch \in Nat
          /\ Form(ch, 4)[1] = w /\ Form(ch, 4)[2] = x
          /\ Form(ch, 4)[3] = y /\ Form(ch, 4)[4] = z
      <3>1. /\ w \in Fours /\ x \in Continuations /\ y \in Continuations /\ z \in Continuations
            /\ ch = Four(w, x, y, z)
        BY <1>1, <1>2, <1>3, <1>8
      <3> HIDE DEF w, x, y, z
      <3> QED BY <3>1, FourBytes
    <2>2. \A i \in 1 .. length : data[i] = Form(ch, length)[i]
      BY <1>4, <1>8, <2>1
    <2> QED BY <1>8, <2>1, <2>2
  <1> QED BY <1>5, <1>6, <1>7, <1>8

(* And the form of a character is assembled to it.                         *)
LEMMA OneBack ==
    ASSUME NEW ch \in Nat, ch < 128
    PROVE  ch \in Ones /\ One(ch) = ch
  BY DEF Ones, One

LEMMA TwoBack ==
    ASSUME NEW ch \in Nat, ch < 2048
    PROVE  LET w == 192 + (ch \div 64)
               x == 128 + (ch % 64)
           IN w \in Twos /\ x \in Continuations /\ Two(w, x) = ch
  <1> DEFINE q == ch \div 64
             b == ch % 64
  <1>1. q \in Nat /\ q < 32 /\ b \in 0 .. 63 /\ ch = q * 64 + b
    OBVIOUS
  <1> HIDE DEF q, b
  <1>2. 192 + q \in Twos /\ 128 + b \in Continuations
    BY <1>1 DEF Twos, Continuations
  <1>3. (192 + q) % 32 = q /\ (128 + b) % 64 = b
    BY <1>1
  <1>4. Two(192 + q, 128 + b) = ch
    BY <1>1, <1>3 DEF Two, Joined
  <1> QED BY <1>2, <1>4 DEF q, b

LEMMA ThreeBack ==
    ASSUME NEW ch \in Nat, ch < 65536
    PROVE  LET w == 224 + ((ch \div 64) \div 64)
               x == 128 + ((ch \div 64) % 64)
               y == 128 + (ch % 64)
           IN w \in Threes /\ x \in Continuations /\ y \in Continuations /\ Three(w, x, y) = ch
  <1> DEFINE q == ch \div 64
             r == q \div 64
             b == q % 64
             c == ch % 64
  <1>1. q \in Nat /\ q < 1024 /\ c \in 0 .. 63 /\ ch = q * 64 + c
    OBVIOUS
  <1>2. r \in Nat /\ r < 16 /\ b \in 0 .. 63 /\ q = r * 64 + b
    <2> HIDE DEF q
    <2> QED BY <1>1
  <1> HIDE DEF q, r, b, c
  <1>3. 224 + r \in Threes /\ 128 + b \in Continuations /\ 128 + c \in Continuations
    BY <1>1, <1>2 DEF Threes, Continuations
  <1>4. (224 + r) % 16 = r /\ (128 + b) % 64 = b /\ (128 + c) % 64 = c
    BY <1>1, <1>2
  <1>5. Three(224 + r, 128 + b, 128 + c) = ch
    BY <1>1, <1>2, <1>4 DEF Three, Joined
  <1> QED BY <1>3, <1>5 DEF q, r, b, c

LEMMA FourBack ==
    ASSUME NEW ch \in Nat, ch < 2097152
    PROVE  LET w == 240 + (((ch \div 64) \div 64) \div 64)
               x == 128 + (((ch \div 64) \div 64) % 64)
               y == 128 + ((ch \div 64) % 64)
               z == 128 + (ch % 64)
           IN /\ w \in Fours /\ x \in Continuations /\ y \in Continuations /\ z \in Continuations
              /\ Four(w, x, y, z) = ch
  <1> DEFINE q == ch \div 64
             r == q \div 64
             s == r \div 64
             b == r % 64
             c == q % 64
             d == ch % 64
  <1>1. q \in Nat /\ q < 32768 /\ d \in 0 .. 63 /\ ch = q * 64 + d
    OBVIOUS
  <1>2. r \in Nat /\ r < 512 /\ c \in 0 .. 63 /\ q = r * 64 + c
    <2> HIDE DEF q
    <2> QED BY <1>1
  <1>3. s \in Nat /\ s < 8 /\ b \in 0 .. 63 /\ r = s * 64 + b
    <2> HIDE DEF r
    <2> QED BY <1>2
  <1> HIDE DEF q, r, s, b, c, d
  <1>4. /\ 240 + s \in Fours /\ 128 + b \in Continuations /\ 128 + c \in Continuations
        /\ 128 + d \in Continuations
    BY <1>1, <1>2, <1>3 DEF Fours, Continuations
  <1>5. /\ (240 + s) % 8 = s /\ (128 + b) % 64 = b /\ (128 + c) % 64 = c
        /\ (128 + d) % 64 = d
    BY <1>1, <1>2, <1>3
  <1>6. Four(240 + s, 128 + b, 128 + c, 128 + d) = ch
    BY <1>1, <1>2, <1>3, <1>5 DEF Four, Joined
  <1> QED BY <1>4, <1>6 DEF q, r, s, b, c, d

LEMMA LooksLike ==
    ASSUME NEW data \in Seq(0 .. 255), NEW length \in 1 .. 4, length <= Len(data),
           length = 1 => data[1] \in Ones,
           length = 2 => data[1] \in Twos /\ data[2] \in Continuations,
           length = 3 => /\ data[1] \in Threes /\ data[2] \in Continuations
                         /\ data[3] \in Continuations,
           length = 4 => /\ data[1] \in Fours /\ data[2] \in Continuations
                         /\ data[3] \in Continuations /\ data[4] \in Continuations
    PROVE  Looks(data, length)
  <1> DEFINE w == data[1]
  <1>1. lengths(w) = length
    <2>1. /\ length = 1 => w \in Ones
          /\ length = 2 => w \in Twos
          /\ length = 3 => w \in Threes
          /\ length = 4 => w \in Fours
      OBVIOUS
    <2> HIDE DEF w
    <2>2. /\ w \in Ones => lengths(w) = 1
          /\ w \in Twos => lengths(w) = 2
          /\ w \in Threes => lengths(w) = 3
          /\ w \in Fours => lengths(w) = 4
      <3>1. w \in Ones \cup Twos \cup Threes \cup Fours => w \in 0 .. 255
        BY DEF Ones, Twos, Threes, Fours
      <3> QED BY <3>1, LengthsIs, ZenonT(60) DEF Ones, Twos, Threes, Fours
    <2>3. length \in {1, 2, 3, 4}
      OBVIOUS
    <2> QED BY <2>1, <2>2, <2>3, Zenon
  <1>2. ASSUME NEW i \in 2 .. length PROVE data[i] \in 128 .. 191
    <2>1. /\ i \in {2, 3, 4} /\ length \in {2, 3, 4} /\ i = 3 => length # 2
          /\ i = 4 => length = 4
      OBVIOUS
    <2>2. data[i] \in Continuations
      BY <2>1
    <2> QED BY <2>2 DEF Continuations
  <1> QED BY <1>1, <1>2 DEF Looks

LEMMA ShortestIs ==
    ASSUME NEW ch \in Nat
    PROVE  /\ Shortest(ch) \in 1 .. 4
           /\ Shortest(ch) = 1 <=> ch < 128
           /\ Shortest(ch) <= 2 <=> ch < 2048
           /\ Shortest(ch) <= 3 <=> ch < 65536
  BY SMT DEF Shortest

LEMMA ScalarAssembled ==
    ASSUME NEW data \in Seq(0 .. 255), NEW ch, IsScalar(ch), NEW length,
           length = Shortest(ch), length <= Len(data),
           \A i \in 1 .. length : data[i] = Form(ch, length)[i]
    PROVE  /\ length \in 1 .. 4 /\ Looks(data, length) /\ Assembled(data, 1, length) = ch
           /\ ~Refused(length, ch)
  <1>1. /\ ch \in Nat /\ ch < 2097152 /\ length \in 1 .. 4
        /\ length = 1 => ch < 128
        /\ length = 2 => ch < 2048
        /\ length = 3 => ch < 65536
    <2>1. ch \in Nat /\ ch < 2097152
      BY SMT DEF IsScalar
    <2>2. /\ length \in 1 .. 4
          /\ length = 1 => ch < 128
          /\ length = 2 => ch < 2048
          /\ length = 3 => ch < 65536
      BY <2>1, ShortestIs, SMT
    <2> QED BY <2>1, <2>2, SMT
  <1>2. ~Refused(length, ch)
    <2>1. ch \in Nat /\ ch <= 1114111 /\ ~(ch >= 55296 /\ ch <= 57343)
      BY SMT DEF IsScalar
    <2>2. Shortest(ch) \in 1 .. 4 /\ (Shortest(ch) <= 2 <=> ch < 2048)
      BY <2>1, ShortestIs, SMT
    <2> QED BY <2>1, <2>2, SMT DEF Refused
  <1>3. /\ 1 \in 1 .. length
        /\ length > 1 => 2 \in 1 .. length
        /\ length > 2 => 3 \in 1 .. length
        /\ length > 3 => 4 \in 1 .. length
    BY <1>1
  <1>4. CASE length = 1
    <2>1. data[1] = ch
      BY <1>1, <1>3, <1>4, FormOfOne, SMT
    <2>2. data[1] \in Ones /\ One(data[1]) = ch
      BY <1>1, <1>4, <2>1, OneBack, SMT
    <2>3. Looks(data, length)
      BY <1>1, <1>4, <2>2, LooksLike, SMT
    <2> QED BY <1>1, <1>2, <1>4, <2>2, <2>3, AssembledIs, SMT
  <1>5. CASE length = 2
    <2> DEFINE w == 192 + (ch \div 64)
               x == 128 + (ch % 64)
    <2>1. data[1] = w /\ data[2] = x
      <3>1. Form(ch, 2)[1] = w /\ Form(ch, 2)[2] = x
        BY <1>1, FormOfTwo, SMT
      <3> QED BY <1>3, <1>5, <3>1, SMT
    <2>2. w \in Twos /\ x \in Continuations /\ Two(w, x) = ch
      BY <1>1, <1>5, TwoBack, SMT
    <2> HIDE DEF w, x
    <2>3. Looks(data, length)
      BY <1>1, <1>5, <2>1, <2>2, LooksLike, SMT
    <2> QED BY <1>1, <1>2, <1>5, <2>1, <2>2, <2>3, AssembledIs, SMT
  <1>6. CASE length = 3
    <2> DEFINE w == 224 + ((ch \div 64) \div 64)
               x == 128 + ((ch \div 64) % 64)
               y == 128 + (ch % 64)
    <2>1. data[1] = w /\ data[2] = x /\ data[3] = y
      <3>1. Form(ch, 3)[1] = w /\ Form(ch, 3)[2] = x /\ Form(ch, 3)[3] = y
        BY <1>1, FormOfThree, SMT
      <3> QED BY <1>3, <1>6, <3>1, SMT
    <2>2. w \in Threes /\ x \in Continuations /\ y \in Continuations /\ Three(w, x, y) = ch
      BY <1>1, <1>6, ThreeBack, SMT
    <2> HIDE DEF w, x, y
    <2>3. Looks(data, length)
      BY <1>1, <1>6, <2>1, <2>2, LooksLike, SMT
    <2> QED BY <1>1, <1>2, <1>6, <2>1, <2>2, <2>3, AssembledIs, SMT
  <1>7. CASE length = 4
    <2> DEFINE w == 240 + (((ch \div 64) \div 64) \div 64)
               x == 128 + (((ch \div 64) \div 64) % 64)
               y == 128 + ((ch \div 64) % 64)
               z == 128 + (ch % 64)
    <2>1. data[1] = w /\ data[2] = x /\ data[3] = y /\ data[4] = z
      <3>1. /\ Form(ch, 4)[1] = w /\ Form(ch, 4)[2] = x
            /\ Form(ch, 4)[3] = y /\ Form(ch, 4)[4] = z
        BY <1>1, FormOfFour, SMT
      <3> QED BY <1>3, <1>7, <3>1, SMT
    <2>2. /\ w \in Fours /\ x \in Continuations /\ y \in Continuations /\ z \in Continuations
          /\ Four(w, x, y, z) = ch
      BY <1>1, FourBack, SMT
    <2> HIDE DEF w, x, y, z
    <2>3. Looks(data, length)
      BY <1>1, <1>7, <2>1, <2>2, LooksLike, SMT
    <2> QED BY <1>1, <1>2, <1>7, <2>1, <2>2, <2>3, AssembledIs, SMT
  <1> QED BY <1>1, <1>4, <1>5, <1>6, <1>7, SMT

(* What a character is decoded from, for any bytes.                        *)
Decoded(data) ==
    LET d == utf8_decode(data, 1)
        read == SubSeq(data, 1, d.cursor - 1)
    IN /\ d.cursor - 1 <= Len(data)
       /\ d.ch >= 0 => \/ IsScalar(d.ch) /\ read = Utf8(d.ch)
                       \/ /\ Len(read) \in {2, 4} /\ Shortest(d.ch) < Len(read)
                          /\ read = Form(d.ch, Len(read))
       /\ \A ch : IsScalar(ch) /\ IsPrefix(Utf8(ch), data) => d.ch = ch

LEMMA FormLength ==
    ASSUME NEW ch, NEW length \in 1 .. 4
    PROVE  /\ Form(ch, length) = [i \in 1 .. length |-> Form(ch, length)[i]]
           /\ Len(Form(ch, length)) = length
  BY DEF Form

LEMMA ReadIs ==
    ASSUME NEW data \in Seq(0 .. 255), NEW form, NEW length \in 1 .. 4, length <= Len(data),
           form = [i \in 1 .. length |-> form[i]],
           \A i \in 1 .. length : data[i] = form[i]
    PROVE  SubSeq(data, 1, length) = form
  <1>1. SubSeq(data, 1, length) = [i \in 1 .. length |-> data[i]]
    OBVIOUS
  <1> QED BY <1>1

LEMMA PrefixIs ==
    ASSUME NEW data \in Seq(0 .. 255), NEW s, NEW length \in 1 .. 4, Len(s) = length,
           s = [i \in 1 .. length |-> s[i]], IsPrefix(s, data)
    PROVE  /\ length <= Len(data)
           /\ \A i \in 1 .. length : data[i] = s[i]
  <1>1. length <= Len(data) /\ SubSeq(s, 1, length) = SubSeq(data, 1, length)
    BY DEF IsPrefix
  <1>2. /\ SubSeq(data, 1, length) = [i \in 1 .. length |-> data[i]]
        /\ SubSeq(s, 1, length) = [i \in 1 .. length |-> s[i]]
    BY <1>1
  <1> DEFINE f == SubSeq(data, 1, length)
             g == SubSeq(s, 1, length)
  <1>3. /\ \A i \in 1 .. length : f[i] = data[i]
        /\ \A i \in 1 .. length : g[i] = s[i]
    BY <1>2
  <1>4. f = g
    BY <1>1
  <1> HIDE DEF f, g
  <1> QED BY <1>1, <1>3, <1>4

LEMMA DecodesAny ==
    ASSUME NEW data \in Seq(0 .. 255)
    PROVE  Decoded(data)
  <1> DEFINE d == utf8_decode(data, 1)
             length == lengths(data[1])
             c == Assembled(data, 1, length)
             read == SubSeq(data, 1, d.cursor - 1)
  <1>1. Len(data) \in Nat
    OBVIOUS
  <1>2. CASE Len(data) = 0
    <2>1. d = [ch |-> U_EOF, cursor |-> 1]
      BY <1>2 DEF utf8_decode
    <2>2. d.ch = -1 /\ d.cursor = 1
      BY <2>1 DEF U_EOF
    <2>3. ASSUME NEW ch, IsScalar(ch), IsPrefix(Utf8(ch), data) PROVE FALSE
      <3>1. Shortest(ch) \in 1 .. 4
        BY <2>3, ShortestIs DEF IsScalar
      <3>2. Len(Utf8(ch)) = Shortest(ch)
        BY <3>1, FormLength DEF Utf8
      <3> QED BY <1>2, <2>3, <3>1, <3>2 DEF IsPrefix
    <2> HIDE DEF d
    <2> QED BY <1>2, <2>2, <2>3 DEF Decoded, d
  <1>3. CASE Len(data) > 0
    <2> DEFINE good == /\ length \in 1 .. 4 /\ length <= Len(data)
                       /\ \A i \in 2 .. length : data[i] \in 128 .. 191
    <2>1. \/ ~good /\ d.ch = U_BAD /\ d.cursor \in 2 .. Len(data) + 1
          \/ /\ good /\ d.cursor = 1 + length
             /\ d.ch = IF Refused(length, c) THEN U_BAD ELSE c
      BY <1>3, DecodeIs
    <2>2. good => length \in 1 .. 4 /\ Looks(data, length) /\ length <= Len(data)
      BY DEF Looks
    <2>3. length \in 1 .. 4 /\ Looks(data, length) => good
      BY DEF Looks
    <2>4. ASSUME good, ~Refused(length, c), d.ch = c, d.cursor = 1 + length
          PROVE  \/ IsScalar(c) /\ read = Utf8(c)
                 \/ /\ Len(read) \in {2, 4} /\ Shortest(c) < Len(read)
                    /\ read = Form(c, Len(read))
      <3> HIDE DEF c, good, length
      <3>1. length \in 1 .. 4 /\ Looks(data, length) /\ length <= Len(data)
        BY <2>2, <2>4
      <3>2. /\ c \in Nat /\ \A i \in 1 .. length : data[i] = Form(c, length)[i]
            /\ length = 1 => c < 128
            /\ length = 2 => c < 2048
            /\ length = 3 => c < 65536
        BY <3>1, AssembledForm DEF c
      <3>3. read = Form(c, length) /\ Len(read) = length
        <4> DEFINE form == Form(c, length)
        <4>1. form = [i \in 1 .. length |-> form[i]] /\ Len(form) = length
          BY <3>1, FormLength, Zenon
        <4>2. d.cursor - 1 = length
          BY <2>4, <3>1
        <4>3. \A i \in 1 .. length : data[i] = form[i]
          BY <3>2
        <4> HIDE DEF form
        <4>4. SubSeq(data, 1, length) = form
          BY <3>1, <4>1, <4>3, ReadIs, Zenon
        <4> QED BY <4>1, <4>2, <4>4 DEF form
      <3> HIDE DEF read
      <3>4. /\ Shortest(c) \in 1 .. 4
            /\ Shortest(c) = 1 <=> c < 128
            /\ Shortest(c) <= 2 <=> c < 2048
            /\ Shortest(c) <= 3 <=> c < 65536
        BY <3>2, ShortestIs
      <3>5. /\ length = 3 => ~(c < 2048) /\ ~(c >= 55296 /\ c <= 57343)
            /\ length = 4 => c <= 1114111
        BY <2>4, <3>2, SMT DEF Refused
      <3>6. CASE Shortest(c) = length
        <4>1. IsScalar(c)
          BY <3>1, <3>2, <3>4, <3>5, <3>6, SMT DEF IsScalar
        <4> QED BY <3>3, <3>6, <4>1 DEF Utf8
      <3>7. CASE Shortest(c) # length
        <4>1. Shortest(c) < length /\ length \in {2, 4}
          BY <3>1, <3>2, <3>4, <3>5, <3>7, SMT
        <4> QED BY <3>3, <4>1
      <3> QED BY <3>6, <3>7
    <2>5. ASSUME NEW ch, IsScalar(ch), IsPrefix(Utf8(ch), data) PROVE d.ch = ch
      <3>1. Shortest(ch) \in 1 .. 4
        BY <2>5, ShortestIs DEF IsScalar
      <3>2. /\ Shortest(ch) <= Len(data)
            /\ \A i \in 1 .. Shortest(ch) : data[i] = Form(ch, Shortest(ch))[i]
        <4> DEFINE n == Shortest(ch)
                   s == Form(ch, n)
        <4>1. n \in 1 .. 4 /\ IsPrefix(s, data)
          BY <2>5, <3>1 DEF Utf8
        <4>2. s = [i \in 1 .. n |-> s[i]] /\ Len(s) = n
          BY <3>1, FormLength, Zenon
        <4> HIDE DEF n, s
        <4>3. n <= Len(data) /\ \A i \in 1 .. n : data[i] = s[i]
          BY <4>1, <4>2, PrefixIs, ZenonT(60)
        <4> QED BY <4>3 DEF n, s
      <3>3. /\ Looks(data, Shortest(ch)) /\ Assembled(data, 1, Shortest(ch)) = ch
            /\ ~Refused(Shortest(ch), ch)
        BY <2>5, <3>2, ScalarAssembled
      <3>4. length = Shortest(ch)
        BY <3>3 DEF Looks
      <3>5. good
        <4> HIDE DEF length, good
        <4> QED BY <2>3, <3>1, <3>3, <3>4
      <3> HIDE DEF d, length, good
      <3> QED BY <2>1, <3>3, <3>4, <3>5 DEF c
    <2>6. d.cursor - 1 <= Len(data)
      <3> HIDE DEF d, length
      <3> QED BY <1>1, <2>1
    <2>7. d.ch >= 0 => good /\ ~Refused(length, c) /\ d.ch = c /\ d.cursor = 1 + length
      <3>1. ~(U_BAD >= 0)
        BY DEF U_BAD
      <3> HIDE DEF d, length, good, c
      <3> QED BY <2>1, <3>1
    <2> HIDE DEF d, good, length, c
    <2> QED BY <2>4, <2>5, <2>6, <2>7 DEF Decoded, d
  <1> QED BY <1>1, <1>2, <1>3

-----------------------------------------------------------------------------
(* print_number.                                                           *)
LEMMA DivDiv ==
    ASSUME NEW v \in Nat, NEW p \in Nat, p > 0, NEW base \in {10, 16}
    PROVE  (v \div p) \div base = v \div (base * p)
  <1>1. (v \div p) \div 10 = v \div (10 * p)
    BY SMT
  <1>2. (v \div p) \div 16 = v \div (16 * p)
    BY SMT
  <1> QED BY <1>1, <1>2

LEMMA DivNone ==
    ASSUME NEW v \in Nat, NEW p \in Nat, p > 0
    PROVE  v \div p \in Nat /\ (v \div p = 0 <=> p > v) /\ v \div 1 = v
  BY SMT

(* The powers of a base, as Numeral has them.                              *)
Powers(power, base) == /\ power \in [0 .. 20 -> Nat] /\ power[0] = 1
                       /\ \A k \in 1 .. 20 : power[k] = base * power[k - 1]

LEMMA PowersExist ==
    ASSUME NEW base \in {10, 16}
    PROVE  /\ \E g : g = [k \in 0 .. 20 |-> IF k = 0 THEN 1 ELSE base * g[k - 1]]
           /\ \A g : g = [k \in 0 .. 20 |-> IF k = 0 THEN 1 ELSE base * g[k - 1]]
                     => Powers(g, base)
  <1> DEFINE step == [p \in Nat \X Nat |-> base * p[2]]
             Rec(g) == g = [k \in 0 .. 20 |-> IF k = 0 THEN 1 ELSE base * g[k - 1]]
  <1>1. step \in [Nat \X Nat -> Nat]
    OBVIOUS
  <1>2. PICK f \in [0 .. 20 -> Nat] : Follows(f, 0, 20, 1, step)
    <2>1. 0 \in Nat /\ 20 \in Nat /\ 0 <= 20 /\ 1 \in Nat
      OBVIOUS
    <2> HIDE DEF step
    <2> QED BY <1>1, <2>1, StepsExist
  <1>3. ASSUME NEW k \in 1 .. 20 PROVE f[k] = base * f[k - 1]
    <2>1. k \in Nat /\ k \in 0 + 1 .. 20 /\ k - 1 \in 0 .. 20
      OBVIOUS
    <2>2. f[k] = step[<<k, f[k - 1]>>] /\ f[k - 1] \in Nat
      BY <1>2, <2>1 DEF Follows
    <2> QED BY <2>1, <2>2
  <1>4. Rec(f)
    <2>1. f = [k \in 0 .. 20 |-> f[k]] /\ f[0] = 1
      BY <1>2 DEF Follows
    <2>2. ASSUME NEW k \in 0 .. 20 PROVE f[k] = IF k = 0 THEN 1 ELSE base * f[k - 1]
      <3>1. k # 0 => k \in 1 .. 20
        OBVIOUS
      <3> QED BY <1>3, <2>1, <3>1
    <2> QED BY <2>1, <2>2, Zenon
  <1>5. ASSUME NEW g, Rec(g) PROVE Powers(g, base)
    <2>1. /\ DOMAIN g = 0 .. 20 /\ g[0] = 1 /\ g = [k \in 0 .. 20 |-> g[k]]
          /\ \A k \in 1 .. 20 : g[k] = base * g[k - 1]
      <3>1. \A k \in 0 .. 20 : g[k] = IF k = 0 THEN 1 ELSE base * g[k - 1]
        BY <1>5
      <3>2. 0 \in 0 .. 20 /\ \A k \in 1 .. 20 : k \in 0 .. 20 /\ k # 0
        OBVIOUS
      <3>3. DOMAIN g = 0 .. 20 /\ g = [k \in 0 .. 20 |-> g[k]]
        BY <1>5, Zenon
      <3> HIDE DEF Rec
      <3> QED BY <3>1, <3>2, <3>3
    <2> DEFINE R == {k \in 0 .. 20 : g[k] \in Nat}
    <2>2. 0 \in R
      BY <2>1
    <2>3. ASSUME NEW k \in 0 + 1 .. 20, k - 1 \in R PROVE k \in R
      <3>1. k \in 1 .. 20 /\ k \in 0 .. 20
        OBVIOUS
      <3>2. g[k] = base * g[k - 1] /\ g[k - 1] \in Nat
        BY <2>1, <2>3, <3>1
      <3> QED BY <3>1, <3>2
    <2> HIDE DEF R, Rec
    <2>4. \A k \in 0 .. 20 : k \in R
      <3>1. 0 \in Nat /\ 20 \in Nat
        OBVIOUS
      <3> QED BY <2>2, <2>3, <3>1, UpTo
    <2>5. \A k \in 0 .. 20 : g[k] \in Nat
      BY <2>4 DEF R
    <2> QED BY <2>1, <2>5 DEF Powers
  <1> QED BY <1>4, <1>5

LEMMA PowersGrow ==
    ASSUME NEW base \in {10, 16}, NEW power, Powers(power, base)
    PROVE  /\ \A k \in 0 .. 20 : power[k] \in Nat /\ power[k] > 0
           /\ \A j, k \in 0 .. 20 : j <= k => power[j] <= power[k]
           /\ \A v \in Unsigned : power[20] > v
  <1>1. /\ \A k \in 0 .. 20 : power[k] \in Nat
        /\ \A k \in 1 .. 20 : power[k] = base * power[k - 1]
        /\ power[0] = 1
    BY DEF Powers
  <1>2. ASSUME NEW j \in 0 .. 20
        PROVE  \A k \in j .. 20 : power[k] >= power[j]
    <2> DEFINE R == {k \in j .. 20 : power[k] >= power[j]}
    <2>1. j \in R
      BY <1>1
    <2>2. ASSUME NEW k \in j + 1 .. 20, k - 1 \in R PROVE k \in R
      <3>1. k \in 1 .. 20 /\ k \in j .. 20 /\ k - 1 \in 0 .. 20
        OBVIOUS
      <3>2. power[k] = base * power[k - 1] /\ power[k - 1] \in Nat /\ power[k - 1] >= power[j]
        BY <1>1, <2>2, <3>1
      <3>3. power[j] \in Nat /\ base \in {10, 16}
        BY <1>1
      <3> QED BY <3>1, <3>2, <3>3
    <2> HIDE DEF R
    <2>3. \A k \in j .. 20 : k \in R
      <3>1. j \in Nat /\ 20 \in Nat
        OBVIOUS
      <3> QED BY <2>1, <2>2, <3>1, UpTo
    <2> QED BY <2>3 DEF R
  <1>3. ASSUME NEW k \in 0 .. 20 PROVE power[k] > 0
    <2>1. 0 \in 0 .. 20 /\ k \in 0 .. 20
      OBVIOUS
    <2>2. power[k] >= power[0]
      BY <1>2, <2>1
    <2>3. power[k] \in Nat /\ power[0] = 1
      BY <1>1
    <2> QED BY <2>2, <2>3
  <1>4. ASSUME NEW v \in Unsigned PROVE power[20] > v
    <2>1. v \in Nat /\ ((v \div 65536) \div 65536) \div 65536 < 65536
      BY DEF Unsigned
    <2>2. v < 18446744073709551616
      BY <2>1, SMT
    <2>3. /\ power[1] = base * power[0] /\ power[2] = base * power[1]
          /\ power[3] = base * power[2] /\ power[4] = base * power[3]
          /\ power[5] = base * power[4] /\ power[6] = base * power[5]
          /\ power[7] = base * power[6] /\ power[8] = base * power[7]
          /\ power[9] = base * power[8] /\ power[10] = base * power[9]
          /\ power[11] = base * power[10] /\ power[12] = base * power[11]
          /\ power[13] = base * power[12] /\ power[14] = base * power[13]
          /\ power[15] = base * power[14] /\ power[16] = base * power[15]
          /\ power[17] = base * power[16] /\ power[18] = base * power[17]
          /\ power[19] = base * power[18] /\ power[20] = base * power[19]
      BY <1>1
    <2>4. CASE base = 10
      BY <1>1, <2>1, <2>2, <2>3, <2>4, SMT
    <2>5. CASE base = 16
      BY <1>1, <2>1, <2>2, <2>3, <2>5, SMT
    <2> QED BY <2>4, <2>5
  <1> QED BY <1>1, <1>2, <1>3, <1>4

LEMMA NumeralIs ==
    ASSUME NEW v \in Unsigned, NEW base \in {10, 16}, NEW least \in 1 .. 4
    PROVE  \E power, n :
              /\ Powers(power, base) /\ n \in least .. 20
              /\ power[n] > v /\ (n = least \/ power[n - 1] <= v)
              /\ Numeral(v, base, least) =
                     [i \in 1 .. n |-> Digit[((v \div power[n - i]) % base) + 1]]
  <1> DEFINE Rec(g) == g = [k \in 0 .. 20 |-> IF k = 0 THEN 1 ELSE base * g[k - 1]]
             power == CHOOSE g : Rec(g)
             Enough(k) == power[k] > v /\ (k = least \/ power[k - 1] <= v)
             n == CHOOSE k \in least .. 20 : Enough(k)
  <1>1. Powers(power, base)
    <2>1. (\E g : Rec(g)) /\ (\A g : Rec(g) => Powers(g, base))
      BY PowersExist
    <2> HIDE DEF Rec
    <2> QED BY <2>1
  <1>2. Numeral(v, base, least) = [i \in 1 .. n |-> Digit[((v \div power[n - i]) % base) + 1]]
    BY DEF Numeral
  <1> HIDE DEF power
  <1>3. \E k \in least .. 20 : Enough(k)
    <2> DEFINE T == {k \in least .. 20 : power[k] > v}
    <2>1. T \subseteq Nat /\ 20 \in T
      BY <1>1, PowersGrow
    <2>2. PICK k \in T : \A y \in T : k <= y
      <3> HIDE DEF T
      <3> QED BY <2>1, LeastNat
    <2>3. k \in least .. 20 /\ power[k] > v
      BY <2>2
    <2>4. ASSUME k # least PROVE power[k - 1] <= v
      <3>1. k - 1 \in least .. 20 /\ k - 1 \in 0 .. 20 /\ ~(k <= k - 1)
        BY <2>3, <2>4
      <3>2. k - 1 \notin T
        BY <2>2, <3>1
      <3>3. ~(power[k - 1] > v)
        BY <3>1, <3>2
      <3>4. power[k - 1] \in Nat /\ v \in Nat
        BY <1>1, <3>1 DEF Powers, Unsigned
      <3> QED BY <3>3, <3>4
    <2> QED BY <2>3, <2>4
  <1>4. n \in least .. 20 /\ Enough(n)
    <2> HIDE DEF Enough
    <2> QED BY <1>3
  <1> QED BY <1>1, <1>2, <1>4, ZenonT(60)

(* What is left of a number, each time a digit is taken.                   *)
Lefts(left, v, base) == /\ left \in [0 .. 64 -> Nat] /\ left[0] = v
                        /\ \A k \in 1 .. 64 : left[k] = left[k - 1] \div base

LEMMA LeftsExist ==
    ASSUME NEW v \in Nat, NEW base \in {10, 16}
    PROVE  /\ \E g : g = [k \in 0 .. 64 |-> IF k = 0 THEN v ELSE g[k - 1] \div base]
           /\ \A g : g = [k \in 0 .. 64 |-> IF k = 0 THEN v ELSE g[k - 1] \div base]
                     => Lefts(g, v, base)
  <1> DEFINE step == [p \in Nat \X Nat |-> p[2] \div base]
             Rec(g) == g = [k \in 0 .. 64 |-> IF k = 0 THEN v ELSE g[k - 1] \div base]
  <1>0. \A x \in Nat : x \div base \in Nat
    <2>1. \A x \in Nat : x \div 10 \in Nat /\ x \div 16 \in Nat
      OBVIOUS
    <2> QED BY <2>1
  <1>1. step \in [Nat \X Nat -> Nat]
    BY <1>0
  <1>2. PICK f \in [0 .. 64 -> Nat] : Follows(f, 0, 64, v, step)
    <2>1. 0 \in Nat /\ 64 \in Nat /\ 0 <= 64
      OBVIOUS
    <2> HIDE DEF step
    <2> QED BY <1>1, <2>1, StepsExist
  <1>3. ASSUME NEW k \in 1 .. 64 PROVE f[k] = f[k - 1] \div base
    <2>1. k \in Nat /\ k \in 0 + 1 .. 64 /\ k - 1 \in 0 .. 64
      OBVIOUS
    <2>2. f[k] = step[<<k, f[k - 1]>>] /\ f[k - 1] \in Nat
      BY <1>2, <2>1 DEF Follows
    <2> QED BY <2>1, <2>2
  <1>4. Rec(f)
    <2>1. f = [k \in 0 .. 64 |-> f[k]] /\ f[0] = v
      BY <1>2 DEF Follows
    <2>2. ASSUME NEW k \in 0 .. 64 PROVE f[k] = IF k = 0 THEN v ELSE f[k - 1] \div base
      <3>1. k # 0 => k \in 1 .. 64
        OBVIOUS
      <3> QED BY <1>3, <2>1, <3>1
    <2> QED BY <2>1, <2>2, Zenon
  <1>5. ASSUME NEW g, Rec(g) PROVE Lefts(g, v, base)
    <2>1. /\ g[0] = v /\ g = [k \in 0 .. 64 |-> g[k]]
          /\ \A k \in 1 .. 64 : g[k] = g[k - 1] \div base
      <3>1. \A k \in 0 .. 64 : g[k] = IF k = 0 THEN v ELSE g[k - 1] \div base
        BY <1>5
      <3>2. 0 \in 0 .. 64 /\ \A k \in 1 .. 64 : k \in 0 .. 64 /\ k # 0
        OBVIOUS
      <3>3. g = [k \in 0 .. 64 |-> g[k]]
        BY <1>5, Zenon
      <3> HIDE DEF Rec
      <3> QED BY <3>1, <3>2, <3>3
    <2> DEFINE R == {k \in 0 .. 64 : g[k] \in Nat}
    <2>2. 0 \in R
      BY <2>1
    <2>3. ASSUME NEW k \in 0 + 1 .. 64, k - 1 \in R PROVE k \in R
      <3>1. k \in 1 .. 64 /\ k \in 0 .. 64
        OBVIOUS
      <3>2. g[k] = g[k - 1] \div base /\ g[k - 1] \in Nat
        BY <2>1, <2>3, <3>1
      <3> QED BY <1>0, <3>1, <3>2
    <2> HIDE DEF R, Rec
    <2>4. \A k \in 0 .. 64 : k \in R
      <3>1. 0 \in Nat /\ 64 \in Nat
        OBVIOUS
      <3> QED BY <2>2, <2>3, <3>1, UpTo
    <2>5. \A k \in 0 .. 64 : g[k] \in Nat
      BY <2>4 DEF R
    <2> QED BY <2>1, <2>5 DEF Lefts
  <1> QED BY <1>4, <1>5

(* Digits found by dividing are those of the positions.                    *)
LEMMA LeftIs ==
    ASSUME NEW v \in Nat, NEW base \in {10, 16}, NEW power, Powers(power, base),
           NEW left, Lefts(left, v, base)
    PROVE  \A k \in 0 .. 20 : left[k] = v \div power[k]
  <1>1. /\ \A k \in 0 .. 20 : power[k] \in Nat /\ power[k] > 0
        /\ \A k \in 1 .. 20 : power[k] = base * power[k - 1]
        /\ power[0] = 1 /\ left[0] = v
        /\ \A k \in 1 .. 20 : left[k] = left[k - 1] \div base
    <2>1. \A k \in 0 .. 20 : power[k] \in Nat /\ power[k] > 0
      BY PowersGrow, Zenon
    <2>2. (\A k \in 1 .. 20 : power[k] = base * power[k - 1]) /\ power[0] = 1
      BY Zenon DEF Powers
    <2>3. left[0] = v /\ \A k \in 1 .. 64 : left[k] = left[k - 1] \div base
      BY Zenon DEF Lefts
    <2>4. \A k \in 1 .. 20 : k \in 1 .. 64
      OBVIOUS
    <2> QED BY <2>1, <2>2, <2>3, <2>4, Zenon
  <1> DEFINE R == {k \in 0 .. 20 : left[k] = v \div power[k]}
  <1>2. 0 \in R
    <2>1. v \div 1 = v
      BY DivNone
    <2> QED BY <1>1, <2>1
  <1>3. ASSUME NEW k \in 0 + 1 .. 20, k - 1 \in R PROVE k \in R
    <2>1. k \in 1 .. 20 /\ k - 1 \in 0 .. 20 /\ k \in 0 .. 20
      OBVIOUS
    <2>2. left[k] = (v \div power[k - 1]) \div base
      BY <1>1, <1>3, <2>1, Zenon
    <2>3. (v \div power[k - 1]) \div base = v \div (base * power[k - 1])
      BY <1>1, <2>1, DivDiv, Zenon
    <2>4. power[k] = base * power[k - 1]
      BY <1>1, <2>1
    <2>5. left[k] = v \div power[k]
      BY <2>2, <2>3, <2>4, Zenon
    <2> QED BY <2>1, <2>5
  <1> HIDE DEF R
  <1>4. \A k \in 0 .. 20 : k \in R
    <2>1. 0 \in Nat /\ 20 \in Nat
      OBVIOUS
    <2> QED BY <1>2, <1>3, <2>1, UpTo
  <1> QED BY <1>4 DEF R

DigitsBy(v, base, power) ==
    \E m \in 1 .. 20 :
       /\ power[m] > v /\ (m = 1 \/ power[m - 1] <= v)
       /\ Digits(v, base) = [i \in 1 .. m |-> Digit[((v \div power[m - i]) % base) + 1]]

LEMMA DigitsIs ==
    ASSUME NEW v \in Unsigned, NEW base \in {10, 16}, NEW power, Powers(power, base)
    PROVE  DigitsBy(v, base, power)
  <1> DEFINE Rec(g) == g = [k \in 0 .. 64 |-> IF k = 0 THEN v ELSE g[k - 1] \div base]
             left == CHOOSE g : Rec(g)
             EndsAt(k) == left[k] = 0 /\ (k = 1 \/ left[k - 1] # 0)
             size == CHOOSE k \in 1 .. 64 : EndsAt(k)
  <1>0. v \in Nat
    BY DEF Unsigned
  <1>1. Lefts(left, v, base)
    <2>1. (\E g : Rec(g)) /\ (\A g : Rec(g) => Lefts(g, v, base))
      BY <1>0, LeftsExist
    <2> HIDE DEF Rec
    <2> QED BY <2>1
  <1>2. Digits(v, base) = [i \in 1 .. size |-> Digit[(left[size - i] % base) + 1]]
    BY DEF Digits
  <1> HIDE DEF left
  <1>3. \A k \in 0 .. 20 : left[k] = v \div power[k]
    BY <1>0, <1>1, LeftIs
  <1>4. \A k \in 0 .. 20 : left[k] = 0 <=> power[k] > v
    BY <1>0, <1>3, DivNone, PowersGrow
  <1>5. PICK m \in 1 .. 20 : left[m] = 0 /\ \A y \in 1 .. 20 : left[y] = 0 => m <= y
    <2> DEFINE T == {k \in 1 .. 20 : left[k] = 0}
    <2>1. T \subseteq Nat /\ 20 \in T
      <3>1. power[20] > v
        BY PowersGrow
      <3>2. 20 \in 0 .. 20
        OBVIOUS
      <3>3. left[20] = 0
        BY <1>4, <3>1, <3>2
      <3> QED BY <3>3
    <2>2. PICK k \in T : \A y \in T : k <= y
      <3> HIDE DEF T
      <3> QED BY <2>1, LeastNat
    <2> QED BY <2>2
  <1>6. ASSUME NEW k \in m .. 64 PROVE left[k] = 0
    <2> DEFINE R == {j \in m .. 64 : left[j] = 0}
    <2>1. m \in R
      BY <1>5
    <2>2. ASSUME NEW j \in m + 1 .. 64, j - 1 \in R PROVE j \in R
      <3>1. j \in 1 .. 64 /\ j \in m .. 64
        OBVIOUS
      <3>2. left[j] = left[j - 1] \div base /\ left[j - 1] = 0
        BY <1>1, <2>2, <3>1 DEF Lefts
      <3>3. 0 \div base = 0
        OBVIOUS
      <3> QED BY <3>1, <3>2, <3>3
    <2> HIDE DEF R
    <2>3. \A j \in m .. 64 : j \in R
      <3>1. m \in Nat /\ 64 \in Nat
        OBVIOUS
      <3> QED BY <2>1, <2>2, <3>1, UpTo, SMTT(60)
    <2> QED BY <2>3 DEF R
  <1>7. EndsAt(m)
    <2>1. ASSUME m # 1 PROVE left[m - 1] # 0
      <3>1. m - 1 \in 1 .. 20 /\ ~(m <= m - 1)
        BY <2>1
      <3> QED BY <1>5, <3>1
    <2> QED BY <1>5, <2>1
  <1>8. ASSUME NEW k \in 1 .. 64, EndsAt(k) PROVE k = m
    <2>1. CASE k < m
      <3>1. k \in 1 .. 20
        BY <2>1
      <3> QED BY <1>5, <1>8, <2>1, <3>1
    <2>2. CASE k > m
      <3>1. k - 1 \in m .. 64 /\ k # 1
        BY <2>2
      <3>2. left[k - 1] = 0
        BY <1>6, <3>1
      <3> QED BY <1>8, <3>1, <3>2
    <2> QED BY <2>1, <2>2
  <1>9. size = m
    <2>1. m \in 1 .. 64
      OBVIOUS
    <2> HIDE DEF EndsAt
    <2> QED BY <1>7, <1>8, <2>1
  <1>10. power[m] > v /\ (m = 1 \/ power[m - 1] <= v)
    <2>1. m \in 0 .. 20 /\ m - 1 \in 0 .. 20
      OBVIOUS
    <2>2. power[m] > v /\ (m = 1 \/ ~(power[m - 1] > v))
      BY <1>4, <1>7, <2>1
    <2>3. power[m - 1] \in Nat
      BY <2>1 DEF Powers
    <2> QED BY <1>0, <2>2, <2>3
  <1>11. Digits(v, base) = [i \in 1 .. m |-> Digit[((v \div power[m - i]) % base) + 1]]
    <2>1. Digits(v, base) = [i \in 1 .. m |-> Digit[(left[m - i] % base) + 1]]
      BY <1>2, <1>9
    <2>2. \A i \in 1 .. m : left[m - i] = v \div power[m - i]
      <3>1. \A i \in 1 .. m : m - i \in 0 .. 20
        OBVIOUS
      <3> QED BY <1>3, <3>1
    <2> QED BY <2>1, <2>2
  <1> QED BY <1>10, <1>11 DEF DigitsBy

(* Zeroes written one by one.                                              *)
LEMMA ZeroUnit == "0" \in Units /\ <<"0">> \in Texts /\ Write(<<"0">>, "zero") \in Writes
  <1>1. "0" \in Units
    BY DEF Units
  <1>2. <<"0">> \in Texts
    BY <1>1 DEF Texts
  <1> QED BY <1>1, <1>2 DEF Write, Writes, Parts

LEMMA ZeroesWritten ==
    ASSUME NEW z \in Nat
    PROVE  LET ws == [k \in 1 .. z |-> Write(<<"0">>, "zero")]
           IN ws \in Seq(Writes) /\ Written(ws) = [k \in 1 .. z |-> "0"]
  <1> DEFINE w == Write(<<"0">>, "zero")
             ws(n) == [k \in 1 .. n |-> w]
             R == {n \in 0 .. z : Written(ws(n)) = [k \in 1 .. n |-> "0"]}
  <1>1. w \in Writes /\ w.bytes = <<"0">>
    BY ZeroUnit DEF Write
  <1>2. \A n \in Nat : ws(n) \in Seq(Writes)
    <2> HIDE DEF w
    <2> QED BY <1>1
  <1>3. 0 \in R
    <2>1. ws(0) = << >> /\ [k \in 1 .. 0 |-> "0"] = << >>
      OBVIOUS
    <2> QED BY <2>1, WrittenNone
  <1>4. ASSUME NEW n \in 0 + 1 .. z, n - 1 \in R PROVE n \in R
    <2>1. n \in Nat /\ n - 1 \in Nat /\ n \in 0 .. z
      OBVIOUS
    <2>2. ws(n) = ws(n - 1) \o <<w>> /\ <<w>> \in Seq(Writes)
      <3> HIDE DEF w
      <3>1. [k \in 1 .. n |-> w] = [k \in 1 .. n - 1 |-> w] \o <<w>>
        BY <2>1
      <3> QED BY <1>1, <3>1
    <2>3. ws(n - 1) \in Seq(Writes)
      BY <1>2, <2>1
    <2>4. Written(<<w>>) = <<"0">>
      BY <1>1, WrittenOne
    <2>5. Written(ws(n - 1)) = [k \in 1 .. n - 1 |-> "0"]
      BY <1>4
    <2> HIDE DEF w, ws
    <2>6. Written(ws(n)) = Written(ws(n - 1)) \o Written(<<w>>)
      BY <2>2, <2>3, WrittenConcat
    <2>7. [k \in 1 .. n - 1 |-> "0"] \o <<"0">> = [k \in 1 .. n |-> "0"]
      BY <2>1
    <2> QED BY <2>1, <2>4, <2>5, <2>6, <2>7
  <1> HIDE DEF R, ws
  <1>5. \A n \in 0 .. z : n \in R
    <2>1. 0 \in Nat
      OBVIOUS
    <2> QED BY <1>3, <1>4, <2>1, UpTo
  <1>6. z \in R
    BY <1>5
  <1> QED BY <1>2, <1>6 DEF R, ws

LEMMA WidthIs ==
    ASSUME NEW width \in Nat, NEW n \in Nat
    PROVE  Max({0, width - n}) = IF width > n THEN width - n ELSE 0
  <1> DEFINE S == {0, width - n}
             most == IF width > n THEN width - n ELSE 0
  <1>1. most \in S /\ \A y \in S : most >= y
    OBVIOUS
  <1>2. \A x \in S : (\A y \in S : x >= y) => x = most
    OBVIOUS
  <1> HIDE DEF S, most
  <1>3. Max(S) = most
    BY <1>1, <1>2, Zenon DEF Max
  <1> QED BY <1>3 DEF S, most

LEMMA DigitUnits == \A x \in Nat : \A base \in {10, 16} : Digit[(x % base) + 1] \in Units
  <1>1. ASSUME NEW x \in Nat, NEW base \in {10, 16} PROVE (x % base) + 1 \in 1 .. 16
    <2>1. x % 10 \in 0 .. 9 /\ x % 16 \in 0 .. 15
      OBVIOUS
    <2>2. CASE base = 10
      BY <2>1, <2>2
    <2>3. CASE base = 16
      BY <2>1, <2>3
    <2> QED BY <2>2, <2>3
  <1>2. \A k \in 1 .. 16 : Digit[k] \in Units
    BY DEF Units
  <1> QED BY <1>1, <1>2

(* What print_number writes is the number in its width.                    *)
LEMMA PrintedIs ==
    ASSUME NEW v \in Unsigned, NEW base \in {10, 16}, NEW width \in 0 .. 4,
           NEW least, least = IF width = 0 THEN 1 ELSE width
    PROVE  /\ Printed(v, base, width) \in Seq(Writes)
           /\ Written(Printed(v, base, width)) = Numeral(v, base, least)
           /\ Numeral(v, base, least) \in Texts
  <1>0. least \in 1 .. 4 /\ v \in Nat
    BY DEF Unsigned
  <1>1. PICK power, n :
           /\ Powers(power, base) /\ n \in least .. 20
           /\ power[n] > v /\ (n = least \/ power[n - 1] <= v)
           /\ Numeral(v, base, least) =
                  [i \in 1 .. n |-> Digit[((v \div power[n - i]) % base) + 1]]
    BY <1>0, NumeralIs, ZenonT(60)
  <1>2. PICK m \in 1 .. 20 :
           /\ power[m] > v /\ (m = 1 \/ power[m - 1] <= v)
           /\ Digits(v, base) = [i \in 1 .. m |-> Digit[((v \div power[m - i]) % base) + 1]]
    <2>1. Powers(power, base)
      BY <1>1
    <2>2. DigitsBy(v, base, power)
      BY <2>1, DigitsIs, Zenon
    <2> QED BY <2>2, Zenon DEF DigitsBy
  <1>3. /\ \A k \in 0 .. 20 : power[k] \in Nat /\ power[k] > 0
        /\ \A j, k \in 0 .. 20 : j <= k => power[j] <= power[k]
    <2>1. Powers(power, base)
      BY <1>1
    <2> QED BY <2>1, PowersGrow, Zenon
  <1>4. m <= n /\ (m < n => n = least)
    <2>1. n \in 0 .. 20 /\ n - 1 \in 0 .. 20 /\ m \in 0 .. 20 /\ m - 1 \in 0 .. 20
      BY <1>0, <1>1
    <2>2. ASSUME m > n PROVE FALSE
      <3>1. n <= m - 1 /\ m # 1
        BY <1>0, <1>1, <2>1, <2>2
      <3>2. power[n] <= power[m - 1]
        BY <1>3, <2>1, <3>1
      <3>3. power[m - 1] <= v /\ power[n] \in Nat /\ power[m - 1] \in Nat /\ power[n] > v
        BY <1>1, <1>2, <1>3, <2>1, <3>1
      <3> QED BY <1>0, <3>2, <3>3
    <2>3. ASSUME m < n, n # least PROVE FALSE
      <3>1. m <= n - 1
        BY <2>1, <2>3
      <3>2. power[m] <= power[n - 1]
        BY <1>3, <2>1, <3>1
      <3>3. power[n - 1] <= v /\ power[m] \in Nat /\ power[n - 1] \in Nat /\ power[m] > v
        BY <1>1, <1>2, <1>3, <2>1, <2>3
      <3> QED BY <1>0, <3>2, <3>3
    <2> QED BY <2>1, <2>2, <2>3
  <1> DEFINE At(k) == Digit[((v \div power[k]) % base) + 1]
             digits == [i \in 1 .. m |-> At(m - i)]
             numeral == [i \in 1 .. n |-> At(n - i)]
             z == n - m
             zeroes == [k \in 1 .. z |-> Write(<<"0">>, "zero")]
             w == Write(digits, "number")
  <1>5. \A k \in 0 .. 20 : /\ At(k) \in Units
                           /\ power[k] > v => At(k) = "0"
    <2>1. ASSUME NEW k \in 0 .. 20 PROVE At(k) \in Units
      <3>1. v \div power[k] \in Nat
        BY <1>0, <1>3, DivNone
      <3> QED BY <3>1, DigitUnits
    <2>2. ASSUME NEW k \in 0 .. 20, power[k] > v PROVE At(k) = "0"
      <3>1. v \div power[k] = 0
        BY <1>0, <1>3, <2>2, DivNone
      <3>2. 0 % base = 0
        OBVIOUS
      <3>3. Digit[0 + 1] = "0"
        BY DEF Digit
      <3> QED BY <3>1, <3>2, <3>3
    <2> QED BY <2>1, <2>2
  <1>6. Digits(v, base) = digits /\ Numeral(v, base, least) = numeral
    BY <1>1, <1>2
  <1>7. Len(Digits(v, base)) = m
    BY <1>6
  <1>8. z \in Nat /\ Max({0, width - Len(Digits(v, base))}) = z
    <2>1. width \in Nat /\ m \in Nat /\ n \in Nat
      BY <1>0, <1>1
    <2>2. Max({0, width - m}) = IF width > m THEN width - m ELSE 0
      BY <2>1, WidthIs
    <2>3. (IF width > m THEN width - m ELSE 0) = n - m
      BY <1>0, <1>1, <1>4, <2>1
    <2> QED BY <1>4, <1>7, <2>1, <2>2, <2>3
  <1>9. Printed(v, base, width) = zeroes \o <<w>>
    BY <1>6, <1>8, Zenon DEF Printed
  <1>10. digits \in Texts /\ Len(digits) = m /\ \A i \in 1 .. m : digits[i] = At(m - i)
    <2>1. \A i \in 1 .. m : m - i \in 0 .. 20
      OBVIOUS
    <2> HIDE DEF At
    <2>2. \A i \in 1 .. m : At(m - i) \in Units
      BY <1>5, <2>1
    <2> QED BY <2>2 DEF Texts
  <1>11. /\ numeral \in Texts /\ Len(numeral) = n
         /\ \A i \in 1 .. n : numeral[i] = At(n - i)
    <2>1. (\A i \in 1 .. n : n - i \in 0 .. 20) /\ n \in Nat
      BY <1>0, <1>1
    <2> HIDE DEF At
    <2>2. \A i \in 1 .. n : At(n - i) \in Units
      BY <1>5, <2>1
    <2> QED BY <2>1, <2>2 DEF Texts
  <1> HIDE DEF digits, numeral, At
  <1>12. w \in Writes /\ w.bytes = digits
    BY <1>10 DEF Write, Writes, Parts
  <1>13. zeroes \in Seq(Writes) /\ Written(zeroes) = [k \in 1 .. z |-> "0"]
    BY <1>8, ZeroesWritten
  <1> HIDE DEF w, zeroes, z
  <1>14. Printed(v, base, width) \in Seq(Writes) /\ <<w>> \in Seq(Writes)
    BY <1>9, <1>12, <1>13
  <1>15. Written(zeroes \o <<w>>) = [k \in 1 .. z |-> "0"] \o digits
    BY <1>12, <1>13, <1>14, WrittenConcat, WrittenOne
  <1>16. [k \in 1 .. z |-> "0"] \o digits = numeral
    <2> DEFINE lead == [k \in 1 .. z |-> "0"]
    <2>1. lead \in Texts /\ Len(lead) = z /\ \A i \in 1 .. z : lead[i] = "0"
      BY <1>8, ZeroUnit DEF Texts
    <2> HIDE DEF lead
    <2>2. n = z + m /\ z \in Nat
      BY <1>0, <1>1, <1>8 DEF z
    <2>3. ASSUME NEW i \in 1 .. n PROVE (lead \o digits)[i] = numeral[i]
      <3>1. CASE i <= z
        <4>1. (lead \o digits)[i] = "0"
          BY <1>10, <2>1, <2>2, <3>1 DEF Texts
        <4>2. n - i \in 0 .. 20 /\ m <= n - i /\ m \in 0 .. 20
          BY <1>0, <1>1, <2>2, <3>1
        <4>3. power[m] <= power[n - i] /\ power[m] \in Nat /\ power[n - i] \in Nat
          BY <1>3, <4>2
        <4>4. power[n - i] > v
          BY <1>0, <1>2, <4>3
        <4>5. At(n - i) = "0"
          BY <1>5, <4>2, <4>4
        <4> QED BY <1>11, <4>1, <4>5
      <3>2. CASE i > z
        <4>1. (lead \o digits)[i] = digits[i - z] /\ i - z \in 1 .. m
          BY <1>10, <2>1, <2>2, <3>2 DEF Texts
        <4>2. m - (i - z) = n - i
          BY <2>2
        <4> QED BY <1>10, <1>11, <4>1, <4>2
      <3>3. i <= z \/ i > z
        BY <2>2
      <3> QED BY <3>1, <3>2, <3>3
    <2>4. lead \o digits \in Texts /\ Len(lead \o digits) = n
      BY <1>10, <2>1, <2>2 DEF Texts
    <2>5. lead \o digits = numeral
      BY <1>11, <2>3, <2>4, SeqEqual DEF Texts
    <2> QED BY <2>5 DEF lead
  <1> QED BY <1>6, <1>9, <1>11, <1>14, <1>15, <1>16

-----------------------------------------------------------------------------
(* Writer_vformat.  What it has written and what it holds in its chunk, and *)
(* what it has still to take its conversions from.                          *)
ArgLists == [texts : Seq(Texts), numbers : Seq(Unsigned)]
Accs == [writes : Seq(Writes), chunk : Texts, args : ArgLists]
Said(acc) == Written(acc.writes) \o acc.chunk

Met(acc, unit) ==
    IF unit \in Conversions
    THEN [writes |-> acc.writes \o Chunk(acc.chunk, "chunk") \o Converted(unit, acc.args),
          chunk |-> << >>, args |-> Rest(unit, acc.args)]
    ELSE [acc EXCEPT !.chunk = Append(@, unit)]

Means(unit, args) ==
    CASE unit = "%s"   -> Head(args.texts)
      [] unit = "%u"   -> Numeral(Head(args.numbers), 10, 1)
      [] unit = "%04X" -> Numeral(Head(args.numbers), 16, 4)
      [] OTHER -> <<unit>>

Remaining(unit, args) == IF unit \in Conversions THEN Rest(unit, args) ELSE args

LEMMA AccsType ==
    ASSUME NEW acc \in Accs
    PROVE  /\ acc.writes \in Seq(Writes) /\ acc.chunk \in Texts /\ acc.args \in ArgLists
           /\ acc.args.texts \in Seq(Texts) /\ acc.args.numbers \in Seq(Unsigned)
           /\ Written(acc.writes) \in Texts /\ Said(acc) \in Texts
  <1>1. acc.writes \in Seq(Writes) /\ acc.chunk \in Texts /\ acc.args \in ArgLists
    BY Zenon DEF Accs
  <1>2. acc.args.texts \in Seq(Texts) /\ acc.args.numbers \in Seq(Unsigned)
    <2>1. \A a \in ArgLists : a.texts \in Seq(Texts) /\ a.numbers \in Seq(Unsigned)
      BY Zenon DEF ArgLists
    <2> QED BY <1>1, <2>1
  <1>3. Written(acc.writes) \in Texts
    BY <1>1, WrittenType
  <1>4. Said(acc) \in Texts
    BY <1>1, <1>3 DEF Said, Texts
  <1> QED BY <1>1, <1>2, <1>3, <1>4

LEMMA WriteIs ==
    ASSUME NEW bytes \in Texts, NEW part \in Parts
    PROVE  /\ Write(bytes, part) \in Writes /\ <<Write(bytes, part)>> \in Seq(Writes)
           /\ Written(<<Write(bytes, part)>>) = bytes
  <1> DEFINE w == Write(bytes, part)
  <1>1. w \in Writes /\ w.bytes = bytes
    BY DEF Write, Writes
  <1>2. Written(<<w>>) = w.bytes
    BY <1>1, WrittenOne
  <1>3. <<w>> \in Seq(Writes)
    <2> HIDE DEF w
    <2> QED BY <1>1
  <1> QED BY <1>1, <1>2, <1>3

LEMMA ChunkIs ==
    ASSUME NEW bytes \in Texts, NEW part \in Parts
    PROVE  Chunk(bytes, part) \in Seq(Writes) /\ Written(Chunk(bytes, part)) = bytes
  <1>1. CASE bytes = << >>
    <2>1. Chunk(bytes, part) = << >> /\ << >> \in Seq(Writes)
      BY <1>1 DEF Chunk
    <2> QED BY <1>1, <2>1, WrittenNone
  <1>2. CASE bytes # << >>
    <2>1. Chunk(bytes, part) = <<Write(bytes, part)>>
      BY <1>2 DEF Chunk
    <2> QED BY <2>1, WriteIs
  <1> QED BY <1>1, <1>2

LEMMA ConvertedIs ==
    ASSUME NEW unit \in Conversions, NEW args \in ArgLists,
           unit = "%s" => args.texts # << >>,
           unit # "%s" => args.numbers # << >>
    PROVE  /\ Converted(unit, args) \in Seq(Writes)
           /\ Written(Converted(unit, args)) = Means(unit, args)
           /\ Means(unit, args) \in Texts /\ Rest(unit, args) \in ArgLists
  <1>1. args.texts \in Seq(Texts) /\ args.numbers \in Seq(Unsigned)
    BY Zenon DEF ArgLists
  <1>2. CASE unit = "%s"
    <2>1. Head(args.texts) \in Texts /\ Tail(args.texts) \in Seq(Texts)
      BY <1>1, <1>2
    <2>2. /\ Converted(unit, args) = <<Write(Head(args.texts), "string")>>
          /\ Means(unit, args) = Head(args.texts)
      BY <1>2 DEF Converted, Means
    <2>3. "string" \in Parts
      BY DEF Parts
    <2>4. Rest(unit, args) \in ArgLists
      BY <1>1, <1>2, <2>1 DEF Rest, ArgLists
    <2> QED BY <2>1, <2>2, <2>3, <2>4, WriteIs
  <1>3. CASE unit # "%s"
    <2>1. Head(args.numbers) \in Unsigned /\ Tail(args.numbers) \in Seq(Unsigned)
      BY <1>1, <1>3
    <2>2. Rest(unit, args) \in ArgLists
      BY <1>1, <1>3, <2>1 DEF Rest, ArgLists
    <2> DEFINE v == Head(args.numbers)
    <2>3. CASE unit = "%u"
      <3>1. /\ Converted(unit, args) = Printed(v, 10, 0)
            /\ Means(unit, args) = Numeral(v, 10, 1)
        BY <2>3 DEF Converted, Means
      <3>2. 10 \in {10, 16} /\ 0 \in 0 .. 4 /\ 1 = IF 0 = 0 THEN 1 ELSE 0
        OBVIOUS
      <3> HIDE DEF v
      <3>3. /\ Printed(v, 10, 0) \in Seq(Writes)
            /\ Written(Printed(v, 10, 0)) = Numeral(v, 10, 1)
            /\ Numeral(v, 10, 1) \in Texts
        BY <2>1, <3>2, PrintedIs, Zenon DEF v
      <3> QED BY <2>2, <3>1, <3>3
    <2>4. CASE unit = "%04X"
      <3>1. /\ Converted(unit, args) = Printed(v, 16, 4)
            /\ Means(unit, args) = Numeral(v, 16, 4)
        BY <2>4 DEF Converted, Means
      <3>2. 16 \in {10, 16} /\ 4 \in 0 .. 4 /\ 4 = IF 4 = 0 THEN 1 ELSE 4
        OBVIOUS
      <3> HIDE DEF v
      <3>3. /\ Printed(v, 16, 4) \in Seq(Writes)
            /\ Written(Printed(v, 16, 4)) = Numeral(v, 16, 4)
            /\ Numeral(v, 16, 4) \in Texts
        BY <2>1, <3>2, PrintedIs, Zenon DEF v
      <3> QED BY <2>2, <3>1, <3>3
    <2> QED BY <1>3, <2>3, <2>4 DEF Conversions
  <1> QED BY <1>2, <1>3

LEMMA SaidMore ==
    ASSUME NEW a \in Seq(Writes), NEW b \in Seq(Writes), NEW c \in Seq(Writes)
    PROVE  /\ (a \o b) \o c \in Seq(Writes)
           /\ Written((a \o b) \o c) \o << >> = (Written(a) \o Written(b)) \o Written(c)
  <1>1. a \o b \in Seq(Writes) /\ (a \o b) \o c \in Seq(Writes)
    OBVIOUS
  <1>2. Written((a \o b) \o c) = Written(a \o b) \o Written(c)
    BY <1>1, WrittenConcat
  <1>3. Written(a \o b) = Written(a) \o Written(b)
    BY WrittenConcat
  <1>4. Written((a \o b) \o c) \in Seq(Units)
    BY <1>1, WrittenType DEF Texts
  <1>5. Written((a \o b) \o c) \o << >> = Written((a \o b) \o c)
    BY <1>4, ConcatEmptySeq
  <1> QED BY <1>1, <1>2, <1>3, <1>5

LEMMA RegroupTexts == \A p, q, r \in Texts : (p \o q) \o r = p \o (q \o r)
  <1> TAKE p \in Texts, q \in Texts, r \in Texts
  <1>1. p \in Seq(Units) /\ q \in Seq(Units) /\ r \in Seq(Units)
    BY Zenon DEF Texts
  <1> QED BY <1>1, Regroup

LEMMA ConcatTexts == \A p, q \in Texts : p \o q \in Texts
  BY DEF Texts

LEMMA AppendRegroup ==
    ASSUME NEW a \in Texts, NEW b \in Texts, NEW u \in Units
    PROVE  a \o Append(b, u) = (a \o b) \o <<u>>
  <1>1. <<u>> \in Texts /\ Append(b, u) = b \o <<u>>
    BY DEF Texts
  <1>2. (a \o b) \o <<u>> = a \o (b \o <<u>>)
    BY <1>1, RegroupTexts, Zenon
  <1> QED BY <1>1, <1>2

(* One unit of the format met.                                             *)
LEMMA MetIsSaid ==
    ASSUME NEW acc \in Accs, NEW unit \in Units,
           unit = "%s" => acc.args.texts # << >>,
           unit \in Conversions \ {"%s"} => acc.args.numbers # << >>
    PROVE  /\ Met(acc, unit) \in Accs /\ Means(unit, acc.args) \in Texts
           /\ Met(acc, unit).args = Remaining(unit, acc.args)
           /\ Said(Met(acc, unit)) = Said(acc) \o Means(unit, acc.args)
  <1>1. /\ acc.writes \in Seq(Writes) /\ acc.chunk \in Texts /\ acc.args \in ArgLists
        /\ Written(acc.writes) \in Texts
    BY AccsType
  <1>2. CASE unit \in Conversions
    <2> DEFINE a == acc.writes
               b == Chunk(acc.chunk, "chunk")
               c == Converted(unit, acc.args)
    <2>1. /\ c \in Seq(Writes) /\ Written(c) = Means(unit, acc.args)
          /\ Means(unit, acc.args) \in Texts /\ Rest(unit, acc.args) \in ArgLists
      BY <1>1, <1>2, ConvertedIs
    <2>2. b \in Seq(Writes) /\ Written(b) = acc.chunk
      BY <1>1, ChunkIs DEF Parts
    <2>3. Met(acc, unit) = [writes |-> (a \o b) \o c, chunk |-> << >>,
                            args |-> Rest(unit, acc.args)]
      BY <1>2 DEF Met
    <2> HIDE DEF b, c
    <2>4. /\ (a \o b) \o c \in Seq(Writes)
          /\ Written((a \o b) \o c) \o << >> = (Written(a) \o Written(b)) \o Written(c)
      BY <1>1, <2>1, <2>2, SaidMore
    <2>5. << >> \in Texts
      BY DEF Texts
    <2> HIDE DEF a
    <2>6. Met(acc, unit) \in Accs
      BY <2>1, <2>3, <2>4, <2>5 DEF Accs
    <2>7. Said(Met(acc, unit)) = Written((a \o b) \o c) \o << >>
      BY <2>3 DEF Said
    <2>8. Said(acc) = Written(a) \o Written(b)
      BY <2>2 DEF Said, a
    <2>9. Met(acc, unit).args = Remaining(unit, acc.args)
      BY <1>2, <2>3 DEF Remaining
    <2> QED BY <2>1, <2>4, <2>6, <2>7, <2>8, <2>9
  <1>3. CASE unit \notin Conversions
    <2>1. Met(acc, unit) = [acc EXCEPT !.chunk = Append(@, unit)]
      BY <1>3 DEF Met
    <2>2. Append(acc.chunk, unit) \in Texts /\ <<unit>> \in Texts
      BY <1>1 DEF Texts
    <2>3. /\ Met(acc, unit) \in Accs /\ Met(acc, unit).args = acc.args
          /\ Met(acc, unit).writes = acc.writes
          /\ Met(acc, unit).chunk = Append(acc.chunk, unit)
      BY <2>1, <2>2 DEF Accs
    <2>4. Means(unit, acc.args) = <<unit>>
      BY <1>3 DEF Means, Conversions
    <2>5. Said(Met(acc, unit)) = Said(acc) \o <<unit>>
      <3>1. Said(Met(acc, unit)) = Written(acc.writes) \o Append(acc.chunk, unit)
        BY <2>3 DEF Said
      <3> QED BY <1>1, <3>1, AppendRegroup DEF Said
    <2> QED BY <1>3, <2>2, <2>3, <2>4, <2>5 DEF Remaining
  <1> QED BY <1>2, <1>3

-----------------------------------------------------------------------------
FileKnown == pc = "lex" => file \in Files

(* Whatever bytes a file holds: the first character decoded has, in UTF-8, *)
(* the form that was read, or an overlong form of two or four bytes, and   *)
(* every character in its shortest form is decoded (utf8_decode).          *)
THEOREM CharactersDecoded == Spec => []DecodesOneCharacter
  <1>1. Init => FileKnown
    BY DEF Init, FileKnown
  <1>2. FileKnown /\ [Next]_vars => FileKnown'
    <2> SUFFICES ASSUME FileKnown, [Next]_vars PROVE FileKnown'
      OBVIOUS
    <2>1. CASE Lex
      BY <2>1 DEF Lex, FileKnown
    <2>2. CASE UNCHANGED <<pc, file>>
      BY <2>2 DEF FileKnown
    <2>3. CASE pc' # "lex"
      BY <2>3 DEF FileKnown
    <2>4. ASSUME ~Lex, ~UNCHANGED <<pc, file>>, ~(pc' # "lex") PROVE FALSE
      BY <2>4, Zenon DEF Next, vars, process, kernel, StartDiagnostic, StartDirect, Call,
         ArrayWriter_write, Emit, Finish, WriteReturns, WriteSome, WriteInterrupted, WriteFails
    <2> QED BY <2>1, <2>2, <2>3, <2>4
  <1>3. FileKnown => DecodesOneCharacter
    <2> SUFFICES ASSUME FileKnown, pc = "lex"
                 PROVE  DecodesOneCharacter
      BY DEF DecodesOneCharacter
    <2>1. file \in Seq(0 .. 255)
      BY OutputAssumption DEF FileKnown
    <2>2. Decoded(file)
      BY <2>1, DecodesAny
    <2>3. \A ch \in Characters : IsScalar(ch)
      BY OutputAssumption
    <2> QED BY <2>2, <2>3, Zenon DEF Decoded, DecodesOneCharacter
  <1> QED BY <1>1, <1>2, <1>3, PTL DEF Spec

(* What has been counted and what is left to take after k units.           *)
Marked(marks, i) == {k \in 1 .. i : k \in marks}

LEMMA Counted ==
    ASSUME NEW marks, NEW i \in Nat
    PROVE  /\ Cardinality(Marked(marks, 0)) = 0
           /\ Cardinality(Marked(marks, i)) \in Nat
           /\ Cardinality(Marked(marks, i + 1)) =
                  Cardinality(Marked(marks, i)) + (IF i + 1 \in marks THEN 1 ELSE 0)
           /\ \A n \in Nat :
                  i <= n => Cardinality(Marked(marks, i)) <= Cardinality(Marked(marks, n))
  <1>1. ASSUME NEW n \in Nat PROVE IsFiniteSet(Marked(marks, n))
    <2>1. IsFiniteSet(1 .. n)
      BY FS_Interval
    <2>2. Marked(marks, n) \subseteq 1 .. n
      BY DEF Marked
    <2> QED BY <2>1, <2>2, FS_Subset
  <1>2. Marked(marks, 0) = {}
    BY DEF Marked
  <1>3. Cardinality(Marked(marks, 0)) = 0
    BY <1>2, FS_EmptySet
  <1>4. Cardinality(Marked(marks, i)) \in Nat
    BY <1>1, FS_CardinalityType
  <1>5. ASSUME NEW n \in Nat, i <= n
        PROVE  Cardinality(Marked(marks, i)) <= Cardinality(Marked(marks, n))
    <2>1. Marked(marks, i) \subseteq Marked(marks, n)
      BY <1>5 DEF Marked
    <2> QED BY <1>1, <2>1, FS_Subset
  <1>6. CASE i + 1 \in marks
    <2>1. Marked(marks, i + 1) = Marked(marks, i) \cup {i + 1} /\ i + 1 \notin Marked(marks, i)
      BY <1>6 DEF Marked
    <2>2. Cardinality(Marked(marks, i + 1)) = Cardinality(Marked(marks, i)) + 1
      BY <1>1, <2>1, FS_AddElement
    <2> QED BY <1>3, <1>4, <1>5, <1>6, <2>2
  <1>7. CASE i + 1 \notin marks
    <2>1. Marked(marks, i + 1) = Marked(marks, i)
      BY <1>7 DEF Marked
    <2> QED BY <1>3, <1>4, <1>5, <1>7, <2>1
  <1> QED BY <1>6, <1>7

LEMMA SuffixIs ==
    ASSUME NEW S, NEW s \in Seq(S), NEW t \in 0 .. Len(s)
    PROVE  /\ SubSeq(s, t + 1, Len(s)) \in Seq(S)
           /\ t < Len(s) => /\ SubSeq(s, t + 1, Len(s)) # << >>
                            /\ Head(SubSeq(s, t + 1, Len(s))) = s[t + 1]
                            /\ Tail(SubSeq(s, t + 1, Len(s))) = SubSeq(s, (t + 1) + 1, Len(s))
  <1> DEFINE n == Len(s)
             a == SubSeq(s, t + 1, n)
             b == SubSeq(s, (t + 1) + 1, n)
  <1>1. n \in Nat /\ t \in Nat /\ t <= n
    OBVIOUS
  <1>2. a \in Seq(S) /\ Len(a) = n - t /\ \A i \in 1 .. n - t : a[i] = s[t + i]
    <2>1. a = [i \in 1 .. n - t |-> s[t + i]]
      BY <1>1
    <2>2. \A i \in 1 .. n - t : s[t + i] \in S
      BY <1>1
    <2> HIDE DEF a, n
    <2> QED BY <1>1, <2>1, <2>2
  <1> SUFFICES ASSUME t < n PROVE a # << >> /\ Head(a) = s[t + 1] /\ Tail(a) = b
    BY <1>2
  <1>3. Len(b) = n - (t + 1) /\ b \in Seq(S) /\ \A i \in 1 .. n - (t + 1) : b[i] = s[(t + 1) + i]
    <2>1. b = [i \in 1 .. n - (t + 1) |-> s[(t + 1) + i]]
      BY <1>1
    <2>2. \A i \in 1 .. n - (t + 1) : s[(t + 1) + i] \in S
      BY <1>1
    <2> HIDE DEF b, n
    <2> QED BY <1>1, <2>1, <2>2
  <1> HIDE DEF a, b, n
  <1>4. a # << >> /\ Head(a) = s[t + 1]
    BY <1>1, <1>2
  <1>5. /\ Tail(a) \in Seq(S) /\ Len(Tail(a)) = n - (t + 1)
        /\ \A i \in 1 .. n - (t + 1) : Tail(a)[i] = a[i + 1]
    BY <1>1, <1>2, <1>4
  <1>6. \A i \in 1 .. n - (t + 1) : Tail(a)[i] = b[i]
    BY <1>1, <1>2, <1>3, <1>5
  <1>7. Tail(a) = b
    BY <1>3, <1>5, <1>6, SeqEqual
  <1> QED BY <1>4, <1>7 DEF n

LEMMA WholeSuffix ==
    ASSUME NEW S, NEW s \in Seq(S)
    PROVE  SubSeq(s, 0 + 1, Len(s)) = s
  OBVIOUS

TextMarks(format) == {k \in 1 .. Len(format) : format[k] = "%s"}
NumberMarks(format) == {k \in 1 .. Len(format) : format[k] \in Conversions \ {"%s"}}

LEMMA CountsAre ==
    ASSUME NEW format \in Texts, NEW i \in 0 .. Len(format)
    PROVE  /\ TextsTo(format, i) = Cardinality(Marked(TextMarks(format), i))
           /\ NumbersTo(format, i) = Cardinality(Marked(NumberMarks(format), i))
  <1>1. \A k \in 1 .. i : k \in 1 .. Len(format)
    BY DEF Texts
  <1>2. {k \in 1 .. i : format[k] = "%s"} = Marked(TextMarks(format), i)
    BY <1>1 DEF Marked, TextMarks
  <1>3. {k \in 1 .. i : format[k] \in Conversions \ {"%s"}} = Marked(NumberMarks(format), i)
    BY <1>1 DEF Marked, NumberMarks
  <1> QED BY <1>2, <1>3 DEF TextsTo, NumbersTo

(* The counts at each unit of a format that is given what it needs.        *)
LEMMA CountsStep ==
    ASSUME NEW format \in Texts, NEW k \in 1 .. Len(format)
    PROVE  /\ TextsTo(format, 0) = 0 /\ NumbersTo(format, 0) = 0
           /\ TextsTo(format, k - 1) \in Nat /\ NumbersTo(format, k - 1) \in Nat
           /\ TextsTo(format, k) =
                  TextsTo(format, k - 1) + (IF format[k] = "%s" THEN 1 ELSE 0)
           /\ NumbersTo(format, k) =
                  NumbersTo(format, k - 1) + (IF format[k] \in Conversions \ {"%s"} THEN 1 ELSE 0)
           /\ TextsTo(format, k) <= TextsTo(format, Len(format))
           /\ NumbersTo(format, k) <= NumbersTo(format, Len(format))
  <1> DEFINE i == k - 1
             n == Len(format)
  <1>1. i \in Nat /\ n \in Nat /\ k \in Nat /\ i + 1 = k /\ k <= n
        /\ i \in 0 .. n /\ k \in 0 .. n /\ 0 \in 0 .. n /\ n \in 0 .. n
    BY DEF Texts
  <1>2. (k \in TextMarks(format) <=> format[k] = "%s")
        /\ (k \in NumberMarks(format) <=> format[k] \in Conversions \ {"%s"})
    BY DEF TextMarks, NumberMarks
  <1> HIDE DEF i, n
  <1>3. \A marks : /\ Cardinality(Marked(marks, 0)) = 0
                   /\ Cardinality(Marked(marks, i)) \in Nat
                   /\ Cardinality(Marked(marks, i + 1)) =
                          Cardinality(Marked(marks, i)) + (IF i + 1 \in marks THEN 1 ELSE 0)
                   /\ Cardinality(Marked(marks, k)) <= Cardinality(Marked(marks, n))
    BY <1>1, Counted
  <1>4. \A j \in 0 .. n : /\ TextsTo(format, j) = Cardinality(Marked(TextMarks(format), j))
                          /\ NumbersTo(format, j) = Cardinality(Marked(NumberMarks(format), j))
    BY CountsAre DEF n
  <1>5. /\ TextsTo(format, 0) = 0 /\ NumbersTo(format, 0) = 0
        /\ TextsTo(format, i) \in Nat /\ NumbersTo(format, i) \in Nat
        /\ TextsTo(format, k) = TextsTo(format, i) + (IF k \in TextMarks(format) THEN 1 ELSE 0)
        /\ NumbersTo(format, k) =
               NumbersTo(format, i) + (IF k \in NumberMarks(format) THEN 1 ELSE 0)
        /\ TextsTo(format, k) <= TextsTo(format, n)
        /\ NumbersTo(format, k) <= NumbersTo(format, n)
    BY <1>1, <1>3, <1>4
  <1> QED BY <1>2, <1>5 DEF i, n

(* What is left of the arguments when k units of the format have been met. *)
Left(format, args, k) ==
    [texts |-> SubSeq(args.texts, TextsTo(format, k) + 1, Len(args.texts)),
     numbers |-> SubSeq(args.numbers, NumbersTo(format, k) + 1, Len(args.numbers))]

Enough(format, args) == /\ TextsTo(format, Len(format)) = Len(args.texts)
                        /\ NumbersTo(format, Len(format)) = Len(args.numbers)

LEMMA LeftFirst ==
    ASSUME NEW format \in Texts, NEW args \in ArgLists
    PROVE  Left(format, args, 0) = args
  <1>1. args.texts \in Seq(Texts) /\ args.numbers \in Seq(Unsigned)
    BY Zenon DEF ArgLists
  <1>2. TextsTo(format, 0) = 0 /\ NumbersTo(format, 0) = 0
    <2>1. 0 \in Nat /\ 0 \in 0 .. Len(format)
      BY DEF Texts
    <2> QED BY <2>1, CountsAre, Counted
  <1>3. /\ SubSeq(args.texts, 0 + 1, Len(args.texts)) = args.texts
        /\ SubSeq(args.numbers, 0 + 1, Len(args.numbers)) = args.numbers
    BY <1>1, WholeSuffix
  <1>4. args = [texts |-> args.texts, numbers |-> args.numbers]
    BY Zenon DEF ArgLists
  <1> QED BY <1>2, <1>3, <1>4, Zenon DEF Left

LEMMA RemainingIs ==
    ASSUME NEW format \in Texts, NEW args \in ArgLists, Enough(format, args),
           NEW k \in 1 .. Len(format)
    PROVE  LET left == Left(format, args, k - 1) IN
           /\ left \in ArgLists
           /\ format[k] = "%s" => left.texts # << >>
           /\ format[k] \in Conversions \ {"%s"} => left.numbers # << >>
           /\ Remaining(format[k], left) = Left(format, args, k)
           /\ Means(format[k], left) = Replaced(format, args, k)
  <1> DEFINE t == TextsTo(format, k - 1)
             u == NumbersTo(format, k - 1)
             texts == args.texts
             numbers == args.numbers
             lt == SubSeq(texts, t + 1, Len(texts))
             ln == SubSeq(numbers, u + 1, Len(numbers))
             left == Left(format, args, k - 1)
             unit == format[k]
             isText == IF unit = "%s" THEN 1 ELSE 0
             isNumber == IF unit \in Conversions \ {"%s"} THEN 1 ELSE 0
  <1> SUFFICES /\ left \in ArgLists
               /\ unit = "%s" => left.texts # << >>
               /\ unit \in Conversions \ {"%s"} => left.numbers # << >>
               /\ Remaining(unit, left) = Left(format, args, k)
               /\ Means(unit, left) = Replaced(format, args, k)
    OBVIOUS
  <1>1. texts \in Seq(Texts) /\ numbers \in Seq(Unsigned)
    BY Zenon DEF ArgLists
  <1>2. /\ t \in Nat /\ u \in Nat
        /\ TextsTo(format, k) = t + isText /\ NumbersTo(format, k) = u + isNumber
        /\ TextsTo(format, k) <= Len(texts) /\ NumbersTo(format, k) <= Len(numbers)
    BY CountsStep DEF Enough
  <1>3. left = [texts |-> lt, numbers |-> ln]
    BY DEF Left
  <1>4. /\ Left(format, args, k).texts = SubSeq(texts, (t + isText) + 1, Len(texts))
        /\ Left(format, args, k).numbers = SubSeq(numbers, (u + isNumber) + 1, Len(numbers))
        /\ Left(format, args, k) = [texts |-> Left(format, args, k).texts,
                                    numbers |-> Left(format, args, k).numbers]
    BY <1>2 DEF Left
  <1> HIDE DEF t, u, texts, numbers, left, lt, ln
  <1>5. /\ lt \in Seq(Texts) /\ ln \in Seq(Unsigned)
        /\ t < Len(texts) => /\ lt # << >> /\ Head(lt) = texts[t + 1]
                             /\ Tail(lt) = SubSeq(texts, (t + 1) + 1, Len(texts))
        /\ u < Len(numbers) => /\ ln # << >> /\ Head(ln) = numbers[u + 1]
                               /\ Tail(ln) = SubSeq(numbers, (u + 1) + 1, Len(numbers))
    <2>1. t \in 0 .. Len(texts) /\ u \in 0 .. Len(numbers)
      BY <1>1, <1>2
    <2> QED BY <1>1, <2>1, SuffixIs DEF lt, ln
  <1>6. left \in ArgLists /\ left.texts = lt /\ left.numbers = ln
    BY <1>3, <1>5 DEF ArgLists
  <1>7. CASE unit = "%s"
    <2>1. unit \in Conversions /\ isText = 1 /\ isNumber = 0
      BY <1>7 DEF Conversions
    <2>2. t < Len(texts)
      BY <1>1, <1>2, <2>1
    <2>3. Remaining(unit, left) = [texts |-> Tail(lt), numbers |-> ln]
      BY <1>3, <1>7, <2>1 DEF Remaining, Rest
    <2>4. Left(format, args, k) = [texts |-> Tail(lt), numbers |-> ln]
      <3>1. Left(format, args, k).numbers = ln
        <4>1. (u + isNumber) + 1 = u + 1
          BY <1>2, <2>1
        <4> QED BY <1>4, <4>1, Zenon DEF ln
      <3>2. Left(format, args, k).texts = Tail(lt)
        BY <1>4, <1>5, <2>1, <2>2
      <3> QED BY <1>4, <3>1, <3>2
    <2>5. Replaced(format, args, k) = texts[t + 1]
      BY <1>2, <1>7, <2>1 DEF Replaced, texts
    <2>6. Means(unit, left) = Head(lt)
      BY <1>6, <1>7 DEF Means
    <2> QED BY <1>5, <1>6, <1>7, <2>2, <2>3, <2>4, <2>5, <2>6
  <1>8. CASE unit \in Conversions \ {"%s"}
    <2>1. unit \in Conversions /\ isText = 0 /\ isNumber = 1 /\ unit # "%s"
      BY <1>8
    <2>2. u < Len(numbers)
      BY <1>1, <1>2, <2>1
    <2>3. Remaining(unit, left) = [texts |-> lt, numbers |-> Tail(ln)]
      BY <1>3, <2>1 DEF Remaining, Rest
    <2>4. Left(format, args, k) = [texts |-> lt, numbers |-> Tail(ln)]
      <3>1. Left(format, args, k).texts = lt
        <4>1. (t + isText) + 1 = t + 1
          BY <1>2, <2>1
        <4> QED BY <1>4, <4>1, Zenon DEF lt
      <3>2. Left(format, args, k).numbers = Tail(ln)
        BY <1>4, <1>5, <2>1, <2>2
      <3> QED BY <1>4, <3>1, <3>2
    <2>5. NumbersTo(format, k) = u + 1 /\ Head(ln) = numbers[u + 1]
      BY <1>2, <1>5, <2>1, <2>2
    <2>6. unit = "%u" \/ unit = "%04X"
      BY <1>8 DEF Conversions
    <2>7. Means(unit, left) = Replaced(format, args, k)
      <3>1. CASE unit = "%u"
        <4>1. Replaced(format, args, k) = Numeral(numbers[u + 1], 10, 1)
          BY <2>5, <3>1 DEF Replaced, numbers
        <4>2. Means(unit, left) = Numeral(Head(ln), 10, 1)
          BY <1>6, <3>1 DEF Means
        <4> QED BY <2>5, <4>1, <4>2
      <3>2. CASE unit = "%04X"
        <4>1. Replaced(format, args, k) = Numeral(numbers[u + 1], 16, 4)
          BY <2>5, <3>2 DEF Replaced, numbers
        <4>2. Means(unit, left) = Numeral(Head(ln), 16, 4)
          BY <1>6, <3>2 DEF Means
        <4> QED BY <2>5, <4>1, <4>2
      <3> QED BY <2>6, <3>1, <3>2
    <2> QED BY <1>5, <1>6, <2>1, <2>2, <2>3, <2>4, <2>7
  <1>9. CASE unit \notin Conversions
    <2>1. isText = 0 /\ isNumber = 0 /\ unit # "%s" /\ unit # "%u" /\ unit # "%04X"
      BY <1>9 DEF Conversions
    <2>2. Left(format, args, k) = left
      <3>1. (t + isText) + 1 = t + 1 /\ (u + isNumber) + 1 = u + 1
        BY <1>2, <2>1
      <3> QED BY <1>3, <1>4, <3>1, Zenon DEF lt, ln
    <2>3. Remaining(unit, left) = left
      BY <1>9 DEF Remaining
    <2>4. Means(unit, left) = <<unit>> /\ Replaced(format, args, k) = <<unit>>
      BY <2>1 DEF Means, Replaced
    <2> QED BY <1>6, <1>9, <2>1, <2>2, <2>3, <2>4
  <1> QED BY <1>7, <1>8, <1>9

(* The text a format stands for, and the units met one by one.             *)
Pieces(format, args) == [i \in 1 .. Len(format) |-> Replaced(format, args, i)]
Begun(args) == [writes |-> << >>, chunk |-> << >>, args |-> args]

MetUpTo(met, format, args) ==
    met = [k \in 0 .. Len(format) |->
              IF k = 0 THEN Begun(args) ELSE Met(met[k - 1], format[k])]

LEMMA BegunIs ==
    ASSUME NEW args \in ArgLists
    PROVE  Begun(args) \in Accs /\ Said(Begun(args)) = << >> /\ Begun(args).args = args
  <1>1. << >> \in Seq(Writes) /\ << >> \in Texts
    BY DEF Texts
  <1>2. /\ Begun(args).writes = << >> /\ Begun(args).chunk = << >> /\ Begun(args).args = args
        /\ Begun(args) \in Accs
    BY <1>1 DEF Begun, Accs
  <1>3. Said(Begun(args)) = << >> \o << >>
    BY <1>2, WrittenNone DEF Said
  <1> QED BY <1>2, <1>3

LEMMA PiecesType ==
    ASSUME NEW format \in Texts, NEW args \in ArgLists, Enough(format, args)
    PROVE  /\ Pieces(format, args) \in Seq(Texts) /\ Len(Pieces(format, args)) = Len(format)
           /\ \A k \in 1 .. Len(format) : Pieces(format, args)[k] = Replaced(format, args, k)
  <1>1. ASSUME NEW k \in 1 .. Len(format) PROVE Replaced(format, args, k) \in Texts
    <2> DEFINE left == Left(format, args, k - 1)
    <2>1. /\ left \in ArgLists
          /\ format[k] = "%s" => left.texts # << >>
          /\ format[k] \in Conversions \ {"%s"} => left.numbers # << >>
          /\ Means(format[k], left) = Replaced(format, args, k)
      BY RemainingIs
    <2>2. format[k] \in Units
      BY DEF Texts
    <2> DEFINE acc == Begun(left)
    <2>3. acc \in Accs /\ acc.args = left
      BY <2>1, BegunIs
    <2> HIDE DEF left, acc
    <2>4. Means(format[k], acc.args) \in Texts
      BY <2>1, <2>2, <2>3, MetIsSaid
    <2> QED BY <2>1, <2>3, <2>4
  <1>2. Len(format) \in Nat
    BY DEF Texts
  <1> HIDE DEF Texts
  <1> QED BY <1>1, <1>2 DEF Pieces

LEMMA PiecesMore ==
    ASSUME NEW pieces \in Seq(Texts), NEW k \in 1 .. Len(pieces)
    PROVE  /\ FlattenSeq(SubSeq(pieces, 1, k - 1)) \in Texts
           /\ FlattenSeq(SubSeq(pieces, 1, k)) =
                  FlattenSeq(SubSeq(pieces, 1, k - 1)) \o pieces[k]
  <1>1. /\ SubSeq(pieces, 1, k) = Append(SubSeq(pieces, 1, k - 1), pieces[k])
        /\ SubSeq(pieces, 1, k - 1) \in Seq(Texts) /\ pieces[k] \in Texts
    <2> HIDE DEF Texts
    <2> QED OBVIOUS
  <1>2. FlattenSeq(SubSeq(pieces, 1, k - 1)) \in Texts
    BY <1>1, FlattenType DEF Texts
  <1>3. FlattenSeq(Append(SubSeq(pieces, 1, k - 1), pieces[k])) =
            FlattenSeq(SubSeq(pieces, 1, k - 1)) \o pieces[k]
    BY <1>1, FlattenAppend DEF Texts
  <1> QED BY <1>1, <1>2, <1>3

LEMMA PiecesWhole ==
    ASSUME NEW pieces \in Seq(Texts)
    PROVE  /\ FlattenSeq(SubSeq(pieces, 1, 0)) = << >>
           /\ SubSeq(pieces, 1, Len(pieces)) = pieces
  <1>1. SubSeq(pieces, 1, 0) = << >> /\ SubSeq(pieces, 1, Len(pieces)) = pieces
    <2> HIDE DEF Texts
    <2> QED OBVIOUS
  <1> QED BY <1>1, FlattenNone

(* What is true of the loop of Writer_vformat each time round.             *)
MetRight(format, args, k, acc) ==
    /\ acc \in Accs /\ acc.args = Left(format, args, k)
    /\ Said(acc) = FlattenSeq(SubSeq(Pieces(format, args), 1, k))

LEMMA MetRightBegins ==
    ASSUME NEW format \in Texts, NEW args \in ArgLists, Enough(format, args)
    PROVE  MetRight(format, args, 0, Begun(args))
  <1>1. Begun(args) \in Accs /\ Said(Begun(args)) = << >> /\ Begun(args).args = args
    BY BegunIs
  <1>2. Left(format, args, 0) = args
    BY LeftFirst
  <1>3. FlattenSeq(SubSeq(Pieces(format, args), 1, 0)) = << >>
    BY PiecesType, PiecesWhole
  <1> QED BY <1>1, <1>2, <1>3, Zenon DEF MetRight

LEMMA MetRightGoesOn ==
    ASSUME NEW format \in Texts, NEW args \in ArgLists, Enough(format, args),
           NEW k \in 1 .. Len(format), NEW acc, MetRight(format, args, k - 1, acc)
    PROVE  MetRight(format, args, k, Met(acc, format[k]))
  <1> DEFINE left == Left(format, args, k - 1)
             unit == format[k]
             next == Met(acc, unit)
  <1>1. /\ acc \in Accs /\ acc.args = left
        /\ Said(acc) = FlattenSeq(SubSeq(Pieces(format, args), 1, k - 1))
    BY Zenon DEF MetRight
  <1>2. /\ unit = "%s" => left.texts # << >>
        /\ unit \in Conversions \ {"%s"} => left.numbers # << >>
        /\ Remaining(unit, left) = Left(format, args, k)
        /\ Means(unit, left) = Replaced(format, args, k)
    BY RemainingIs
  <1>3. unit \in Units
    BY DEF Texts
  <1> HIDE DEF left, unit
  <1>4. /\ next \in Accs /\ next.args = Remaining(unit, left)
        /\ Said(next) = Said(acc) \o Means(unit, left)
    BY <1>1, <1>2, <1>3, MetIsSaid
  <1>5. /\ Pieces(format, args) \in Seq(Texts) /\ k \in 1 .. Len(Pieces(format, args))
        /\ Pieces(format, args)[k] = Replaced(format, args, k)
    BY PiecesType
  <1>6. FlattenSeq(SubSeq(Pieces(format, args), 1, k)) =
            FlattenSeq(SubSeq(Pieces(format, args), 1, k - 1)) \o Replaced(format, args, k)
    BY <1>5, PiecesMore
  <1> HIDE DEF next
  <1>7. MetRight(format, args, k, next)
    BY <1>1, <1>2, <1>4, <1>6, Zenon DEF MetRight
  <1> QED BY <1>7 DEF next, unit

LEMMA MetExists ==
    ASSUME NEW format \in Texts, NEW args \in ArgLists, Enough(format, args)
    PROVE  \E met : MetUpTo(met, format, args)
  <1> DEFINE n == Len(format)
             step == [p \in Nat \X Accs |->
                         IF p[1] \in 1 .. n /\ Met(p[2], format[p[1]]) \in Accs
                         THEN Met(p[2], format[p[1]]) ELSE p[2]]
             begun == Begun(args)
  <1>1. n \in Nat /\ 0 <= n /\ 0 \in Nat
    BY DEF Texts
  <1>2. step \in [Nat \X Accs -> Accs]
    <2> HIDE DEF n
    <2> QED OBVIOUS
  <1>3. MetRight(format, args, 0, begun)
    BY MetRightBegins
  <1>4. begun \in Accs
    BY <1>3, Zenon DEF MetRight
  <1>5. \A k \in 1 .. n, acc \in Accs :
            Met(acc, format[k]) \in Accs => step[<<k, acc>>] = Met(acc, format[k])
    <2>1. \A k \in 1 .. n : k \in Nat
      OBVIOUS
    <2> HIDE DEF n
    <2> QED BY <2>1
  <1> HIDE DEF n, step, begun
  <1>6. PICK f \in [0 .. n -> Accs] : Follows(f, 0, n, begun, step)
    BY <1>1, <1>2, <1>4, StepsExist
  <1>7. f[0] = begun /\ \A k \in 1 .. n : f[k] = step[<<k, f[k - 1]>>]
    <2>1. 0 + 1 = 1
      OBVIOUS
    <2> QED BY <1>6, <2>1, Zenon DEF Follows
  <1> DEFINE T == {k \in 0 .. n : /\ MetRight(format, args, k, f[k])
                                  /\ k > 0 => f[k] = Met(f[k - 1], format[k])}
  <1>8. 0 \in T
    BY <1>1, <1>3, <1>7
  <1>9. ASSUME NEW k \in 0 + 1 .. n, k - 1 \in T PROVE k \in T
    <2>1. k \in 1 .. n /\ k - 1 \in 0 .. n /\ k \in 0 .. n
      BY <1>1
    <2>2. MetRight(format, args, k - 1, f[k - 1])
      BY <1>9
    <2>3. MetRight(format, args, k, Met(f[k - 1], format[k]))
      BY <2>1, <2>2, MetRightGoesOn DEF n
    <2>4. Met(f[k - 1], format[k]) \in Accs
      BY <2>3, Zenon DEF MetRight
    <2>5. f[k] = Met(f[k - 1], format[k])
      BY <1>5, <1>6, <1>7, <2>1, <2>4
    <2> QED BY <2>1, <2>3, <2>5
  <1> HIDE DEF T
  <1>10. \A k \in 0 .. n : k \in T
    BY <1>1, <1>8, <1>9, UpTo
  <1>11. \A k \in 0 .. n : k > 0 => f[k] = Met(f[k - 1], format[k])
    BY <1>10 DEF T
  <1>12. \A k \in 0 .. n : f[k] = IF k = 0 THEN begun ELSE Met(f[k - 1], format[k])
    BY <1>7, <1>11
  <1>13. f = [k \in 0 .. n |-> IF k = 0 THEN begun ELSE Met(f[k - 1], format[k])]
    BY <1>6, <1>12
  <1>14. MetUpTo(f, format, args)
    BY <1>13, Zenon DEF MetUpTo, begun, n
  <1> QED BY <1>14

LEMMA MetAllRight ==
    ASSUME NEW format \in Texts, NEW args \in ArgLists, Enough(format, args),
           NEW met, MetUpTo(met, format, args)
    PROVE  /\ met[Len(format)] \in Accs
           /\ Said(met[Len(format)]) = FlattenSeq(Pieces(format, args))
  <1> DEFINE n == Len(format)
             T == {k \in 0 .. n : MetRight(format, args, k, met[k])}
  <1>1. n \in Nat /\ 0 \in Nat /\ n \in 0 .. n /\ 0 \in 0 .. n
    BY DEF Texts
  <1>2. \A k \in 0 .. n : met[k] = IF k = 0 THEN Begun(args) ELSE Met(met[k - 1], format[k])
    BY Zenon DEF MetUpTo
  <1>3. 0 \in T
    BY <1>1, <1>2, MetRightBegins
  <1>4. ASSUME NEW k \in 0 + 1 .. n, k - 1 \in T PROVE k \in T
    <2>1. k \in 1 .. n /\ k \in 0 .. n /\ k # 0
      BY <1>1
    <2>2. MetRight(format, args, k - 1, met[k - 1])
      BY <1>4
    <2>3. MetRight(format, args, k, Met(met[k - 1], format[k]))
      BY <2>1, <2>2, MetRightGoesOn
    <2>4. met[k] = Met(met[k - 1], format[k])
      BY <1>2, <2>1
    <2> QED BY <2>1, <2>3, <2>4
  <1> HIDE DEF T
  <1>5. \A k \in 0 .. n : k \in T
    BY <1>1, <1>3, <1>4, UpTo
  <1>6. MetRight(format, args, n, met[n])
    BY <1>1, <1>5 DEF T
  <1>7. SubSeq(Pieces(format, args), 1, n) = Pieces(format, args)
    BY PiecesType, PiecesWhole
  <1> QED BY <1>6, <1>7, Zenon DEF MetRight

LEMMA FormattedIs ==
    ASSUME NEW format \in Texts, NEW args \in ArgLists, Enough(format, args)
    PROVE  /\ Formatted(format, args) \in Seq(Writes)
           /\ Written(Formatted(format, args)) = FlattenSeq(Pieces(format, args))
           /\ FlattenSeq(Pieces(format, args)) \in Texts
  <1> DEFINE met == CHOOSE g : MetUpTo(g, format, args)
             end == met[Len(format)]
             last == Chunk(end.chunk, "last")
  <1>1. MetUpTo(met, format, args)
    BY MetExists, Zenon
  <1>2. Formatted(format, args) = end.writes \o last
    BY Zenon DEF Formatted, MetUpTo, Begun, Met
  <1> HIDE DEF met
  <1>3. end \in Accs /\ Said(end) = FlattenSeq(Pieces(format, args))
    BY <1>1, MetAllRight
  <1> HIDE DEF end
  <1>4. end.writes \in Seq(Writes) /\ end.chunk \in Texts /\ Said(end) \in Texts
    BY <1>3, AccsType
  <1>5. last \in Seq(Writes) /\ Written(last) = end.chunk
    BY <1>4, ChunkIs DEF Parts
  <1> HIDE DEF last
  <1>6. Written(end.writes \o last) = Written(end.writes) \o end.chunk
    BY <1>4, <1>5, WrittenConcat
  <1> QED BY <1>2, <1>3, <1>4, <1>5, <1>6 DEF Said

(* A call of the Writer writes what it means.                              *)
LEMMA CallMeans ==
    ASSUME NEW c \in Calls(Units)
    PROVE  /\ WritesOf(c) \in Seq(Writes) /\ Meaning(c) \in Texts
           /\ Written(WritesOf(c)) = Meaning(c)
  <1>1. /\ c.call \in {"str", "uint", "format"} /\ c.format \in Texts
        /\ c.args \in [texts : Seq(Seq(Units)), numbers : Seq(Unsigned)] /\ Supplied(c)
    BY Zenon DEF Calls, Texts
  <1>2. c.args \in ArgLists
    BY <1>1 DEF ArgLists, Texts
  <1>3. c.args.numbers \in Seq(Unsigned)
    BY <1>2, Zenon DEF ArgLists
  <1>4. CASE c.call = "str"
    <2>1. WritesOf(c) = <<Write(c.format, "chunk")>> /\ Meaning(c) = c.format
      BY <1>4 DEF WritesOf, Meaning
    <2>2. "chunk" \in Parts
      BY DEF Parts
    <2> QED BY <1>1, <2>1, <2>2, WriteIs
  <1>5. CASE c.call = "uint"
    <2> DEFINE v == c.args.numbers[1]
    <2>1. WritesOf(c) = Printed(v, 10, 0) /\ Meaning(c) = Numeral(v, 10, 1)
      BY <1>5 DEF WritesOf, Meaning
    <2>2. v \in Unsigned
      <3>1. c.args.numbers # << >>
        BY <1>1, <1>5 DEF Supplied
      <3> QED BY <1>3, <3>1
    <2>3. 10 \in {10, 16} /\ 0 \in 0 .. 4 /\ 1 = IF 0 = 0 THEN 1 ELSE 0
      OBVIOUS
    <2> HIDE DEF v
    <2>4. /\ Printed(v, 10, 0) \in Seq(Writes)
          /\ Written(Printed(v, 10, 0)) = Numeral(v, 10, 1)
          /\ Numeral(v, 10, 1) \in Texts
      BY <2>2, <2>3, PrintedIs, Zenon
    <2> QED BY <2>1, <2>4
  <1>6. CASE c.call = "format"
    <2>1. WritesOf(c) = Formatted(c.format, c.args)
      BY <1>6 DEF WritesOf
    <2>2. Meaning(c) = FlattenSeq(Pieces(c.format, c.args))
      BY <1>6 DEF Meaning, Pieces
    <2>3. Enough(c.format, c.args)
      BY <1>1, <1>6 DEF Supplied, Enough
    <2> QED BY <1>1, <1>2, <2>1, <2>2, <2>3, FormattedIs
  <1> QED BY <1>1, <1>4, <1>5, <1>6

-----------------------------------------------------------------------------
(* What is reported of the first character of a file.                      *)
LEMMA DecodedType ==
    ASSUME NEW data \in Seq(0 .. 255)
    PROVE  LET ch == utf8_decode(data, 1).ch IN ch \in {U_EOF, U_BAD} \/ ch \in Unsigned
  <1> DEFINE d == utf8_decode(data, 1)
             length == lengths(data[1])
             c == Assembled(data, 1, length)
  <1>1. CASE Len(data) = 0
    BY <1>1 DEF utf8_decode
  <1>2. CASE Len(data) > 0
    <2> DEFINE good == /\ length \in 1 .. 4 /\ length <= Len(data)
                       /\ \A i \in 2 .. length : data[i] \in 128 .. 191
    <2>1. d.ch = U_BAD \/ (good /\ ~Refused(length, c) /\ d.ch = c)
      BY <1>2, DecodeIs
    <2>2. good => length \in 1 .. 4 /\ Looks(data, length)
      BY DEF Looks
    <2> HIDE DEF c, good, length, d
    <2>3. ASSUME good, ~Refused(length, c) PROVE c \in Unsigned
      <3>1. length \in 1 .. 4 /\ Looks(data, length)
        BY <2>2, <2>3
      <3>2. /\ c \in Nat
            /\ length = 1 => c < 128
            /\ length = 2 => c < 2048
            /\ length = 3 => c < 65536
        BY <3>1, AssembledForm DEF c
      <3>3. length = 4 => c <= 1114111
        BY <2>3, <3>2, SMT DEF Refused
      <3>4. c <= 1114111
        BY <3>1, <3>2, <3>3, SMT
      <3>5. ((c \div 65536) \div 65536) \div 65536 < 65536
        BY <3>2, <3>4, SMT
      <3> QED BY <3>2, <3>5, SMT DEF Unsigned
    <2> QED BY <2>1, <2>3 DEF d
  <1>3. Len(data) \in Nat
    OBVIOUS
  <1> QED BY <1>1, <1>2, <1>3

LEMMA StrIs ==
    ASSUME NEW text \in Texts
    PROVE  Str(text) \in Calls(Units) /\ Meaning(Str(text)) = text
  <1>1. /\ << >> \in Seq(Texts) /\ << >> \in Seq(Unsigned)
    OBVIOUS
  <1> DEFINE c == Str(text)
  <1>2. c \in [call : {"str", "uint", "format"}, format : Seq(Units),
               args : [texts : Seq(Seq(Units)), numbers : Seq(Unsigned)]]
    BY <1>1 DEF Str, Args, Texts
  <1>3. c.call = "str" /\ c.format = text
    BY DEF Str
  <1> HIDE DEF c
  <1>4. c \in Calls(Units)
    BY <1>2, <1>3 DEF Calls, Supplied
  <1> QED BY <1>3, <1>4 DEF Meaning, c

LEMMA UnexpectedIs ==
    ASSUME NEW ch \in Unsigned
    PROVE  Format(<<"unexpected character U+", "%04X">>, << >>, <<ch>>) \in Calls(Units)
  <1> DEFINE format == <<"unexpected character U+", "%04X">>
             c == Format(format, << >>, <<ch>>)
  <1>1. format \in Seq(Units) /\ Len(format) = 2
        /\ format[1] = "unexpected character U+" /\ format[2] = "%04X"
    BY DEF Units
  <1>0. << >> \in Seq(Seq(Units)) /\ <<ch>> \in Seq(Unsigned)
    OBVIOUS
  <1> HIDE DEF format
  <1>2. c \in [call : {"str", "uint", "format"}, format : Seq(Units),
               args : [texts : Seq(Seq(Units)), numbers : Seq(Unsigned)]]
    BY <1>0, <1>1 DEF Format, Args
  <1>3. c.call = "format" /\ c.format = format /\ c.args.texts = << >> /\ c.args.numbers = <<ch>>
    BY DEF Format, Args
  <1>4. format \in Texts
    BY <1>1 DEF Texts
  <1> HIDE DEF c
  <1>5. TextsTo(format, 2) = 0 /\ NumbersTo(format, 2) = 1
    <2>0. Len(format) = 2
      BY <1>1
    <2>1. 1 \in 1 .. Len(format) /\ 2 \in 1 .. Len(format) /\ 2 - 1 = 1 /\ 1 - 1 = 0
      BY <2>0
    <2>2. /\ TextsTo(format, 0) = 0 /\ NumbersTo(format, 0) = 0
          /\ TextsTo(format, 1) = TextsTo(format, 0) + (IF format[1] = "%s" THEN 1 ELSE 0)
          /\ NumbersTo(format, 1) =
                 NumbersTo(format, 0) + (IF format[1] \in Conversions \ {"%s"} THEN 1 ELSE 0)
      BY <1>4, <2>1, CountsStep
    <2>3. /\ TextsTo(format, 2) = TextsTo(format, 1) + (IF format[2] = "%s" THEN 1 ELSE 0)
          /\ NumbersTo(format, 2) =
                 NumbersTo(format, 1) + (IF format[2] \in Conversions \ {"%s"} THEN 1 ELSE 0)
      BY <1>4, <2>1, CountsStep
    <2>4. /\ format[1] # "%s" /\ format[1] \notin Conversions \ {"%s"}
          /\ format[2] # "%s" /\ format[2] \in Conversions \ {"%s"}
      BY <1>1 DEF Conversions
    <2> QED BY <2>2, <2>3, <2>4
  <1>6. Supplied(c)
    BY <1>1, <1>3, <1>5 DEF Supplied
  <1>7. c \in Calls(Units)
    BY <1>2, <1>6, Zenon DEF Calls
  <1> QED BY <1>7 DEF c, format

LEMMA DiagnosticIs ==
    ASSUME NEW source_name \in Texts, NEW c \in Calls(Units)
    PROVE  Diagnostic("Error", source_name, <<c>>) \in Diagnostics(Units)
  <1>1. <<c>> \in Seq(Calls(Units))
    OBVIOUS
  <1> QED BY <1>1 DEF Diagnostic, Diagnostics, Texts

LEMMA SeqMore ==
    ASSUME NEW S, NEW T, S \subseteq T
    PROVE  Seq(S) \subseteq Seq(T)
  <1> SUFFICES ASSUME NEW s \in Seq(S) PROVE s \in Seq(T)
    OBVIOUS
  <1>1. Len(s) \in Nat /\ s = [i \in 1 .. Len(s) |-> s[i]] /\ \A i \in 1 .. Len(s) : s[i] \in T
    OBVIOUS
  <1> QED BY <1>1

LEMMA SaidByName ==
    /\ path \in Texts /\ program_name \in Texts
    /\ Processes \subseteq Seq(Jobs(Units))
  <1>1. STRING \subseteq Units
    BY DEF Units
  <1>2. Seq(STRING) \subseteq Seq(Units)
    BY <1>1, SeqMore
  <1>3. Seq(Seq(STRING)) \subseteq Seq(Seq(Units))
    BY <1>2, SeqMore
  <1>4. Calls(STRING) \subseteq Calls(Units)
    BY <1>2, <1>3 DEF Calls
  <1>5. Seq(Calls(STRING)) \subseteq Seq(Calls(Units))
    BY <1>4, SeqMore
  <1>6. Jobs(STRING) \subseteq Jobs(Units)
    BY <1>2, <1>5 DEF Jobs, Diagnostics
  <1>7. Seq(Jobs(STRING)) \subseteq Seq(Jobs(Units))
    BY <1>6, SeqMore
  <1> QED BY <1>2, <1>7, OutputAssumption DEF Texts

LEMMA LexedIs ==
    ASSUME NEW bytes \in Seq(0 .. 255)
    PROVE  Lexed(bytes) \in Seq(Jobs(Units))
  <1> DEFINE ch == utf8_decode(bytes, 1).ch
             bad == report_lex_error(path, "invalid UTF-8 encoding", "Error")
             unexpected == report_unexpected_character(path, ch, "Error")
  <1>1. ch \in {U_EOF, U_BAD} \/ ch \in Unsigned
    BY DecodedType
  <1>2. Lexed(bytes) = IF ch = U_EOF THEN << >> ELSE IF ch = U_BAD THEN <<bad>> ELSE <<unexpected>>
    BY Zenon DEF Lexed
  <1>3. bad \in Diagnostics(Units)
    <2>1. <<"invalid UTF-8 encoding">> \in Texts
      <3>1. "invalid UTF-8 encoding" \in Units
        BY Zenon DEF Units
      <3>2. \A u \in Units : <<u>> \in Texts
        BY DEF Texts
      <3> QED BY <3>1, <3>2, Zenon
    <2>2. Str(<<"invalid UTF-8 encoding">>) \in Calls(Units)
      BY <2>1, StrIs
    <2> QED BY <2>2, SaidByName, DiagnosticIs DEF report_lex_error
  <1> HIDE DEF ch
  <1>4. ch \in Unsigned => unexpected \in Diagnostics(Units)
    BY UnexpectedIs, SaidByName, DiagnosticIs DEF report_unexpected_character
  <1> HIDE DEF bad, unexpected
  <1>5. \A d \in Diagnostics(Units) : <<d>> \in Seq(Jobs(Units))
    <2>1. \A d \in Diagnostics(Units) : d \in Jobs(Units)
      BY Zenon DEF Jobs
    <2> QED BY <2>1
  <1>6. << >> \in Seq(Jobs(Units))
    OBVIOUS
  <1> QED BY <1>1, <1>2, <1>3, <1>4, <1>5, <1>6

-----------------------------------------------------------------------------
(* Messages and lines.                                                     *)
CallSeqs == Seq(Calls(Units))
Meanings(cs) == [i \in 1 .. Len(cs) |-> Meaning(cs[i])]

LEMMA MeaningsType ==
    ASSUME NEW cs \in CallSeqs
    PROVE  Meanings(cs) \in Seq(Texts) /\ Len(Meanings(cs)) = Len(cs)
  <1>1. \A i \in 1 .. Len(cs) : Meaning(cs[i]) \in Texts
    <2>1. \A i \in 1 .. Len(cs) : cs[i] \in Calls(Units)
      BY DEF CallSeqs
    <2> QED BY <2>1, CallMeans
  <1>2. Len(cs) \in Nat
    BY DEF CallSeqs
  <1> HIDE DEF Texts
  <1> QED BY <1>1, <1>2 DEF Meanings

LEMMA MessageType ==
    ASSUME NEW cs \in CallSeqs
    PROVE  Message(cs) \in Texts
  <1>1. FlattenSeq(Meanings(cs)) \in Texts
    BY MeaningsType, FlattenType DEF Texts
  <1> QED BY <1>1 DEF Message, Meanings

LEMMA MessageNone == << >> \in CallSeqs /\ Message(<< >>) = << >>
  <1>1. Meanings(<< >>) = << >>
    BY DEF Meanings
  <1> QED BY <1>1, FlattenNone DEF Message, Meanings, CallSeqs

LEMMA MessageConcat ==
    ASSUME NEW cs \in CallSeqs, NEW ds \in CallSeqs
    PROVE  cs \o ds \in CallSeqs /\ Message(cs \o ds) = Message(cs) \o Message(ds)
  <1>1. /\ Meanings(cs) \in Seq(Texts) /\ Len(Meanings(cs)) = Len(cs)
        /\ Meanings(ds) \in Seq(Texts) /\ Len(Meanings(ds)) = Len(ds)
    BY MeaningsType
  <1> DEFINE a == Meanings(cs)
             b == Meanings(ds)
             m == Len(cs)
             n == Len(ds)
  <1>2. m \in Nat /\ n \in Nat /\ cs \o ds \in CallSeqs /\ Len(cs \o ds) = m + n
    BY DEF CallSeqs
  <1>3. Meanings(cs \o ds) \in Seq(Texts) /\ Len(Meanings(cs \o ds)) = m + n
    BY <1>2, MeaningsType
  <1>4. ASSUME NEW i \in 1 .. m + n PROVE Meanings(cs \o ds)[i] = (a \o b)[i]
    <2>1. Meanings(cs \o ds)[i] = Meaning((cs \o ds)[i])
      BY <1>2 DEF Meanings
    <2>2. CASE i <= m
      <3>1. (cs \o ds)[i] = cs[i] /\ i \in 1 .. m
        BY <1>2, <2>2 DEF CallSeqs
      <3>2. a[i] = Meaning(cs[i])
        BY <3>1 DEF Meanings
      <3> HIDE DEF a, b
      <3>3. (a \o b)[i] = a[i]
        BY <1>1, <1>2, <3>1 DEF a, b
      <3> QED BY <2>1, <3>1, <3>2, <3>3
    <2>3. CASE i > m
      <3>1. (cs \o ds)[i] = ds[i - m] /\ i - m \in 1 .. n
        BY <1>2, <2>3 DEF CallSeqs
      <3>2. b[i - m] = Meaning(ds[i - m])
        BY <3>1 DEF Meanings
      <3>3. (a \o b)[i] = b[i - m]
        <4> HIDE DEF a, b, Texts
        <4> QED BY <1>1, <1>2, <2>3, <3>1 DEF a, b
      <3> QED BY <2>1, <3>1, <3>2, <3>3
    <2>4. i <= m \/ i > m
      <3>1. i \in Int
        BY <1>2
      <3> HIDE DEF m
      <3> QED BY <1>2, <3>1
    <2> QED BY <2>2, <2>3, <2>4
  <1>5. a \o b \in Seq(Texts) /\ Len(a \o b) = m + n
    <2> HIDE DEF a, b, Texts
    <2> QED BY <1>1, <1>2 DEF a, b
  <1> HIDE DEF a, b, m, n, Texts
  <1>6. Meanings(cs \o ds) = a \o b
    BY <1>3, <1>4, <1>5, SeqEqual
  <1>7. FlattenSeq(a \o b) = FlattenSeq(a) \o FlattenSeq(b)
    BY <1>1, FlattenConcat DEF a, b, Texts
  <1> QED BY <1>2, <1>6, <1>7 DEF Message, Meanings, a, b

LEMMA MessageOne ==
    ASSUME NEW c \in Calls(Units)
    PROVE  <<c>> \in CallSeqs /\ Message(<<c>>) = Meaning(c)
  <1>1. Meaning(c) \in Texts
    BY CallMeans
  <1>2. Meanings(<<c>>) = <<Meaning(c)>>
    BY DEF Meanings
  <1>3. FlattenSeq(<<Meaning(c)>>) = Meaning(c)
    BY <1>1, FlattenOne DEF Texts
  <1> QED BY <1>2, <1>3 DEF Message, Meanings, CallSeqs

LEMMA MessageCons ==
    ASSUME NEW cs \in CallSeqs, cs # << >>
    PROVE  /\ Head(cs) \in Calls(Units) /\ Tail(cs) \in CallSeqs
           /\ Message(cs) = Meaning(Head(cs)) \o Message(Tail(cs))
  <1>1. /\ Head(cs) \in Calls(Units) /\ Tail(cs) \in CallSeqs
        /\ cs = <<Head(cs)>> \o Tail(cs)
    BY DEF CallSeqs
  <1>2. <<Head(cs)>> \in CallSeqs /\ Message(<<Head(cs)>>) = Meaning(Head(cs))
    BY <1>1, MessageOne
  <1>3. Message(<<Head(cs)>> \o Tail(cs)) = Message(<<Head(cs)>>) \o Message(Tail(cs))
    BY <1>1, <1>2, MessageConcat
  <1> QED BY <1>1, <1>2, <1>3

LEMMA MessageSaid ==
    ASSUME NEW text \in Texts
    PROVE  <<Str(text)>> \in CallSeqs /\ Message(<<Str(text)>>) = text
  BY StrIs, MessageOne

JobSet == Jobs(Units)

LEMMA JobIs ==
    ASSUME NEW j \in JobSet
    PROVE  /\ j.calls \in CallSeqs
           /\ IsDiagnostic(j) => /\ j.level \in {"Ignore", "Info", "Warning", "Error"}
                                 /\ j.source_name \in Texts /\ j.line = 0 /\ j.column = 0
  <1>1. CASE j \in Diagnostics(Units)
    BY <1>1 DEF Diagnostics, CallSeqs, Texts
  <1>2. CASE j \in [calls : Seq(Calls(Units))]
    <2>1. ~IsDiagnostic(j)
      BY <1>2 DEF IsDiagnostic
    <2>2. j.calls \in CallSeqs
      BY <1>2, Zenon DEF CallSeqs
    <2> QED BY <2>1, <2>2
  <1> QED BY <1>1, <1>2 DEF JobSet, Jobs

(* How the two ways of putting a line together agree.                      *)
LEMMA ThreeTexts ==
    ASSUME NEW a \in Texts, NEW b \in Texts, NEW c \in Texts
    PROVE  /\ <<Str(a), Str(b), Str(c)>> \in CallSeqs
           /\ Message(<<Str(a), Str(b), Str(c)>>) = (a \o b) \o c
  <1>1. /\ <<Str(a)>> \in CallSeqs /\ Message(<<Str(a)>>) = a
        /\ <<Str(b)>> \in CallSeqs /\ Message(<<Str(b)>>) = b
        /\ <<Str(c)>> \in CallSeqs /\ Message(<<Str(c)>>) = c
    BY MessageSaid
  <1>2. <<Str(a), Str(b), Str(c)>> = (<<Str(a)>> \o <<Str(b)>>) \o <<Str(c)>>
    OBVIOUS
  <1> DEFINE x == <<Str(a)>>
             y == <<Str(b)>>
             z == <<Str(c)>>
  <1> HIDE DEF x, y, z
  <1>3. x \o y \in CallSeqs /\ Message(x \o y) = Message(x) \o Message(y)
    BY <1>1, MessageConcat DEF x, y
  <1>4. (x \o y) \o z \in CallSeqs /\ Message((x \o y) \o z) = Message(x \o y) \o Message(z)
    BY <1>1, <1>3, MessageConcat DEF z
  <1> QED BY <1>1, <1>2, <1>3, <1>4 DEF x, y, z

LEMMA RegroupFour ==
    ASSUME NEW a \in Texts, NEW b \in Texts, NEW c \in Texts, NEW d \in Texts
    PROVE  a \o ((b \o c) \o d) = ((a \o b) \o c) \o d
  <1>1. b \o c \in Texts
    BY ConcatTexts, Zenon
  <1>2. (a \o (b \o c)) \o d = a \o ((b \o c) \o d)
    BY <1>1, RegroupTexts, ZenonT(60)
  <1>3. (a \o b) \o c = a \o (b \o c)
    BY RegroupTexts, ZenonT(60)
  <1> QED BY <1>2, <1>3

Beginning(j) == IF j.source_name = << >> THEN program_name ELSE j.source_name

LEMMA PhrasesKnown ==
    ASSUME NEW level \in {"Ignore", "Info", "Warning", "Error"}, level # "Ignore"
    PROVE  <<LevelText[level]>> \in Texts /\ <<"\n">> \in Texts
  <1>1. LevelText[level] \in Units /\ "\n" \in Units
    <2>1. LevelText[level] \in {": info: ", ": warning: ", ": error: "}
      <3>1. /\ LevelText["Info"] = ": info: " /\ LevelText["Warning"] = ": warning: "
            /\ LevelText["Error"] = ": error: "
        BY DEF LevelText
      <3>2. level = "Info" \/ level = "Warning" \/ level = "Error"
        OBVIOUS
      <3> QED BY <3>1, <3>2, Zenon
    <2> QED BY <2>1, Zenon DEF Units
  <1>2. \A u \in Units : <<u>> \in Texts
    BY DEF Texts
  <1> QED BY <1>1, <1>2, Zenon

LEMMA LineType ==
    ASSUME NEW j \in JobSet
    PROVE  Line(j) \in Texts
  <1>1. Message(j.calls) \in Texts
    BY JobIs, MessageType
  <1>2. CASE IsDiagnostic(j) /\ j.level # "Ignore"
    <2> DEFINE a == Beginning(j)
               b == <<LevelText[j.level]>>
               c == Message(j.calls)
               d == <<"\n">>
    <2>1. a \in Texts /\ b \in Texts /\ d \in Texts
      BY <1>2, JobIs, PhrasesKnown, SaidByName DEF Beginning
    <2>2. Line(j) = ((a \o b) \o c) \o d
      BY <1>2 DEF Line, Beginning
    <2> HIDE DEF a, b, c, d
    <2>3. ((a \o b) \o c) \o d \in Texts
      BY <1>1, <2>1 DEF Texts, c
    <2> QED BY <2>2, <2>3
  <1>3. CASE IsDiagnostic(j) /\ j.level = "Ignore"
    BY <1>3 DEF Line, Texts
  <1>4. CASE ~IsDiagnostic(j)
    BY <1>1, <1>4 DEF Line
  <1> QED BY <1>2, <1>3, <1>4

(* What the consumer writes of a diagnostic whose message is whole.        *)
LEMMA HandledIs ==
    ASSUME job \in JobSet, IsDiagnostic(job), Text = Message(job.calls)
    PROVE  Handled(job) \in CallSeqs /\ Message(Handled(job)) = Line(job)
  <1>1. /\ job.level \in {"Ignore", "Info", "Warning", "Error"} /\ job.source_name \in Texts
        /\ job.line = 0 /\ job.column = 0 /\ job.calls \in CallSeqs
    BY JobIs
  <1>2. CASE job.level = "Ignore"
    <2>1. Handled(job) = << >> /\ Line(job) = << >>
      BY <1>2 DEF Handled, Line
    <2> QED BY <2>1, MessageNone
  <1>3. CASE job.level # "Ignore"
    <2> DEFINE a == Beginning(job)
               b == <<LevelText[job.level]>>
               c == Message(job.calls)
               d == <<"\n">>
               x == <<Str(a)>>
               y == <<Str(b), Str(c), Str(d)>>
    <2>1. a \in Texts /\ b \in Texts /\ c \in Texts /\ d \in Texts
      BY <1>1, <1>3, PhrasesKnown, SaidByName, MessageType DEF Beginning
    <2>2. Line(job) = ((a \o b) \o c) \o d
      BY <1>3 DEF Line, Beginning
    <2>3. PositionCalls(job) = << >>
      BY <1>1 DEF PositionCalls
    <2>4. Handled(job) = (x \o << >>) \o y
      BY <1>3, <2>3, Zenon DEF Handled, Beginning
    <2> HIDE DEF a, b, c, d
    <2>5. x \in CallSeqs /\ Message(x) = a
      BY <2>1, MessageSaid
    <2>6. y \in CallSeqs /\ Message(y) = (b \o c) \o d
      BY <2>1, ThreeTexts
    <2> HIDE DEF x, y
    <2>7. x \o << >> = x
      BY <2>5, ConcatEmptySeq DEF CallSeqs
    <2>8. x \o y \in CallSeqs /\ Message(x \o y) = Message(x) \o Message(y)
      BY <2>5, <2>6, MessageConcat
    <2>9. a \o ((b \o c) \o d) = ((a \o b) \o c) \o d
      <3>1. \A p, q, r, s \in Texts : p \o ((q \o r) \o s) = ((p \o q) \o r) \o s
        BY RegroupFour
      <3>2. \A r, s \in Texts : a \o ((b \o r) \o s) = ((a \o b) \o r) \o s
        BY <2>1, <3>1, Zenon
      <3>3. \A s \in Texts : a \o ((b \o c) \o s) = ((a \o b) \o c) \o s
        BY <2>1, <3>2, Zenon
      <3> QED BY <2>1, <3>3, Zenon
    <2> QED BY <2>2, <2>4, <2>5, <2>6, <2>7, <2>8, <2>9
  <1> QED BY <1>2, <1>3

-----------------------------------------------------------------------------
(* One write of a call.                                                    *)
LEMMA SuffixWritten ==
    ASSUME NEW ws \in Seq(Writes), NEW i \in 1 .. Len(ws) + 1
    PROVE  /\ SubSeq(ws, i, Len(ws)) \in Seq(Writes)
           /\ \E lost \in Texts : Written(ws) = lost \o Written(SubSeq(ws, i, Len(ws)))
  <1> DEFINE a == SubSeq(ws, 1, i - 1)
             b == SubSeq(ws, i, Len(ws))
  <1>1. a \in Seq(Writes) /\ b \in Seq(Writes) /\ ws = a \o b
    <2>1. i \in Nat /\ Len(ws) \in Nat /\ i >= 1 /\ i <= Len(ws) + 1
      OBVIOUS
    <2>2. a = [k \in 1 .. i - 1 |-> ws[k]] /\ b = [k \in 1 .. Len(ws) - (i - 1) |-> ws[(i - 1) + k]]
      <3>1. a = [k \in 1 .. i - 1 |-> ws[k]]
        BY <2>1
      <3>2. b = [k \in 1 .. Len(ws) - (i - 1) |-> ws[(i - 1) + k]]
        BY <2>1
      <3> QED BY <3>1, <3>2
    <2>3. \A k \in 1 .. Len(ws) : ws[k] \in Writes
      OBVIOUS
    <2> HIDE DEF a, b
    <2>4. /\ a \in Seq(Writes) /\ Len(a) = i - 1 /\ \A k \in 1 .. i - 1 : a[k] = ws[k]
      BY <2>1, <2>2, <2>3
    <2>5. /\ b \in Seq(Writes) /\ Len(b) = Len(ws) - (i - 1)
          /\ \A k \in 1 .. Len(ws) - (i - 1) : b[k] = ws[(i - 1) + k]
      BY <2>1, <2>2, <2>3
    <2>6. a \o b \in Seq(Writes) /\ Len(a \o b) = Len(ws)
      BY <2>1, <2>4, <2>5
    <2>7. ASSUME NEW k \in 1 .. Len(ws) PROVE (a \o b)[k] = ws[k]
      <3>1. CASE k <= i - 1
        <4>1. k \in 1 .. i - 1
          BY <2>1, <3>1
        <4> QED BY <2>4, <2>5, <4>1
      <3>2. CASE k > i - 1
        <4>1. k - (i - 1) \in 1 .. Len(ws) - (i - 1) /\ (i - 1) + (k - (i - 1)) = k
          BY <2>1, <3>2
        <4>2. (a \o b)[k] = b[k - (i - 1)]
          BY <2>1, <2>4, <2>5, <3>2
        <4> QED BY <2>5, <4>1, <4>2
      <3>3. k <= i - 1 \/ k > i - 1
        BY <2>1
      <3> QED BY <3>1, <3>2, <3>3
    <2>8. ws = a \o b
      BY <2>6, <2>7, SeqEqual
    <2> QED BY <2>4, <2>5, <2>8
  <1> HIDE DEF a, b
  <1>2. Written(a \o b) = Written(a) \o Written(b) /\ Written(a) \in Texts
    BY <1>1, WrittenConcat, WrittenType
  <1> QED BY <1>1, <1>2 DEF b

LEMMA LeastOf ==
    ASSUME NEW T, T \subseteq Nat, T # {}
    PROVE  Min(T) \in T
  <1>1. \E x \in T : \A y \in T : x <= y
    BY LeastNat
  <1> QED BY <1>1, Zenon DEF Min

(* Writes come off the front of a call, and all of them do when none has   *)
(* failed (Writer_vformat and print_number).                               *)
LEMMA LeftAfterIs ==
    ASSUME writes \in Seq(Writes), writes # << >>, NEW r
    PROVE  /\ LeftAfter(r) \in Seq(Writes)
           /\ \E lost \in Texts : Written(Tail(writes)) = lost \o Written(LeftAfter(r))
           /\ r = "success" /\ res = "success" => /\ LeftAfter(r) = Tail(writes)
                                                  /\ ResAfter(r) = "success"
  <1> DEFINE rest == Tail(writes)
             after == {i \in 2 .. Len(rest) + 1 : rest[i - 1].part = "number"} \cup {Len(rest) + 1}
             skip == Head(writes).part = "zero" /\ r # "success"
             more == IF skip THEN SubSeq(rest, Min(after), Len(rest)) ELSE rest
             ends == more # << >> /\ Head(more).part = "last" /\ ResAfter(r) # "success"
             T == {ws \in Seq(Writes) : \E lost \in Texts : Written(rest) = lost \o Written(ws)}
  <1>1. LeftAfter(r) = IF ends THEN << >> ELSE more
    BY Zenon DEF LeftAfter
  <1>2. rest \in Seq(Writes)
    OBVIOUS
  <1> HIDE DEF rest
  <1>3. Min(after) \in 1 .. Len(rest) + 1
    <2>1. Len(rest) \in Nat
      BY <1>2
    <2>2. after \subseteq 1 .. Len(rest) + 1 /\ after # {}
      BY <2>1
    <2> HIDE DEF after
    <2>3. after \subseteq Nat
      BY <2>1, <2>2
    <2> QED BY <2>2, <2>3, LeastOf
  <1> HIDE DEF after
  <1>4. \A i \in 1 .. Len(rest) + 1 : SubSeq(rest, i, Len(rest)) \in T
    BY <1>2, SuffixWritten
  <1>5. Len(rest) + 1 \in 1 .. Len(rest) + 1 /\ 1 \in 1 .. Len(rest) + 1
        /\ SubSeq(rest, Len(rest) + 1, Len(rest)) = << >> /\ SubSeq(rest, 1, Len(rest)) = rest
    <2>1. Len(rest) \in Nat
      BY <1>2
    <2> QED BY <1>2, <2>1
  <1>6. << >> \in T /\ rest \in T
    BY <1>4, <1>5
  <1>7. more \in T
    <2>1. SubSeq(rest, Min(after), Len(rest)) \in T
      BY <1>3, <1>4
    <2> QED BY <1>6, <2>1
  <1>8. LeftAfter(r) \in T
    <2> HIDE DEF more, T
    <2> QED BY <1>1, <1>6, <1>7
  <1>9. ASSUME r = "success", res = "success"
        PROVE  LeftAfter(r) = rest /\ ResAfter(r) = "success"
    BY <1>1, <1>9 DEF ResAfter
  <1> QED BY <1>8, <1>9 DEF rest

(* ArrayWriter_write: what was in the array is followed by the new bytes.  *)
Room == [data : Texts, size : Nat, capacity : Nat]
Stores(w) == /\ w \in Room /\ w.capacity # 1
             /\ w.size <= w.capacity /\ Len(w.data) = w.capacity
Holds(w) == SubSeq(w.data, 1, w.size)

Added(w, bytes) ==
    LET size == w.size + Len(bytes)
        capacity == Ensured(w.capacity, w.size, Len(bytes))
        kept == SubSeq(w.data, 1, w.size) \o bytes
    IN [size |-> size, capacity |-> capacity,
        data |-> kept \o [k \in 1 .. capacity - Len(kept) |->
                             IF size + k <= w.capacity THEN w.data[size + k] ELSE JUNK]]

LEMMA RoomGrows ==
    ASSUME NEW capacity \in Nat, NEW size \in Nat, NEW extra \in Nat,
           capacity # 1, size <= capacity
    PROVE  LET c == Ensured(capacity, size, extra) IN
           c \in Nat /\ c # 1 /\ c >= size + extra
  <1> DEFINE c == Ensured(capacity, size, extra)
  <1>1. /\ c \in Nat /\ c - size >= extra /\ c >= capacity
        /\ capacity > 1 \/ extra > 0 => c > 1
    BY EnsuredHasRoom
  <1>2. c # 1
    <2>1. CASE capacity > 1 \/ extra > 0
      <3> HIDE DEF c
      <3> QED BY <1>1, <2>1
    <2>2. CASE capacity = 0 /\ extra = 0
      <3>1. size = 0 /\ capacity - size >= extra
        BY <2>2
      <3>2. c = capacity
        BY <3>1, Zenon DEF Ensured
      <3> HIDE DEF c
      <3> QED BY <2>2, <3>2
    <2>3. capacity > 1 \/ extra > 0 \/ (capacity = 0 /\ extra = 0)
      OBVIOUS
    <2> QED BY <2>1, <2>2, <2>3
  <1> HIDE DEF c
  <1>3. c >= size + extra
    BY <1>1
  <1> QED BY <1>1, <1>2, <1>3 DEF c

LEMMA AddedIs ==
    ASSUME NEW w, Stores(w), NEW bytes \in Texts
    PROVE  Stores(Added(w, bytes)) /\ Holds(Added(w, bytes)) = Holds(w) \o bytes
  <1> DEFINE extra == Len(bytes)
             size == w.size + extra
             capacity == Ensured(w.capacity, w.size, extra)
             held == Holds(w)
             kept == held \o bytes
             l == Len(kept)
             beyond == [k \in 1 .. capacity - l |->
                           IF size + k <= w.capacity THEN w.data[size + k] ELSE JUNK]
             data == kept \o beyond
  <1>1. /\ w.data \in Texts /\ w.size \in Nat /\ w.capacity \in Nat /\ w.capacity # 1
        /\ w.size <= w.capacity /\ Len(w.data) = w.capacity /\ extra \in Nat
    <2>1. w \in Room
      BY DEF Stores
    <2>2. w.data \in Texts /\ w.size \in Nat /\ w.capacity \in Nat
      BY <2>1, Zenon DEF Room
    <2> QED BY <2>2 DEF Stores, Texts
  <1>2. Added(w, bytes) = [size |-> size, capacity |-> capacity, data |-> data]
    BY Zenon DEF Added, Holds
  <1>3. capacity \in Nat /\ capacity # 1 /\ capacity >= size /\ size \in Nat
    <2> HIDE DEF extra
    <2>1. capacity \in Nat /\ capacity # 1 /\ capacity >= w.size + extra
      <3> DEFINE c == w.capacity
                 s == w.size
      <3>1. c \in Nat /\ s \in Nat /\ c # 1 /\ s <= c
        BY <1>1
      <3> HIDE DEF c, s
      <3>2. LET e == Ensured(c, s, extra) IN e \in Nat /\ e # 1 /\ e >= s + extra
        BY <1>1, <3>1, RoomGrows
      <3> QED BY <3>2, Zenon DEF c, s
    <2>2. size \in Nat
      BY <1>1
    <2> QED BY <2>1, <2>2
  <1>4. held \in Texts /\ Len(held) = w.size
    BY <1>1 DEF Holds, Texts
  <1> HIDE DEF held, extra, capacity
  <1>5. kept \in Texts /\ l = size
    BY <1>1, <1>4 DEF Texts, extra
  <1> HIDE DEF kept, l
  <1>6. beyond \in Texts /\ Len(beyond) = capacity - size
    <2>1. JUNK \in Units
      BY DEF Units
    <2>2. \A k \in 1 .. Len(w.data) : w.data[k] \in Units
      BY <1>1 DEF Texts
    <2>3. ASSUME NEW k \in 1 .. capacity - l
          PROVE  (IF size + k <= w.capacity THEN w.data[size + k] ELSE JUNK) \in Units
      <3> HIDE DEF size
      <3>1. k \in Nat /\ k >= 1
        BY <1>3, <1>5
      <3>2. size + k <= w.capacity => size + k \in 1 .. Len(w.data)
        BY <1>1, <1>3, <3>1
      <3> QED BY <2>1, <2>2, <3>2
    <2>4. capacity - l \in Nat
      <3> HIDE DEF size
      <3> QED BY <1>3, <1>5
    <2> HIDE DEF size
    <2> QED BY <1>5, <2>3, <2>4 DEF Texts
  <1> HIDE DEF beyond, size
  <1>7. data \in Texts /\ Len(data) = capacity /\ SubSeq(data, 1, size) = kept
    <2>1. Len(kept) = size
      BY <1>5 DEF l
    <2> HIDE DEF data
    <2>2. data \in Texts /\ Len(data) = capacity /\ \A k \in 1 .. size : data[k] = kept[k]
      BY <1>3, <1>5, <1>6, <2>1 DEF Texts, data
    <2>3. SubSeq(data, 1, size) \in Texts /\ Len(SubSeq(data, 1, size)) = size
          /\ \A k \in 1 .. size : SubSeq(data, 1, size)[k] = data[k]
      BY <1>3, <2>2 DEF Texts
    <2>4. SubSeq(data, 1, size) = kept
      BY <1>5, <2>1, <2>2, <2>3, SeqEqual DEF Texts
    <2> QED BY <2>2, <2>4
  <1> HIDE DEF data
  <1>8. Stores(Added(w, bytes))
    BY <1>2, <1>3, <1>7 DEF Stores, Room
  <1>9. Holds(Added(w, bytes)) = kept
    BY <1>2, <1>7 DEF Holds
  <1> QED BY <1>8, <1>9 DEF kept, held

-----------------------------------------------------------------------------
(* The inductive invariant.  What the Writer has still to write, Due, is   *)
(* what is missing of the message and then of the line: done is the part   *)
(* of the line that was written or lost.                                   *)
Processing == /\ FileKnown
              /\ pc \in {"lex", "idle", "message", "send"}
              /\ jobs \in Seq(JobSet) /\ job \in JobSet
              /\ calls \in CallSeqs /\ writes \in Seq(Writes)
              /\ sent \in Texts /\ failed \in BOOLEAN

Due == Written(writes) \o Message(calls)

Succeeding == writes # << >> => res = "success"

InMessage == pc = "message" =>
                 /\ IsDiagnostic(job) /\ Text \o Due = Message(job.calls)
                 /\ sent = << >> /\ ~failed /\ Succeeding

SentOf(done) == /\ Line(job) = done \o Due /\ Within(sent, done)
                /\ ~failed => sent = done /\ Succeeding

InSend == pc = "send" =>
              /\ IsDiagnostic(job) => Text = Message(job.calls)
              /\ \E done \in Texts : SentOf(done)

AtRest == pc \in {"lex", "idle"} => Within(sent, Line(job)) /\ (~failed => sent = Line(job))

OInv == Processing /\ Stores(writer) /\ InMessage /\ InSend /\ AtRest

LEMMA TextIs == Text = Holds(writer) /\ Text' = Holds(writer')
  BY DEF Text, Holds

LEMMA DueType ==
    ASSUME Processing
    PROVE  /\ Written(writes) \in Texts /\ Message(calls) \in Texts /\ Due \in Texts
           /\ Line(job) \in Texts
  <1>1. Written(writes) \in Texts /\ Message(calls) \in Texts /\ Line(job) \in Texts
    BY WrittenType, MessageType, LineType DEF Processing
  <1> QED BY <1>1 DEF Due, Texts

LEMMA NoneLeft ==
    ASSUME NEW s \in Texts
    PROVE  << >> \o s = s /\ s \o << >> = s /\ << >> \in Texts /\ Within(<< >>, s)
  <1>1. << >> \o s = s /\ s \o << >> = s /\ << >> \in Texts
    BY ConcatEmptySeq DEF Texts
  <1>2. Within(<< >>, << >>)
    BY <1>1, WithinSelf
  <1>3. Within(<< >>, << >> \o s)
    BY <1>1, <1>2, WithinMore
  <1> QED BY <1>1, <1>3

LEMMA InitInv == Init => OInv
  <1> SUFFICES ASSUME Init PROVE OInv
    OBVIOUS
  <1>1. [calls |-> << >>] \in JobSet /\ ~IsDiagnostic([calls |-> << >>])
    <2>1. << >> \in Seq(Calls(Units))
      OBVIOUS
    <2> QED BY <2>1 DEF JobSet, Jobs, IsDiagnostic
  <1>2. Line(job) = << >>
    <2>1. Line(job) = Message(<< >>)
      BY <1>1 DEF Init, Line
    <2> QED BY <2>1, MessageNone
  <1>3. << >> \in Seq(Writes) /\ << >> \in Texts /\ << >> \in Seq(JobSet)
    BY DEF Texts
  <1>4. jobs \in Seq(JobSet)
    BY <1>3, SaidByName DEF Init, JobSet
  <1>5. Processing
    BY <1>1, <1>3, <1>4, MessageNone DEF Init, Processing, FileKnown
  <1>6. Stores(writer)
    BY <1>3 DEF Init, Stores, Room
  <1>7. AtRest
    BY <1>2, <1>3, NoneLeft DEF Init, AtRest
  <1> QED BY <1>5, <1>6, <1>7 DEF Init, OInv, InMessage, InSend

(* Nothing is left of a call: the next one takes its place.                *)
LEMMA CallDue ==
    ASSUME calls \in CallSeqs, writes = << >>, calls # << >>,
           writes' = WritesOf(Head(calls)), calls' = Tail(calls)
    PROVE  calls' \in CallSeqs /\ writes' \in Seq(Writes) /\ Due' = Due
  <1> DEFINE c == Head(calls)
             rest == Tail(calls)
  <1>1. c \in Calls(Units) /\ rest \in CallSeqs /\ Message(calls) = Meaning(c) \o Message(rest)
    BY MessageCons
  <1>2. WritesOf(c) \in Seq(Writes) /\ Written(WritesOf(c)) = Meaning(c)
    BY <1>1, CallMeans
  <1>3. Due' = Written(WritesOf(c)) \o Message(rest)
    BY DEF Due
  <1>4. Due = << >> \o Message(calls)
    BY WrittenNone DEF Due
  <1>5. Due = Message(calls)
    BY <1>4, MessageType, NoneLeft
  <1> HIDE DEF c, rest
  <1> QED BY <1>1, <1>2, <1>3, <1>5 DEF c, rest

LEMMA RegroupTwo ==
    ASSUME NEW a \in Texts, NEW b \in Texts, NEW c \in Texts, NEW d \in Texts
    PROVE  (a \o (b \o c)) \o d = (a \o b) \o (c \o d)
  <1>1. (a \o b) \o c = a \o (b \o c)
    BY RegroupTexts, ZenonT(60)
  <1>2. a \o b \in Texts
    BY ConcatTexts, Zenon
  <1>3. ((a \o b) \o c) \o d = (a \o b) \o (c \o d)
    BY <1>2, RegroupTexts, Zenon
  <1> QED BY <1>1, <1>3

(* A write returns: the call goes on with what is left after it.           *)
LEMMA ReturnDue ==
    ASSUME calls \in CallSeqs, writes \in Seq(Writes), writes # << >>,
           NEW r, Return(r), calls' = calls
    PROVE  /\ writes' \in Seq(Writes)
           /\ \E lost \in Texts : Due = (Head(writes).bytes \o lost) \o Due'
           /\ r = "success" /\ Succeeding => Due = Head(writes).bytes \o Due' /\ Succeeding'
  <1> DEFINE w == Head(writes)
             bytes == w.bytes
             rest == Tail(writes)
             left == LeftAfter(r)
             more == Message(calls)
  <1>1. writes' = left /\ res' = ResAfter(r)
    BY DEF Return
  <1>2. bytes \in Texts /\ rest \in Seq(Writes) /\ Written(writes) = bytes \o Written(rest)
    BY WrittenCons
  <1>3. /\ left \in Seq(Writes)
        /\ \E lost \in Texts : Written(rest) = lost \o Written(left)
        /\ r = "success" /\ res = "success" => left = rest /\ ResAfter(r) = "success"
    BY LeftAfterIs
  <1> HIDE DEF left, rest, w
  <1>4. more \in Texts /\ Written(left) \in Texts /\ Written(rest) \in Texts
    BY <1>2, <1>3, MessageType, WrittenType
  <1>5. Due = (bytes \o Written(rest)) \o more /\ Due' = Written(left) \o more
    <2>1. Due = Written(writes) \o more
      BY DEF Due
    <2>2. Due' = Written(writes') \o more
      BY Zenon DEF Due
    <2> QED BY <1>1, <1>2, <2>1, <2>2
  <1> HIDE DEF more, bytes
  <1>6. \E lost \in Texts : Due = (bytes \o lost) \o Due'
    <2>1. PICK lost \in Texts : Written(rest) = lost \o Written(left)
      BY <1>3
    <2>2. Due = (bytes \o (lost \o Written(left))) \o more
      BY <1>5, <2>1
    <2>3. (bytes \o (lost \o Written(left))) \o more = (bytes \o lost) \o (Written(left) \o more)
      <3> DEFINE x == Written(left)
      <3>1. bytes \in Texts /\ lost \in Texts /\ x \in Texts /\ more \in Texts
        BY <1>2, <1>4
      <3> HIDE DEF x
      <3>2. (bytes \o (lost \o x)) \o more = (bytes \o lost) \o (x \o more)
        <4>1. \A a, b, c, d \in Texts : (a \o (b \o c)) \o d = (a \o b) \o (c \o d)
          BY RegroupTwo
        <4>2. \A b, c, d \in Texts : (bytes \o (b \o c)) \o d = (bytes \o b) \o (c \o d)
          BY <3>1, <4>1, Zenon
        <4>3. \A c, d \in Texts : (bytes \o (lost \o c)) \o d = (bytes \o lost) \o (c \o d)
          BY <3>1, <4>2, Zenon
        <4>4. \A d \in Texts : (bytes \o (lost \o x)) \o d = (bytes \o lost) \o (x \o d)
          BY <3>1, <4>3, Zenon
        <4> QED BY <3>1, <4>4, Zenon
      <3> QED BY <3>2 DEF x
    <2> QED BY <1>5, <2>2, <2>3
  <1>7. ASSUME r = "success", Succeeding PROVE Due = bytes \o Due' /\ Succeeding'
    <2>1. left = rest /\ ResAfter(r) = "success"
      BY <1>3, <1>7 DEF Succeeding
    <2>2. (bytes \o Written(rest)) \o more = bytes \o (Written(rest) \o more)
      BY <1>2, <1>4, RegroupTexts, Zenon
    <2> QED BY <1>1, <1>5, <2>1, <2>2 DEF Succeeding
  <1> QED BY <1>1, <1>3, <1>6, <1>7 DEF bytes, w

LEMMA EmptyStores ==
    ASSUME NEW w, Stores(w), NEW v, v = [w EXCEPT !.size = 0]
    PROVE  Stores(v) /\ Holds(v) = << >>
  <1>1. /\ w \in Room /\ w.capacity # 1 /\ w.size <= w.capacity /\ Len(w.data) = w.capacity
    BY DEF Stores
  <1>2. w.data \in Texts /\ w.size \in Nat /\ w.capacity \in Nat
    BY <1>1, Zenon DEF Room
  <1>3. v = [data |-> w.data, size |-> 0, capacity |-> w.capacity]
    BY <1>1 DEF Room
  <1>4. v.data = w.data /\ v.size = 0 /\ v.capacity = w.capacity
    BY <1>3
  <1>5. v \in Room
    <2>1. \A data \in Texts, size \in Nat, capacity \in Nat :
              [data |-> data, size |-> size, capacity |-> capacity] \in Room
      BY DEF Room
    <2>2. 0 \in Nat
      OBVIOUS
    <2> QED BY <1>2, <1>3, <2>1, <2>2, ZenonT(60)
  <1>6. Stores(v)
    BY <1>1, <1>2, <1>4, <1>5 DEF Stores
  <1>7. SubSeq(w.data, 1, 0) = << >>
    BY <1>2 DEF Texts
  <1> QED BY <1>4, <1>6, <1>7 DEF Holds

LEMMA HoldsType ==
    ASSUME NEW w, Stores(w)
    PROVE  Holds(w) \in Texts
  <1>1. /\ w \in Room /\ w.size <= w.capacity /\ Len(w.data) = w.capacity
    BY DEF Stores
  <1>2. w.data \in Texts /\ w.size \in Nat /\ w.capacity \in Nat
    BY <1>1, Zenon DEF Room
  <1> QED BY <1>1, <1>2 DEF Holds, Texts

LEMMA DueNext ==
    ASSUME calls' \in CallSeqs, writes' \in Seq(Writes)
    PROVE  Due' \in Texts
  <1>1. Written(writes') \in Texts /\ Message(calls') \in Texts
    BY WrittenType, MessageType
  <1>2. Due' = Written(writes') \o Message(calls')
    BY Zenon DEF Due
  <1> DEFINE x == Written(writes')
             y == Message(calls')
  <1> HIDE DEF x, y
  <1>3. x \o y \in Texts
    BY <1>1 DEF x, y, Texts
  <1> QED BY <1>2, <1>3 DEF x, y

LEMMA NoDue ==
    ASSUME writes = << >>, calls = << >>
    PROVE  Due = << >>
  <1>1. Due = << >> \o << >>
    BY WrittenNone, MessageNone DEF Due
  <1> QED BY <1>1

(* What has been written is followed by what is.                           *)
LEMMA DoneFurther ==
    ASSUME NEW done \in Texts, NEW more \in Texts, NEW rest \in Texts
    PROVE  \E further \in Texts : /\ further = done \o more
                                  /\ further \o rest = done \o (more \o rest)
  <1>1. done \o more \in Texts
    BY DEF Texts
  <1>2. (done \o more) \o rest = done \o (more \o rest)
    BY RegroupTexts, Zenon
  <1> QED BY <1>1, <1>2

Elsewhere == UNCHANGED <<pc, file, jobs, job, calls, writer>>

LEMMA ReturnSent ==
    ASSUME OInv, pc = "send", writes # << >>, NEW r, Return(r), Elsewhere, sent' = sent,
           \/ r = "success" /\ Head(writes).bytes = << >> /\ failed' = failed
           \/ failed' = TRUE
    PROVE  OInv'
  <1> DEFINE bytes == Head(writes).bytes
  <1>1. /\ Processing /\ Stores(writer) /\ calls \in CallSeqs /\ writes \in Seq(Writes)
        /\ sent \in Texts /\ failed \in BOOLEAN
    BY DEF OInv, Processing
  <1>2. /\ IsDiagnostic(job) => Text = Message(job.calls)
        /\ \E done \in Texts : SentOf(done)
    BY DEF OInv, InSend
  <1>3. /\ pc' = pc /\ file' = file /\ jobs' = jobs /\ job' = job /\ calls' = calls
        /\ writer' = writer
    BY DEF Elsewhere
  <1>4. PICK done \in Texts : SentOf(done)
    BY <1>2
  <1>5. Line(job) = done \o Due /\ Within(sent, done) /\ (~failed => sent = done /\ Succeeding)
    BY <1>4 DEF SentOf
  <1>6. bytes \in Texts
    BY <1>1, WrittenCons
  <1>7. /\ writes' \in Seq(Writes)
        /\ \E lost \in Texts : Due = (bytes \o lost) \o Due'
        /\ r = "success" /\ Succeeding => Due = bytes \o Due' /\ Succeeding'
    BY <1>1, <1>3, ReturnDue
  <1>8. Due' \in Texts
    BY <1>1, <1>3, <1>7, DueNext
  <1> HIDE DEF bytes
  <1>9. \E further \in Texts : SentOf(further)'
    <2>1. CASE failed' = TRUE
      <3>1. PICK lost \in Texts : Due = (bytes \o lost) \o Due'
        BY <1>7
      <3> DEFINE more == bytes \o lost
      <3>2. more \in Texts
        BY <1>6 DEF Texts
      <3> HIDE DEF more
      <3>3. PICK further \in Texts : /\ further = done \o more
                                     /\ further \o Due' = done \o (more \o Due')
        BY <1>8, <3>2, DoneFurther, ZenonT(60)
      <3>4. Line(job) = further \o Due'
        BY <1>5, <3>1, <3>3 DEF more
      <3>5. Within(sent, further)
        BY <1>1, <1>4, <1>5, <3>2, <3>3, WithinMore
      <3>6. SentOf(further)'
        BY <1>3, <2>1, <3>4, <3>5 DEF SentOf
      <3> QED BY <3>6
    <2>2. CASE r = "success" /\ bytes = << >> /\ failed' = failed /\ failed' = FALSE
      <3>1. sent = done /\ Due = << >> \o Due' /\ Succeeding'
        BY <1>5, <1>7, <2>2
      <3>2. Due = Due'
        BY <1>8, <3>1, NoneLeft
      <3>3. SentOf(done)'
        BY <1>3, <1>5, <3>1, <3>2 DEF SentOf
      <3> QED BY <1>4, <3>3
    <2> QED BY <1>1, <2>1, <2>2 DEF bytes
  <1>10. failed' \in BOOLEAN
    BY <1>1
  <1>11. Processing'
    BY <1>1, <1>3, <1>7, <1>10 DEF Processing, FileKnown
  <1>12. InSend'
    BY <1>2, <1>3, <1>9, TextIs DEF InSend
  <1> QED BY <1>1, <1>3, <1>11, <1>12 DEF OInv, InMessage, AtRest

LEMMA BytesCut ==
    ASSUME NEW bytes \in Texts, NEW n \in 1 .. Len(bytes)
    PROVE  /\ SubSeq(bytes, 1, n) \in Texts /\ SubSeq(bytes, n + 1, Len(bytes)) \in Texts
           /\ bytes = SubSeq(bytes, 1, n) \o SubSeq(bytes, n + 1, Len(bytes))
  <1> DEFINE l == Len(bytes)
             a == SubSeq(bytes, 1, n)
             b == SubSeq(bytes, n + 1, l)
  <1>1. bytes \in Seq(Units) /\ l \in Nat /\ n \in Nat /\ n <= l
    BY DEF Texts
  <1>2. a = [k \in 1 .. n |-> bytes[k]] /\ b = [k \in 1 .. l - n |-> bytes[n + k]]
    <2>1. a = [k \in 1 .. n |-> bytes[k]]
      BY <1>1
    <2>2. b = [k \in 1 .. l - n |-> bytes[n + k]]
      BY <1>1
    <2> QED BY <2>1, <2>2
  <1> HIDE DEF a, b
  <1>3. a \in Seq(Units) /\ Len(a) = n /\ \A k \in 1 .. n : a[k] = bytes[k]
    BY <1>1, <1>2
  <1>4. b \in Seq(Units) /\ Len(b) = l - n /\ \A k \in 1 .. l - n : b[k] = bytes[n + k]
    BY <1>1, <1>2
  <1> HIDE DEF l
  <1>5. a \o b \in Seq(Units) /\ Len(a \o b) = l
    <2>1. a \o b \in Seq(Units) /\ Len(a \o b) = Len(a) + Len(b)
      BY <1>3, <1>4, ConcatProperties
    <2>2. n + (l - n) = l
      BY <1>1
    <2> QED BY <1>3, <1>4, <2>1, <2>2
  <1>6. ASSUME NEW k \in 1 .. l PROVE (a \o b)[k] = bytes[k]
    <2>1. CASE k <= n
      BY <1>1, <1>3, <1>4, <2>1
    <2>2. CASE k > n
      <3>1. (a \o b)[k] = b[k - n]
        BY <1>1, <1>3, <1>4, <2>2
      <3>2. k - n \in 1 .. l - n /\ n + (k - n) = k
        BY <1>1, <2>2
      <3> QED BY <1>4, <3>1, <3>2
    <2>3. k <= n \/ k > n
      BY <1>1
    <2> QED BY <2>1, <2>2, <2>3
  <1>7. bytes = a \o b
    <2>1. Len(bytes) = l
      BY DEF l
    <2> QED BY <1>1, <1>5, <1>6, <2>1, SeqEqual
  <1> QED BY <1>3, <1>4, <1>7 DEF a, b, l, Texts

LEMMA FirstReplaced ==
    ASSUME NEW S, NEW s \in Seq(S), s # << >>, NEW v \in S, NEW t, t = [s EXCEPT ![1] = v]
    PROVE  t \in Seq(S) /\ t # << >> /\ Head(t) = v /\ Tail(t) = Tail(s)
  <1> DEFINE n == Len(s)
  <1>1. n \in Nat /\ n > 0 /\ \A i \in 1 .. n : s[i] \in S
    OBVIOUS
  <1>2. t = [i \in 1 .. n |-> IF i = 1 THEN v ELSE s[i]]
    <2>1. s = [i \in 1 .. n |-> s[i]]
      OBVIOUS
    <2>2. t = [i \in DOMAIN s |-> IF i = 1 THEN v ELSE s[i]]
      BY Zenon
    <2>3. DOMAIN s = 1 .. n
      BY <2>1
    <2> QED BY <2>2, <2>3
  <1> HIDE DEF n
  <1>3. t \in Seq(S) /\ Len(t) = n /\ \A i \in 1 .. n : t[i] = IF i = 1 THEN v ELSE s[i]
    BY <1>1, <1>2
  <1>4. t # << >> /\ Head(t) = v
    BY <1>1, <1>3
  <1>5. Tail(t) \in Seq(S) /\ Len(Tail(t)) = n - 1 /\ \A i \in 1 .. n - 1 : Tail(t)[i] = t[i + 1]
    BY <1>1, <1>3, <1>4
  <1>6. Tail(s) \in Seq(S) /\ Len(Tail(s)) = n - 1 /\ \A i \in 1 .. n - 1 : Tail(s)[i] = s[i + 1]
    BY <1>1 DEF n
  <1>7. \A i \in 1 .. n - 1 : Tail(t)[i] = Tail(s)[i]
    <2>1. \A i \in 1 .. n - 1 : i + 1 \in 1 .. n /\ i + 1 # 1
      BY <1>1
    <2> QED BY <1>3, <1>5, <1>6, <2>1
  <1>8. Tail(t) = Tail(s)
    BY <1>5, <1>6, <1>7, SeqEqual
  <1> QED BY <1>3, <1>4, <1>8

(* A short write: what was sent and what the call still has.               *)
LEMMA CutDue ==
    ASSUME calls \in CallSeqs, calls' = calls, writes \in Seq(Writes), writes # << >>,
           NEW n \in 1 .. Len(Head(writes).bytes),
           writes' = [writes EXCEPT ![1].bytes = SubSeq(@, n + 1, Len(Head(writes).bytes))]
    PROVE  /\ SubSeq(Head(writes).bytes, 1, n) \in Texts
           /\ writes' \in Seq(Writes) /\ writes' # << >>
           /\ Due = SubSeq(Head(writes).bytes, 1, n) \o Due'
  <1> DEFINE w == Head(writes)
             bytes == w.bytes
             a == SubSeq(bytes, 1, n)
             b == SubSeq(bytes, n + 1, Len(bytes))
             v == [w EXCEPT !.bytes = b]
             rest == Tail(writes)
             more == Message(calls)
  <1>1. w \in Writes /\ bytes \in Texts /\ rest \in Seq(Writes)
        /\ Written(writes) = bytes \o Written(rest)
    BY WrittenCons
  <1>2. a \in Texts /\ b \in Texts /\ bytes = a \o b
    BY <1>1, BytesCut
  <1>3. v \in Writes /\ v.bytes = b
    <2> HIDE DEF b, w
    <2> QED BY <1>1, <1>2 DEF Writes
  <1>4. writes' = [writes EXCEPT ![1] = v]
    <2>1. writes[1] = Head(writes)
      OBVIOUS
    <2>2. SubSeq(writes[1].bytes, n + 1, Len(Head(writes).bytes)) = b
      BY <2>1
    <2> HIDE DEF b
    <2>3. writes' = [writes EXCEPT ![1] = [writes[1] EXCEPT !.bytes = b]]
      BY <2>2
    <2> QED BY <2>1, <2>3
  <1> HIDE DEF v
  <1>5. writes' \in Seq(Writes) /\ writes' # << >> /\ Head(writes') = v /\ Tail(writes') = rest
    <2> DEFINE ws == writes'
    <2>1. ws = [writes EXCEPT ![1] = v]
      BY <1>4
    <2> HIDE DEF w, ws
    <2>2. ws \in Seq(Writes) /\ ws # << >> /\ Head(ws) = v /\ Tail(ws) = rest
      BY <1>3, <2>1, FirstReplaced
    <2> QED BY <2>2 DEF ws
  <1> HIDE DEF rest, w
  <1>6. Written(writes') = b \o Written(rest)
    <2> DEFINE ws == writes'
    <2>1. ws \in Seq(Writes) /\ ws # << >> /\ Head(ws) = v /\ Tail(ws) = rest
      BY <1>5
    <2> HIDE DEF ws
    <2>2. Written(ws) = Head(ws).bytes \o Written(Tail(ws))
      BY <2>1, WrittenCons
    <2> QED BY <1>3, <2>1, <2>2 DEF ws
  <1>7. Written(rest) \in Texts /\ more \in Texts
    BY <1>1, WrittenType, MessageType
  <1>8. Due = ((a \o b) \o Written(rest)) \o more /\ Due' = (b \o Written(rest)) \o more
    <2>1. Due = Written(writes) \o more
      BY DEF Due
    <2>2. Due' = Written(writes') \o more
      BY Zenon DEF Due
    <2> HIDE DEF a, b, bytes, more
    <2> QED BY <1>1, <1>2, <1>6, <2>1, <2>2
  <1> DEFINE x == Written(rest)
  <1> HIDE DEF a, b, bytes, more, x
  <1>9. ((a \o b) \o x) \o more = a \o ((b \o x) \o more)
    <2>1. \A p, q, r, s \in Texts : p \o ((q \o r) \o s) = ((p \o q) \o r) \o s
      BY RegroupFour
    <2>2. \A r, s \in Texts : a \o ((b \o r) \o s) = ((a \o b) \o r) \o s
      BY <1>2, <2>1, Zenon
    <2>3. x \in Texts
      BY <1>7 DEF x
    <2>4. \A s \in Texts : a \o ((b \o x) \o s) = ((a \o b) \o x) \o s
      BY <2>2, <2>3, Zenon
    <2> QED BY <1>7, <2>4, Zenon
  <1> QED BY <1>2, <1>5, <1>8, <1>9 DEF a, bytes, w, x

LEMMA SomeSent ==
    ASSUME OInv, WriteSome
    PROVE  OInv'
  <1> DEFINE bytes == Head(writes).bytes
  <1>1. /\ Processing /\ Stores(writer) /\ calls \in CallSeqs /\ writes \in Seq(Writes)
        /\ sent \in Texts /\ failed \in BOOLEAN
    BY DEF OInv, Processing
  <1>2. /\ pc = "send" /\ writes # << >> /\ pc' = pc /\ file' = file /\ jobs' = jobs
        /\ job' = job /\ calls' = calls /\ writer' = writer /\ res' = res /\ failed' = failed
    BY DEF WriteSome, Sending, process
  <1>3. PICK n \in 1 .. Len(bytes) :
           /\ sent' = sent \o SubSeq(bytes, 1, n)
           /\ writes' = [writes EXCEPT ![1].bytes = SubSeq(@, n + 1, Len(bytes))]
    BY Zenon DEF WriteSome
  <1> DEFINE a == SubSeq(bytes, 1, n)
  <1>4. a \in Texts /\ writes' \in Seq(Writes) /\ Due = a \o Due'
    BY <1>1, <1>2, <1>3, CutDue
  <1> HIDE DEF bytes
  <1>5. sent' = sent \o a
    BY <1>3
  <1> HIDE DEF a
  <1>6. Due' \in Texts
    BY <1>1, <1>2, <1>4, DueNext
  <1>7. /\ IsDiagnostic(job) => Text = Message(job.calls)
        /\ \E done \in Texts : SentOf(done)
    BY <1>2 DEF OInv, InSend
  <1>8. PICK done \in Texts : SentOf(done)
    BY <1>7
  <1>9. Line(job) = done \o Due /\ Within(sent, done) /\ (~failed => sent = done /\ Succeeding)
    BY <1>8 DEF SentOf
  <1>10. PICK further \in Texts : further = done \o a /\ further \o Due' = done \o (a \o Due')
    BY <1>4, <1>6, DoneFurther
  <1>11. Line(job) = further \o Due' /\ Within(sent \o a, further)
    BY <1>1, <1>4, <1>8, <1>9, <1>10, WithinBoth
  <1>12. ~failed => Succeeding'
    BY <1>2, <1>9 DEF Succeeding
  <1>13. SentOf(further)'
    BY <1>2, <1>5, <1>9, <1>10, <1>11, <1>12 DEF SentOf
  <1>14. InSend'
    BY <1>2, <1>7, <1>13, TextIs DEF InSend
  <1>15. sent' \in Texts
    BY <1>1, <1>4, <1>5 DEF Texts
  <1>16. Processing'
    BY <1>1, <1>2, <1>4, <1>15 DEF Processing, FileKnown
  <1> QED BY <1>1, <1>2, <1>14, <1>16 DEF OInv, InMessage, AtRest

LEMMA StepInv == OInv /\ [Next]_vars => OInv'
  <1> SUFFICES ASSUME OInv, [Next]_vars PROVE OInv'
    OBVIOUS
  <1>0. Processing /\ Stores(writer) /\ InMessage /\ InSend /\ AtRest
    BY DEF OInv
  <1>01. /\ calls \in CallSeqs /\ writes \in Seq(Writes) /\ job \in JobSet /\ sent \in Texts
         /\ Due \in Texts /\ Line(job) \in Texts /\ << >> \in Seq(Writes) /\ << >> \in Texts
    BY <1>0, DueType, NoneLeft DEF Processing
  <1>1. CASE Lex
    <2>1. file \in Seq(0 .. 255)
      BY <1>0, <1>1, OutputAssumption DEF Lex, Processing, FileKnown
    <2>2. jobs' \in Seq(JobSet)
      BY <1>1, <2>1, LexedIs DEF Lex, JobSet
    <2>3. Processing'
      BY <1>0, <1>1, <2>2 DEF Lex, Processing, FileKnown, kernel
    <2>4. AtRest'
      BY <1>0, <1>1 DEF Lex, AtRest, kernel
    <2> QED BY <1>0, <1>1, <2>3, <2>4 DEF Lex, OInv, InMessage, InSend
  <1>2. CASE StartDiagnostic
    <2> DEFINE j == Head(jobs)
    <2>1. j \in JobSet /\ Tail(jobs) \in Seq(JobSet) /\ IsDiagnostic(j)
      BY <1>0, <1>2 DEF StartDiagnostic, Processing
    <2>2. j.calls \in CallSeqs /\ Message(j.calls) \in Texts
      BY <2>1, JobIs, MessageType
    <2>3. /\ job' = j /\ jobs' = Tail(jobs) /\ calls' = j.calls /\ writes' = << >>
          /\ sent' = << >> /\ failed' = FALSE /\ pc' = "message" /\ file' = file
          /\ writer' = [writer EXCEPT !.size = 0]
      BY <1>2 DEF StartDiagnostic
    <2> HIDE DEF j
    <2>4. Processing'
      BY <1>01, <2>1, <2>2, <2>3 DEF Processing, FileKnown
    <2>5. Stores(writer') /\ Text' = << >>
      BY <1>0, <2>3, EmptyStores, TextIs
    <2>6. Due' = Message(j.calls)
      <3>1. Due' = << >> \o Message(j.calls)
        BY <2>3, WrittenNone DEF Due
      <3> QED BY <2>2, <3>1, NoneLeft
    <2>7. Text' \o Due' = Message(j.calls)
      BY <2>2, <2>5, <2>6, NoneLeft
    <2>8. InMessage'
      BY <2>1, <2>3, <2>7 DEF InMessage, Succeeding
    <2> QED BY <2>3, <2>4, <2>5, <2>8 DEF OInv, InSend, AtRest
  <1>3. CASE StartDirect
    <2> DEFINE j == Head(jobs)
    <2>1. j \in JobSet /\ Tail(jobs) \in Seq(JobSet) /\ ~IsDiagnostic(j)
      BY <1>0, <1>3 DEF StartDirect, Processing
    <2>2. j.calls \in CallSeqs /\ Message(j.calls) \in Texts
      BY <2>1, JobIs, MessageType
    <2>3. /\ job' = j /\ jobs' = Tail(jobs) /\ calls' = j.calls /\ writes' = << >>
          /\ sent' = << >> /\ failed' = FALSE /\ pc' = "send" /\ file' = file
          /\ writer' = writer
      BY <1>3 DEF StartDirect
    <2> HIDE DEF j
    <2>4. Processing'
      BY <1>01, <2>1, <2>2, <2>3 DEF Processing, FileKnown
    <2>5. Due' = Message(j.calls)
      <3>1. Due' = << >> \o Message(j.calls)
        BY <2>3, WrittenNone DEF Due
      <3> QED BY <2>2, <3>1, NoneLeft
    <2>6. Line(j) = << >> \o Message(j.calls)
      <3>1. Line(j) = Message(j.calls)
        BY <2>1 DEF Line
      <3> QED BY <2>2, <3>1, NoneLeft
    <2>7. SentOf(<< >>)'
      BY <1>01, <2>3, <2>5, <2>6, NoneLeft DEF SentOf, Succeeding
    <2>8. InSend'
      BY <1>01, <2>1, <2>3, <2>7 DEF InSend
    <2> QED BY <1>0, <2>3, <2>4, <2>8 DEF OInv, InMessage, AtRest
  <1>4. CASE Call
    <2>1. /\ writes = << >> /\ calls # << >> /\ writes' = WritesOf(Head(calls))
          /\ calls' = Tail(calls) /\ res' = "success" /\ pc' = pc /\ jobs' = jobs /\ job' = job
          /\ file' = file /\ writer' = writer /\ sent' = sent /\ failed' = failed
          /\ pc \in {"message", "send"}
      BY <1>4 DEF Call, process, kernel
    <2>2. calls' \in CallSeqs /\ writes' \in Seq(Writes) /\ Due' = Due
      BY <1>01, <2>1, CallDue
    <2>3. Processing'
      BY <1>0, <2>1, <2>2 DEF Processing, FileKnown
    <2>4. Succeeding' /\ Text' = Text
      BY <2>1, TextIs DEF Succeeding
    <2>5. InMessage'
      BY <1>0, <2>1, <2>2, <2>4 DEF InMessage
    <2>6. ASSUME NEW done, SentOf(done) PROVE SentOf(done)'
      BY <2>1, <2>2, <2>4, <2>6 DEF SentOf
    <2>7. InSend'
      BY <1>0, <2>1, <2>4, <2>6 DEF InSend
    <2> QED BY <1>0, <2>1, <2>3, <2>5, <2>7 DEF OInv, AtRest
  <1>5. CASE ArrayWriter_write
    <2> DEFINE bytes == Head(writes).bytes
    <2>1. /\ pc = "message" /\ writes # << >> /\ writer' = Added(writer, bytes)
          /\ Return("success") /\ pc' = pc /\ file' = file /\ jobs' = jobs /\ job' = job
          /\ calls' = calls /\ sent' = sent /\ failed' = failed
      BY <1>5, Zenon DEF ArrayWriter_write, process, kernel, Added
    <2>2. bytes \in Texts
      BY <1>01, <2>1, WrittenCons
    <2> HIDE DEF bytes
    <2>3. Stores(writer') /\ Text' = Text \o bytes
      BY <1>0, <2>1, <2>2, AddedIs, TextIs
    <2>4. /\ IsDiagnostic(job) /\ Text \o Due = Message(job.calls)
          /\ sent = << >> /\ ~failed /\ Succeeding
      BY <1>0, <2>1 DEF InMessage
    <2>5. writes' \in Seq(Writes) /\ Due = bytes \o Due' /\ Succeeding'
      BY <1>01, <2>1, <2>4, ReturnDue DEF bytes
    <2>6. Processing'
      BY <1>0, <2>1, <2>5 DEF Processing, FileKnown
    <2>7. Text \in Texts /\ Due' \in Texts
      <3>1. Text \in Texts
        BY <1>0, HoldsType, TextIs
      <3>2. calls' \in CallSeqs /\ writes' \in Seq(Writes)
        BY <1>01, <2>1, <2>5
      <3> QED BY <3>1, <3>2, DueNext
    <2>8. Text \o (bytes \o Due') = (Text \o bytes) \o Due'
      BY <2>2, <2>7, RegroupTexts, Zenon
    <2>9. InMessage'
      BY <2>1, <2>3, <2>4, <2>5, <2>8 DEF InMessage
    <2> QED BY <2>1, <2>3, <2>6, <2>9 DEF OInv, InSend, AtRest
  <1>6. CASE Emit
    <2>1. /\ pc = "message" /\ writes = << >> /\ calls = << >> /\ calls' = Handled(job)
          /\ pc' = "send" /\ file' = file /\ jobs' = jobs /\ job' = job
          /\ writes' = writes /\ writer' = writer /\ sent' = sent /\ failed' = failed
      BY <1>6 DEF Emit, process, kernel
    <2>2. /\ IsDiagnostic(job) /\ Text \o Due = Message(job.calls)
          /\ sent = << >> /\ ~failed
      BY <1>0, <2>1 DEF InMessage
    <2>3. Due = << >>
      BY <2>1, NoDue
    <2>4. Text = Message(job.calls)
      BY <1>0, <2>2, <2>3, HoldsType, NoneLeft, TextIs
    <2>5. Handled(job) \in CallSeqs /\ Message(Handled(job)) = Line(job)
      BY <1>01, <2>2, <2>4, HandledIs
    <2>6. Processing'
      BY <1>0, <2>1, <2>5 DEF Processing, FileKnown
    <2>7. Due' = Line(job)
      <3>1. Due' = << >> \o Line(job)
        BY <2>1, <2>5, WrittenNone DEF Due
      <3> QED BY <1>01, <3>1, NoneLeft
    <2>8. SentOf(<< >>)'
      BY <1>01, <2>1, <2>2, <2>7, NoneLeft DEF SentOf, Succeeding
    <2>9. InSend'
      BY <1>01, <2>1, <2>4, <2>8, TextIs DEF InSend
    <2> QED BY <1>0, <2>1, <2>6, <2>9 DEF OInv, InMessage, AtRest
  <1>7. CASE Finish
    <2>1. /\ pc = "send" /\ writes = << >> /\ calls = << >> /\ pc' = "idle"
          /\ file' = file /\ jobs' = jobs /\ job' = job /\ calls' = calls /\ writes' = writes
          /\ sent' = sent /\ failed' = failed
          /\ writer' = IF IsDiagnostic(job) THEN [writer EXCEPT !.size = 0] ELSE writer
      BY <1>7 DEF Finish, process, kernel
    <2>2. Processing'
      BY <1>0, <2>1 DEF Processing, FileKnown
    <2>3. Stores(writer')
      BY <1>0, <2>1, EmptyStores
    <2>4. PICK done \in Texts : SentOf(done)
      BY <1>0, <2>1 DEF InSend
    <2>5. Line(job) = done
      BY <2>1, <2>4, NoDue, NoneLeft DEF SentOf
    <2>6. AtRest'
      BY <2>1, <2>4, <2>5 DEF AtRest, SentOf
    <2> QED BY <2>1, <2>2, <2>3, <2>6 DEF OInv, InMessage, InSend
  <1>8. CASE WriteReturns
    <2>1. pc = "send" /\ writes # << >> /\ Head(writes).bytes = << >> /\ Return("success")
          /\ pc' = pc /\ file' = file /\ jobs' = jobs /\ job' = job
          /\ calls' = calls /\ writer' = writer /\ sent' = sent /\ failed' = failed
      BY <1>8 DEF WriteReturns, Sending, process, kernel
    <2>2. Elsewhere
      BY <2>1 DEF Elsewhere
    <2> QED BY <2>1, <2>2, ReturnSent
  <1>9. CASE WriteFails
    <2>1. pc = "send" /\ writes # << >> /\ Return("errno")
          /\ pc' = pc /\ file' = file /\ jobs' = jobs /\ job' = job
          /\ calls' = calls /\ writer' = writer /\ sent' = sent /\ failed' = TRUE
      BY <1>9 DEF WriteFails, Sending, process, kernel
    <2>2. Elsewhere
      BY <2>1 DEF Elsewhere
    <2> QED BY <2>1, <2>2, ReturnSent
  <1>10. CASE WriteSome
    BY <1>10, SomeSent
  <1>11. CASE UNCHANGED <<pc, file, jobs, job, calls, writes, res, writer, sent, failed>>
    <2>1. Due' = Due /\ Text' = Text /\ (Succeeding' <=> Succeeding)
      BY <1>11, TextIs DEF Due, Succeeding
    <2>2. Processing' /\ AtRest' /\ Stores(writer')
      BY <1>0, <1>11 DEF Processing, FileKnown, AtRest
    <2>3. InMessage'
      BY <1>0, <1>11, <2>1 DEF InMessage
    <2>4. ASSUME NEW done, SentOf(done) PROVE SentOf(done)'
      BY <1>11, <2>1, <2>4 DEF SentOf
    <2>5. InSend'
      BY <1>0, <1>11, <2>1, <2>4 DEF InSend
    <2> QED BY <2>2, <2>3, <2>5 DEF OInv
  <1>12. WriteInterrupted \/ UNCHANGED vars =>
             UNCHANGED <<pc, file, jobs, job, calls, writes, res, writer, sent, failed>>
    BY DEF WriteInterrupted, vars, process, kernel
  <1> QED BY <1>1, <1>2, <1>3, <1>4, <1>5, <1>6, <1>7, <1>8, <1>9, <1>10, <1>11, <1>12 DEF Next

LEMMA Invariance == Spec => []OInv
  BY InitInv, StepInv, PTL DEF Spec

(* The message that is handed to the consumer is what the report says,     *)
(* every number in its width, and it lies in the array, however often that *)
(* had to grow (DiagnosticEngine_emit, ArrayWriter_write, Writer_vformat). *)
THEOREM MessagesWhole == Spec => []MessageWhole
  <1>1. OInv => MessageWhole
    <2> SUFFICES ASSUME OInv, pc = "send", IsDiagnostic(job)
                 PROVE  Text = Message(job.calls) /\ Len(writer.data) = writer.capacity
      BY DEF MessageWhole
    <2> QED BY DEF OInv, InSend, Stores
  <1> QED BY <1>1, Invariance, PTL

LEMMA PrefixWithin ==
    ASSUME NEW s \in Texts, NEW t \in Texts
    PROVE  IsPrefix(s, s \o t) /\ IsPrefix(s, s) /\ IsPrefix(<< >>, s)
  <1>1. s \in Seq(Units) /\ t \in Seq(Units)
    BY DEF Texts
  <1>2. Len(s) <= Len(s \o t) /\ SubSeq(s \o t, 1, Len(s)) = s /\ SubSeq(s, 1, Len(s)) = s
    <2> DEFINE n == Len(s)
               u == s \o t
               p == SubSeq(u, 1, n)
               q == SubSeq(s, 1, n)
    <2>1. u \in Seq(Units) /\ Len(u) = n + Len(t) /\ \A i \in 1 .. n : u[i] = s[i]
      BY <1>1
    <2>2. n \in Nat /\ n <= Len(u)
      BY <1>1, <2>1
    <2> HIDE DEF u
    <2>3. p \in Seq(Units) /\ Len(p) = n /\ \A i \in 1 .. n : p[i] = u[i]
      BY <2>1, <2>2
    <2>4. q \in Seq(Units) /\ Len(q) = n /\ \A i \in 1 .. n : q[i] = s[i]
      BY <1>1
    <2> HIDE DEF p, q
    <2>5. p = s /\ q = s
      BY <1>1, <2>1, <2>3, <2>4, SeqEqual
    <2> QED BY <2>2, <2>5 DEF p, q, u
  <1>3. Len(<< >>) = 0 /\ 0 <= Len(s) /\ SubSeq(<< >>, 1, 0) = << >> /\ SubSeq(s, 1, 0) = << >>
    BY <1>1
  <1>4. Len(s) <= Len(s)
    BY <1>1
  <1> QED BY <1>2, <1>3, <1>4 DEF IsPrefix

(* What the terminal is given is the line from its start, and all of it    *)
(* when nothing failed; after an error, which nobody looks at, some of it  *)
(* may be missing, but the rest is in its place and nothing is sent twice  *)
(* (SystemFile_write, TerminalDiagnosticConsumer_handle, Writer_vformat).  *)
THEOREM LinesSent == Spec => []LineSent
  <1>1. OInv => LineSent
    <2> SUFFICES ASSUME OInv PROVE LineSent
      OBVIOUS
    <2>1. /\ pc \in {"lex", "idle", "message", "send"} /\ sent \in Texts
          /\ Line(job) \in Texts /\ Due \in Texts
      BY DueType DEF OInv, Processing
    <2>2. CASE pc \in {"lex", "idle"}
      <3>1. Within(sent, Line(job)) /\ (~failed => sent = Line(job))
        BY <2>2 DEF OInv, AtRest
      <3>2. InPlace(sent, Line(job))
        BY <2>1, <3>1, WithinInPlace
      <3>3. IsPrefix(sent, sent)
        BY <2>1, PrefixWithin
      <3> QED BY <3>1, <3>2, <3>3 DEF LineSent
    <2>3. CASE pc = "message"
      <3>1. sent = << >>
        BY <2>3 DEF OInv, InMessage
      <3>2. Within(sent, Line(job)) /\ IsPrefix(sent, Line(job))
        BY <2>1, <3>1, NoneLeft, PrefixWithin
      <3>3. InPlace(sent, Line(job))
        BY <2>1, <3>2, WithinInPlace
      <3> QED BY <2>3, <3>2, <3>3 DEF LineSent
    <2>4. CASE pc = "send"
      <3>1. PICK done \in Texts : SentOf(done)
        BY <2>4 DEF OInv, InSend
      <3>2. /\ Line(job) = done \o Due /\ Within(sent, done)
            /\ ~failed => sent = done
        BY <3>1 DEF SentOf
      <3>3. Within(sent, Line(job))
        BY <2>1, <3>1, <3>2, WithinMore
      <3>4. InPlace(sent, Line(job))
        BY <2>1, <3>3, WithinInPlace
      <3>5. ~failed => IsPrefix(sent, Line(job))
        BY <2>1, <3>1, <3>2, PrefixWithin
      <3> QED BY <2>4, <3>4, <3>5 DEF LineSent
    <2> QED BY <2>1, <2>2, <2>3, <2>4
  <1> QED BY <1>1, Invariance, PTL
=============================================================================
