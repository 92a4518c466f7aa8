--------------------------- MODULE DeclMapProofs ---------------------------
(***************************************************************************)
(* Theorems about DeclMap for every finite set of node addresses.  The     *)
(* shape of the two linked lists is given by witnesses: the nodes of each  *)
(* list in order.                                                          *)
(***************************************************************************)
EXTENDS DeclMap, FiniteSetTheorems, FunctionTheorems, SequenceTheorems,
        WellFoundedInduction, TLAPS

-----------------------------------------------------------------------------
(* Linked lists.                                                           *)

(* The i-th of the n nodes of s, NULL beyond the end.                      *)
At(s, n, i) == IF i \in 1 .. n THEN s[i] ELSE NULL

(* s is the list of n nodes that starts at h when the links are nx.        *)
IsList(s, n, h, nx) ==
    /\ n \in Nat /\ s \in [1 .. n -> Nodes]
    /\ \A i, j \in 1 .. n : s[i] = s[j] => i = j
    /\ h = At(s, n, 1)
    /\ \A i \in 1 .. n : nx[s[i]] = At(s, n, i + 1)

Members(s, n) == {s[i] : i \in 1 .. n}

(* Walk with the links as a parameter.                                     *)
WalkIn(nx, h) ==
    LET w[i \in 0 .. Cardinality(Nodes)] ==
            IF i = 0 THEN h
            ELSE IF w[i - 1] = NULL THEN NULL ELSE nx[w[i - 1]]
    IN w

LEMMA WalkByLinks == \A h : Walk(h) = WalkIn(next, h)
  BY DEF Walk, WalkIn

LEMMA WalkByLinksPrimed == \A h : (Walk(h))' = WalkIn(next', h)
  BY DEF Walk, WalkIn

LEMMA NodesFinite == IsFiniteSet(Nodes) /\ Cardinality(Nodes) \in Nat /\ NULL \notin Nodes
  BY DeclMapAssumption, FS_CardinalityType

(* A nonempty set of natural numbers has a least member.                   *)
LEMMA LeastNat ==
    ASSUME NEW T, T \subseteq Nat, T # {}
    PROVE  \E x \in T : \A y \in T : x <= y
  <1>1. \E x \in T : \A y \in T : ~ (<<y, x>> \in OpToRel(<, Nat))
    BY NatLessThanWellFounded, WFMin
  <1>2. PICK x \in T : \A y \in T : ~ (<<y, x>> \in OpToRel(<, Nat))
    BY <1>1
  <1>3. ASSUME NEW y \in T PROVE x <= y
    <2>1. y \in Nat /\ x \in Nat
      OBVIOUS
    <2>2. ~ (<<y, x>> \in OpToRel(<, Nat))
      BY <1>2
    <2>3. ~ (y < x)
      BY <2>1, <2>2 DEF OpToRel
    <2> QED BY <2>1, <2>3, SMT
  <1> QED BY <1>3

(* A list has no more nodes than there are, so a walk sees all of it.      *)
LEMMA ListIsShort ==
    ASSUME NEW s, NEW n, NEW h, NEW nx, IsList(s, n, h, nx)
    PROVE  /\ n <= Cardinality(Nodes)
           /\ IsFiniteSet(Members(s, n)) /\ Cardinality(Members(s, n)) = n
           /\ Members(s, n) \subseteq Nodes
  <1>1. n \in Nat /\ s \in [1 .. n -> Nodes]
    BY DEF IsList
  <1>2. s \in Bijection(1 .. n, Members(s, n))
    <2>1. s \in [1 .. n -> Members(s, n)]
      BY <1>1 DEF Members
    <2>2. \A x, y \in 1 .. n : s[x] = s[y] => x = y
      BY DEF IsList
    <2>3. \A t \in Members(s, n) : \E i \in 1 .. n : s[i] = t
      BY DEF Members
    <2> QED BY <2>1, <2>2, <2>3 DEF Bijection, Injection, Surjection, IsInjective
  <1>3. IsFiniteSet(1 .. n) /\ Cardinality(1 .. n) = n
    BY <1>1, FS_Interval, SMT
  <1>4. IsFiniteSet(Members(s, n)) /\ Cardinality(Members(s, n)) = n
    BY <1>2, <1>3, FS_Bijection, Zenon DEF ExistsBijection
  <1>5. Members(s, n) \subseteq Nodes
    BY <1>1 DEF Members
  <1>6. n <= Cardinality(Nodes)
    BY <1>4, <1>5, NodesFinite, FS_Subset
  <1> QED BY <1>4, <1>5, <1>6

(* Walk computes the nodes of the list in order, and then NULL.            *)
LEMMA WalkIs ==
    ASSUME NEW s, NEW n, NEW h, NEW nx, IsList(s, n, h, nx)
    PROVE  WalkIn(nx, h) = [i \in 0 .. Cardinality(Nodes) |-> At(s, n, i + 1)]
  <1> DEFINE I == 0 .. Cardinality(Nodes)
             f == [i \in I |-> At(s, n, i + 1)]
             Step(g, i) == IF i = 0 THEN h
                           ELSE IF g[i - 1] = NULL THEN NULL ELSE nx[g[i - 1]]
             w == WalkIn(nx, h)
  <1>1. /\ n \in Nat /\ s \in [1 .. n -> Nodes] /\ h = At(s, n, 1)
        /\ \A i \in 1 .. n : nx[s[i]] = At(s, n, i + 1)
    BY DEF IsList
  <1>2. ASSUME NEW i \in I PROVE f[i] = Step(f, i)
    <2>1. CASE i = 0
      BY <1>1, <2>1, NodesFinite
    <2>2. CASE i # 0
      <3>1. i \in Nat /\ i - 1 \in I /\ i - 1 + 1 = i
        BY <2>2, NodesFinite, SMT
      <3>2. f[i - 1] = At(s, n, i)
        BY <3>1
      <3>3. CASE i \in 1 .. n
        <4>1. f[i - 1] = s[i] /\ s[i] \in Nodes
          BY <1>1, <3>2, <3>3 DEF At
        <4> QED BY <1>1, <2>2, <3>3, <4>1, NodesFinite
      <3>4. CASE i \notin 1 .. n
        <4>1. i + 1 \notin 1 .. n
          BY <1>1, <2>2, <3>1, <3>4, SMT
        <4> QED BY <2>2, <3>2, <3>4, <4>1 DEF At
      <3> QED BY <3>3, <3>4
    <2> QED BY <2>1, <2>2
  <1>3. f = [i \in I |-> Step(f, i)]
    BY <1>2
  <1> HIDE DEF f
  <1>4. w = [i \in I |-> Step(w, i)]
    BY <1>3 DEF WalkIn
  <1> HIDE DEF w
  <1>5. \A i \in I : w[i] = f[i]
    <2> SUFFICES ASSUME NEW j \in I, w[j] # f[j] PROVE FALSE
      OBVIOUS
    <2> DEFINE T == {i \in I : w[i] # f[i]}
    <2>1. T \subseteq Nat /\ T # {}
      BY NodesFinite, SMT
    <2>2. PICK i \in T : \A k \in T : i <= k
      BY <2>1, LeastNat
    <2>3. i \in I /\ w[i] = Step(w, i) /\ f[i] = Step(f, i)
      BY <1>2, <1>4, <2>2
    <2>4. i # 0
      BY <2>2, <2>3
    <2>5. i - 1 \in I /\ ~(i <= i - 1)
      BY <2>3, <2>4, NodesFinite, SMT
    <2>6. w[i - 1] = f[i - 1]
      BY <2>2, <2>5
    <2> QED BY <2>2, <2>3, <2>4, <2>6
  <1>6. w = f
    BY <1>3, <1>4, <1>5
  <1> QED BY <1>6 DEF w, f

(* What the properties ask of a list.                                      *)
LEMMA ListFacts ==
    ASSUME NEW s, NEW n, NEW h, IsList(s, n, h, next)
    PROVE  /\ Ends(h) /\ OnList(h) = Members(s, n) /\ Depth(h) = n
           /\ \A i \in 1 .. n : Walk(h)[i - 1] = s[i]
  <1> DEFINE N == Cardinality(Nodes)
  <1>1. n \in Nat /\ n <= N /\ N \in Nat /\ s \in [1 .. n -> Nodes]
    BY ListIsShort, NodesFinite DEF IsList
  <1>2. \A i \in 0 .. N : Walk(h)[i] = At(s, n, i + 1)
    <2>1. Walk(h) = [i \in 0 .. N |-> At(s, n, i + 1)]
      BY WalkIs, WalkByLinks
    <2> QED BY <2>1
  <1>3. Ends(h)
    <2>1. N \in 0 .. N /\ N + 1 \notin 1 .. n
      BY <1>1, SMT
    <2> QED BY <1>2, <2>1 DEF Ends, At
  <1>4. \A i \in 1 .. n : Walk(h)[i - 1] = s[i]
    <2> TAKE i \in 1 .. n
    <2>1. i - 1 \in 0 .. N /\ i - 1 + 1 = i
      BY <1>1, SMT
    <2> QED BY <1>2, <2>1 DEF At
  <1>5. OnList(h) = Members(s, n)
    <2>1. ASSUME NEW x \in OnList(h) PROVE x \in Members(s, n)
      <3>1. PICK i \in 0 .. N : x = Walk(h)[i] /\ x # NULL
        BY DEF OnList
      <3>2. i + 1 \in 1 .. n /\ x = s[i + 1]
        BY <1>2, <3>1 DEF At
      <3> QED BY <3>2 DEF Members
    <2>2. ASSUME NEW x \in Members(s, n) PROVE x \in OnList(h)
      <3>1. PICK i \in 1 .. n : x = s[i]
        BY DEF Members
      <3>2. i - 1 \in 0 .. N
        BY <1>1, SMT
      <3>3. x # NULL
        BY <1>1, <3>1, NodesFinite
      <3> QED BY <1>4, <3>1, <3>2, <3>3 DEF OnList
    <2> QED BY <2>1, <2>2
  <1>6. Depth(h) = n
    BY <1>5, ListIsShort DEF Depth
  <1> QED BY <1>3, <1>4, <1>5, <1>6

-----------------------------------------------------------------------------
(* What linking and unlinking a node does to a list.                       *)

Cons(x, s, n) == [i \in 1 .. n + 1 |-> IF i = 1 THEN x ELSE s[i - 1]]
From(s, n, k) == [i \in 1 .. n - k + 1 |-> s[i + k - 1]]

LEMMA MemberIsNode ==
    ASSUME NEW s, NEW n, NEW h, NEW nx, IsList(s, n, h, nx), NEW i \in 1 .. n
    PROVE  /\ s[i] \in Nodes /\ s[i] \in Members(s, n) /\ s[i] # NULL
           /\ At(s, n, i) = s[i]
  BY NodesFinite DEF IsList, Members, At

LEMMA HeadFacts ==
    ASSUME NEW s, NEW n, NEW h, NEW nx, IsList(s, n, h, nx)
    PROVE  /\ h = NULL <=> n = 0
           /\ n # 0 => 1 \in 1 .. n /\ s[1] = h /\ h \in Members(s, n)
                       /\ nx[h] = At(s, n, 2)
           /\ n = 0 => Members(s, n) = {}
  <1>1. n \in Nat /\ h = At(s, n, 1)
    BY DEF IsList
  <1>2. CASE n = 0
    <2>1. 1 .. n = {}
      BY <1>2, SMT
    <2> QED BY <1>1, <1>2, <2>1 DEF At, Members
  <1>3. CASE n # 0
    <2>1. 1 \in 1 .. n /\ 1 + 1 = 2
      BY <1>1, <1>3, SMT
    <2>2. s[1] \in Members(s, n) /\ s[1] # NULL /\ At(s, n, 1) = s[1]
      BY <2>1, MemberIsNode
    <2>3. nx[s[1]] = At(s, n, 2)
      BY <2>1 DEF IsList
    <2> QED BY <1>1, <1>3, <2>1, <2>2, <2>3
  <1> QED BY <1>2, <1>3

LEMMA ConsList ==
    ASSUME NEW s, NEW n, NEW h, NEW nx, IsList(s, n, h, nx),
           NEW x \in Nodes, x \notin Members(s, n),
           NEW nx2, nx2[x] = h, \A y \in Members(s, n) : nx2[y] = nx[y]
    PROVE  /\ IsList(Cons(x, s, n), n + 1, x, nx2)
           /\ Members(Cons(x, s, n), n + 1) = Members(s, n) \cup {x}
  <1> DEFINE t == Cons(x, s, n)
  <1>1. /\ n \in Nat /\ s \in [1 .. n -> Nodes]
        /\ \A i, j \in 1 .. n : s[i] = s[j] => i = j
        /\ h = At(s, n, 1) /\ \A i \in 1 .. n : nx[s[i]] = At(s, n, i + 1)
    BY DEF IsList
  <1>2. 1 \in 1 .. n + 1 /\ t[1] = x
    BY <1>1, SMT DEF Cons
  <1>3. ASSUME NEW i \in 1 .. n + 1, i # 1
        PROVE  i - 1 \in 1 .. n /\ t[i] = s[i - 1] /\ t[i] \in Members(s, n)
    <2>1. i - 1 \in 1 .. n
      BY <1>1, <1>3, SMT
    <2> QED BY <1>3, <2>1 DEF Cons, Members
  <1>4. ASSUME NEW i \in 1 .. n
        PROVE  i + 1 \in 1 .. n + 1 /\ t[i + 1] = s[i]
    <2>1. i + 1 \in 1 .. n + 1 /\ i + 1 # 1 /\ i + 1 - 1 = i
      BY <1>1, SMT
    <2> QED BY <2>1 DEF Cons
  <1>5. t \in [1 .. n + 1 -> Nodes]
    <2>1. \A i \in 1 .. n + 1 : t[i] \in Nodes
      BY <1>1, <1>2, <1>3 DEF Members
    <2> QED BY <2>1 DEF Cons
  <1>6. ASSUME NEW i \in 1 .. n + 1, NEW j \in 1 .. n + 1, t[i] = t[j]
        PROVE  i = j
    <2>1. CASE i = 1 \/ j = 1
      BY <1>2, <1>3, <1>6, <2>1
    <2>2. CASE i # 1 /\ j # 1
      <3>1. i - 1 = j - 1
        BY <1>1, <1>3, <1>6, <2>2
      <3> QED BY <3>1, SMT
    <2> QED BY <2>1, <2>2
  <1>7. ASSUME NEW i \in 1 .. n + 1
        PROVE  At(t, n + 1, i + 1) = At(s, n, i)
    <2>1. CASE i \in 1 .. n
      BY <1>4, <2>1 DEF At
    <2>2. CASE i \notin 1 .. n
      <3>1. i + 1 \notin 1 .. n + 1
        BY <1>1, <2>2, SMT
      <3> QED BY <2>2, <3>1 DEF At
    <2> QED BY <2>1, <2>2
  <1>8. ASSUME NEW i \in 1 .. n + 1
        PROVE  nx2[t[i]] = At(t, n + 1, i + 1)
    <2>1. nx2[t[i]] = At(s, n, i)
      <3>1. CASE i = 1
        BY <1>1, <1>2, <3>1
      <3>2. CASE i # 1
        <4>1. i - 1 + 1 = i
          BY <1>1, SMT
        <4> QED BY <1>1, <1>3, <3>2, <4>1
      <3> QED BY <3>1, <3>2
    <2> QED BY <1>7, <2>1
  <1>9. IsList(t, n + 1, x, nx2)
    <2>1. n + 1 \in Nat /\ x = At(t, n + 1, 1)
      BY <1>1, <1>2, SMT DEF At
    <2> QED BY <1>5, <1>6, <1>8, <2>1 DEF IsList
  <1>10. Members(t, n + 1) = Members(s, n) \cup {x}
    <2>1. Members(t, n + 1) \subseteq Members(s, n) \cup {x}
      BY <1>2, <1>3 DEF Members
    <2>2. Members(s, n) \cup {x} \subseteq Members(t, n + 1)
      BY <1>2, <1>4 DEF Members
    <2> QED BY <2>1, <2>2
  <1> QED BY <1>9, <1>10

(* The rest of a list is a list, without the nodes before it.              *)
LEMMA RestList ==
    ASSUME NEW s, NEW n, NEW h, NEW nx, IsList(s, n, h, nx), NEW k \in 1 .. n + 1
    PROVE  /\ IsList(From(s, n, k), n - k + 1, At(s, n, k), nx)
           /\ Members(From(s, n, k), n - k + 1) = {s[i] : i \in k .. n}
           /\ Members(From(s, n, k), n - k + 1) \subseteq Members(s, n)
  <1> DEFINE t == From(s, n, k)
             l == n - k + 1
  <1>1. /\ n \in Nat /\ s \in [1 .. n -> Nodes]
        /\ \A i, j \in 1 .. n : s[i] = s[j] => i = j
        /\ \A i \in 1 .. n : nx[s[i]] = At(s, n, i + 1)
    BY DEF IsList
  <1>2. l \in Nat /\ k \in Nat
    BY <1>1, SMT
  <1>3. ASSUME NEW i \in 1 .. l
        PROVE  i + k - 1 \in k .. n /\ i + k - 1 \in 1 .. n /\ t[i] = s[i + k - 1]
    <2>1. i + k - 1 \in k .. n /\ i + k - 1 \in 1 .. n
      BY <1>1, SMT
    <2> QED BY <2>1 DEF From
  <1>4. ASSUME NEW i \in k .. n
        PROVE  i - k + 1 \in 1 .. l /\ t[i - k + 1] = s[i] /\ i \in 1 .. n
    <2>1. i - k + 1 \in 1 .. l /\ i - k + 1 + k - 1 = i /\ i \in 1 .. n
      BY <1>1, SMT
    <2> QED BY <2>1 DEF From
  <1>5. t \in [1 .. l -> Nodes]
    <2>1. \A i \in 1 .. l : t[i] \in Nodes
      BY <1>1, <1>3
    <2> QED BY <2>1 DEF From
  <1>6. ASSUME NEW i \in 1 .. l, NEW j \in 1 .. l, t[i] = t[j]
        PROVE  i = j
    <2>1. /\ i + k - 1 \in 1 .. n /\ t[i] = s[i + k - 1]
          /\ j + k - 1 \in 1 .. n /\ t[j] = s[j + k - 1]
      BY <1>3
    <2>2. i + k - 1 = j + k - 1
      BY <1>1, <1>6, <2>1, Zenon
    <2> QED BY <1>2, <2>2, SMT
  <1>7. ASSUME NEW i \in 1 .. l + 1
        PROVE  At(t, l, i) = At(s, n, i + k - 1)
    <2>1. CASE i \in 1 .. l
      BY <1>3, <2>1 DEF At
    <2>2. CASE i \notin 1 .. l
      <3>1. i + k - 1 \notin 1 .. n
        BY <1>1, <2>2, SMT
      <3> QED BY <2>2, <3>1 DEF At
    <2> QED BY <2>1, <2>2
  <1>8. ASSUME NEW i \in 1 .. l
        PROVE  nx[t[i]] = At(t, l, i + 1)
    <2>1. i + 1 \in 1 .. l + 1 /\ i + 1 + k - 1 = i + k - 1 + 1
      BY <1>2, SMT
    <2>2. At(t, l, i + 1) = At(s, n, i + 1 + k - 1)
      BY <1>7, <2>1
    <2>3. nx[s[i + k - 1]] = At(s, n, i + k - 1 + 1)
      BY <1>1, <1>3
    <2> QED BY <1>3, <2>1, <2>2, <2>3
  <1>9. IsList(t, l, At(s, n, k), nx)
    <2>1. 1 \in 1 .. l + 1 /\ 1 + k - 1 = k
      BY <1>2, SMT
    <2>2. At(s, n, k) = At(t, l, 1)
      BY <1>7, <2>1
    <2> QED BY <1>2, <1>5, <1>6, <1>8, <2>2 DEF IsList
  <1>10. Members(t, l) = {s[i] : i \in k .. n}
    <2>1. Members(t, l) \subseteq {s[i] : i \in k .. n}
      BY <1>3 DEF Members
    <2>2. {s[i] : i \in k .. n} \subseteq Members(t, l)
      BY <1>4 DEF Members
    <2> QED BY <2>1, <2>2
  <1>11. {s[i] : i \in k .. n} \subseteq Members(s, n)
    BY <1>4 DEF Members
  <1> QED BY <1>9, <1>10, <1>11

LEMMA TailList ==
    ASSUME NEW s, NEW n, NEW h, NEW nx, IsList(s, n, h, nx), h # NULL
    PROVE  /\ IsList(From(s, n, 2), n - 1, nx[h], nx)
           /\ Members(From(s, n, 2), n - 1) = Members(s, n) \ {h}
           /\ h \in Members(s, n) /\ h \in Nodes /\ n - 1 \in Nat
  <1>1. n \in Nat /\ \A i, j \in 1 .. n : s[i] = s[j] => i = j
    BY DEF IsList
  <1>2. n # 0 /\ 1 \in 1 .. n /\ s[1] = h /\ h \in Members(s, n)
        /\ nx[h] = At(s, n, 2)
    BY HeadFacts
  <1>3. 2 \in 1 .. n + 1 /\ n - 2 + 1 = n - 1 /\ n - 1 \in Nat
    BY <1>1, <1>2, SMT
  <1>4. /\ IsList(From(s, n, 2), n - 1, nx[h], nx)
        /\ Members(From(s, n, 2), n - 1) = {s[i] : i \in 2 .. n}
    BY <1>2, <1>3, RestList
  <1>5. {s[i] : i \in 2 .. n} = Members(s, n) \ {h}
    <2>1. 2 .. n = (1 .. n) \ {1}
      BY <1>1, SMT
    <2> QED BY <1>1, <1>2, <2>1 DEF Members
  <1>6. h \in Nodes
    BY <1>2, MemberIsNode
  <1> QED BY <1>2, <1>3, <1>4, <1>5, <1>6

LEMMA SameLinksSameList ==
    ASSUME NEW s, NEW n, NEW h, NEW nx, IsList(s, n, h, nx),
           NEW nx2, \A y \in Members(s, n) : nx2[y] = nx[y]
    PROVE  IsList(s, n, h, nx2)
  BY DEF IsList, Members

LEMMA NoList ==
    ASSUME NEW nx
    PROVE  IsList([i \in 1 .. 0 |-> NULL], 0, NULL, nx)
           /\ Members([i \in 1 .. 0 |-> NULL], 0) = {}
  <1>1. 1 .. 0 = {} /\ 0 \in Nat
    BY SMT
  <1> QED BY <1>1 DEF IsList, Members, At

-----------------------------------------------------------------------------
(* The inductive invariant: which nodes are on which list.                 *)

(* Every allocated node is on exactly one of two lists.                    *)
TwoLists(a, m, c, n, h1, h2) ==
    /\ IsList(a, m, h1, next) /\ IsList(c, n, h2, next)
    /\ Members(a, m) \cap Members(c, n) = {}
    /\ Members(a, m) \cup Members(c, n) = live

(* The open scopes are those of a, and c is ready for use.                 *)
Open(a, m, c, n) ==
    /\ TwoLists(a, m, c, n, active, cache)
    /\ \A x \in Members(c, n) : map[x] = NoScope

(* A lookup has passed the nodes before the k-th without finding the name. *)
SearchedTo(a, m, k) ==
    /\ k \in 1 .. m + 1 /\ node = At(a, m, k)
    /\ \A i \in 1 .. k - 1 : name \notin DOMAIN map[a[i]]

Opened ==
    \E m, n \in Nat : \E a \in [1 .. m -> Nodes], c \in [1 .. n -> Nodes] :
        /\ Open(a, m, c, n)
        /\ pc = "get" => \E k \in 1 .. m + 1 : SearchedTo(a, m, k)

(* The destructor has two lists of nodes ahead of it.                      *)
Ahead(h1, h2) ==
    \E m, n \in Nat : \E a \in [1 .. m -> Nodes], c \in [1 .. n -> Nodes] :
        TwoLists(a, m, c, n, h1, h2)

Types == TypeOK /\ map = [x \in Nodes |-> map[x]] /\ (pc = "get" => name \in Names)

Shape ==
    /\ pc \in {"ready", "get"} => Opened
    /\ pc = "destroy_active" => Ahead(node, cache)
    /\ pc = "destroy_cache" => Ahead(node, NULL)
    /\ pc = "destroyed" => live = {}

IInv == Types /\ Shape

LEMMA OpenFacts ==
    ASSUME NEW a, NEW m, NEW c, NEW n, NEW h1, NEW h2,
           TwoLists(a, m, c, n, h1, h2)
    PROVE  m \in Nat /\ n \in Nat /\ a \in [1 .. m -> Nodes] /\ c \in [1 .. n -> Nodes]
  BY DEF TwoLists, IsList

-----------------------------------------------------------------------------
(* What each operation does to the two lists.                              *)

LEMMA PushCachedLists ==
    ASSUME NEW a, NEW m, NEW c, NEW n, Open(a, m, c, n), TypeOK, PushCached,
           NEW x, x = cache
    PROVE  Open(Cons(x, a, m), m + 1, From(c, n, 2), n - 1)'
  <1> DEFINE b == Cons(x, a, m)
             d == From(c, n, 2)
  <1>1. /\ IsList(a, m, active, next) /\ IsList(c, n, cache, next)
        /\ Members(a, m) \cap Members(c, n) = {}
        /\ Members(a, m) \cup Members(c, n) = live
        /\ \A y \in Members(c, n) : map[y] = NoScope
    BY DEF Open, TwoLists
  <1>2. /\ cache # NULL /\ cache' = next[cache] /\ active' = x
        /\ next' = [next EXCEPT ![cache] = active]
        /\ map' = map /\ live' = live
    BY DEF PushCached
  <1>3. /\ IsList(d, n - 1, next[cache], next)
        /\ Members(d, n - 1) = Members(c, n) \ {x}
        /\ cache \in Members(c, n) /\ x \in Nodes
    BY <1>1, <1>2, TailList
  <1>4. next'[x] = active /\ \A y \in Nodes \ {x} : next'[y] = next[y]
    BY <1>2, <1>3 DEF TypeOK
  <1>5. Members(a, m) \subseteq Nodes /\ Members(c, n) \subseteq Nodes
    BY <1>1, ListIsShort
  <1>6. x \notin Members(a, m)
    BY <1>1, <1>3
  <1>7. /\ IsList(b, m + 1, x, next')
        /\ Members(b, m + 1) = Members(a, m) \cup {x}
    BY <1>1, <1>3, <1>4, <1>5, <1>6, ConsList
  <1>8. IsList(d, n - 1, cache', next')
    <2>1. \A y \in Members(d, n - 1) : next'[y] = next[y]
      BY <1>3, <1>4, <1>5
    <2>2. IsList(d, n - 1, cache', next)
      BY <1>2, <1>3
    <2> HIDE DEF d
    <2> QED BY <2>1, <2>2, SameLinksSameList
  <1> HIDE DEF b, d
  <1>9. /\ Members(b, m + 1) \cap Members(d, n - 1) = {}
        /\ Members(b, m + 1) \cup Members(d, n - 1) = live
        /\ \A y \in Members(d, n - 1) : map[y] = NoScope
    BY <1>1, <1>3, <1>7
  <1>10. Open(b, m + 1, d, n - 1)'
    BY <1>2, <1>7, <1>8, <1>9 DEF Open, TwoLists
  <1> QED BY <1>10 DEF b, d

LEMMA PushNewLists ==
    ASSUME NEW a, NEW m, NEW c, NEW n, Open(a, m, c, n), TypeOK,
           map = [y \in Nodes |-> map[y]], NEW x \in Nodes, PushNew(x)
    PROVE  Open(Cons(x, a, m), m + 1, c, n)'
  <1> DEFINE b == Cons(x, a, m)
  <1>1. /\ IsList(a, m, active, next) /\ IsList(c, n, cache, next)
        /\ Members(a, m) \cap Members(c, n) = {}
        /\ Members(a, m) \cup Members(c, n) = live
        /\ \A y \in Members(c, n) : map[y] = NoScope
    BY DEF Open, TwoLists
  <1>2. /\ x \notin live /\ active' = x /\ cache' = cache
        /\ next' = [next EXCEPT ![x] = active]
        /\ map' = [map EXCEPT ![x] = NoScope] /\ live' = live \cup {x}
    BY DEF PushNew
  <1>3. next'[x] = active /\ \A y \in Nodes \ {x} : next'[y] = next[y]
    BY <1>2 DEF TypeOK
  <1>4. Members(a, m) \subseteq Nodes /\ Members(c, n) \subseteq Nodes
    BY <1>1, ListIsShort
  <1>5. x \notin Members(a, m) /\ x \notin Members(c, n)
    BY <1>1, <1>2
  <1>6. /\ IsList(b, m + 1, x, next')
        /\ Members(b, m + 1) = Members(a, m) \cup {x}
    BY <1>1, <1>3, <1>4, <1>5, ConsList
  <1>7. IsList(c, n, cache, next')
    BY <1>1, <1>3, <1>4, <1>5, SameLinksSameList
  <1>8. \A y \in Members(c, n) : map'[y] = NoScope
    BY <1>1, <1>2, <1>4, <1>5
  <1> HIDE DEF b
  <1>9. /\ Members(b, m + 1) \cap Members(c, n) = {}
        /\ Members(b, m + 1) \cup Members(c, n) = live'
    BY <1>1, <1>2, <1>5, <1>6
  <1>10. Open(b, m + 1, c, n)'
    BY <1>2, <1>6, <1>7, <1>8, <1>9 DEF Open, TwoLists
  <1> QED BY <1>10 DEF b

LEMMA PopLists ==
    ASSUME NEW a, NEW m, NEW c, NEW n, Open(a, m, c, n), TypeOK,
           map = [y \in Nodes |-> map[y]], PopScope,
           NEW x, x = active
    PROVE  Open(From(a, m, 2), m - 1, Cons(x, c, n), n + 1)'
  <1> DEFINE b == From(a, m, 2)
             d == Cons(x, c, n)
  <1>1. /\ IsList(a, m, active, next) /\ IsList(c, n, cache, next)
        /\ Members(a, m) \cap Members(c, n) = {}
        /\ Members(a, m) \cup Members(c, n) = live
        /\ \A y \in Members(c, n) : map[y] = NoScope
    BY DEF Open, TwoLists
  <1>2. /\ x \in Nodes /\ active' = next[active] /\ cache' = x
        /\ next' = [next EXCEPT ![active] = cache]
        /\ map' = [map EXCEPT ![active] = NoScope] /\ live' = live
    BY DEF PopScope, TypeOK
  <1>3. /\ IsList(b, m - 1, next[active], next)
        /\ Members(b, m - 1) = Members(a, m) \ {x}
        /\ x \in Members(a, m)
    BY <1>1, <1>2, NodesFinite, TailList
  <1>4. next'[x] = cache /\ \A y \in Nodes \ {x} : next'[y] = next[y]
    BY <1>2 DEF TypeOK
  <1>5. Members(a, m) \subseteq Nodes /\ Members(c, n) \subseteq Nodes
    BY <1>1, ListIsShort
  <1>6. x \notin Members(c, n)
    BY <1>1, <1>3
  <1>7. /\ IsList(d, n + 1, x, next')
        /\ Members(d, n + 1) = Members(c, n) \cup {x}
    <2>1. \A y \in Members(c, n) : next'[y] = next[y]
      BY <1>4, <1>5, <1>6
    <2>2. IsList(c, n, cache, next) /\ x \in Nodes /\ next'[x] = cache
      BY <1>1, <1>2, <1>4
    <2> HIDE DEF b
    <2> QED BY <1>6, <2>1, <2>2, ConsList
  <1>8. IsList(b, m - 1, next[active], next')
    BY <1>3, <1>4, <1>5, SameLinksSameList
  <1> HIDE DEF b, d
  <1>9. /\ Members(b, m - 1) \cap Members(d, n + 1) = {}
        /\ Members(b, m - 1) \cup Members(d, n + 1) = live
    BY <1>1, <1>3, <1>7
  <1>10. \A y \in Members(d, n + 1) : map'[y] = NoScope
    BY <1>1, <1>2, <1>5, <1>7
  <1>11. Open(b, m - 1, d, n + 1)'
    BY <1>2, <1>7, <1>8, <1>9, <1>10 DEF Open, TwoLists
  <1> QED BY <1>11 DEF b, d

LEMMA DeclareLists ==
    ASSUME NEW a, NEW m, NEW c, NEW n, Open(a, m, c, n), TypeOK,
           map = [y \in Nodes |-> map[y]],
           NEW x \in Names, NEW d \in Decls, Declare(x, d)
    PROVE  Open(a, m, c, n)'
  <1>1. /\ IsList(a, m, active, next) /\ IsList(c, n, cache, next)
        /\ Members(a, m) \cap Members(c, n) = {}
        /\ \A y \in Members(c, n) : map[y] = NoScope
    BY DEF Open, TwoLists
  <1>2. active \in Members(a, m) /\ active \notin Members(c, n)
    BY <1>1, NodesFinite, HeadFacts DEF TypeOK
  <1>3. Members(c, n) \subseteq Nodes
    BY <1>1, ListIsShort
  <1>4. \A y \in Nodes \ {active} : map'[y] = map[y]
    BY DEF Declare
  <1>5. \A y \in Members(c, n) : map'[y] = NoScope
    BY <1>1, <1>2, <1>3, <1>4
  <1> QED BY <1>5 DEF Open, TwoLists, Declare, lists

(* The first scope, after DeclMap_init.                                    *)
Empty == [i \in 1 .. 0 |-> NULL]

LEMMA FirstScope ==
    ASSUME NEW x \in Nodes, NEW nx, nx[x] = NULL
    PROVE  /\ IsList(Cons(x, Empty, 0), 1, x, nx) /\ IsList(Empty, 0, NULL, nx)
           /\ Members(Cons(x, Empty, 0), 1) = {x} /\ Members(Empty, 0) = {}
  <1>1. IsList(Empty, 0, NULL, nx) /\ Members(Empty, 0) = {}
    BY NoList DEF Empty
  <1>2. /\ IsList(Cons(x, Empty, 0), 0 + 1, x, nx)
        /\ Members(Cons(x, Empty, 0), 0 + 1) = {x}
    BY <1>1, ConsList
  <1>3. 0 + 1 = 1
    BY SMT
  <1> QED BY <1>1, <1>2, <1>3

(* The next node the destructor frees.                                     *)
LEMMA FreeLists ==
    ASSUME NEW a, NEW m, NEW c, NEW n, NEW h2,
           TwoLists(a, m, c, n, node, h2), FreeNode
    PROVE  /\ IsList(From(a, m, 2), m - 1, node', next')
           /\ IsList(c, n, h2, next')
           /\ Members(From(a, m, 2), m - 1) \cap Members(c, n) = {}
           /\ Members(From(a, m, 2), m - 1) \cup Members(c, n) = live'
  <1>1. /\ IsList(a, m, node, next) /\ IsList(c, n, h2, next)
        /\ Members(a, m) \cap Members(c, n) = {}
        /\ Members(a, m) \cup Members(c, n) = live
    BY DEF TwoLists
  <1>2. /\ node # NULL /\ node' = next[node] /\ next' = next
        /\ live' = live \ {node}
    BY DEF FreeNode, lists
  <1>3. /\ IsList(From(a, m, 2), m - 1, next[node], next)
        /\ Members(From(a, m, 2), m - 1) = Members(a, m) \ {node}
        /\ node \in Members(a, m)
    BY <1>1, <1>2, TailList
  <1> QED BY <1>1, <1>2, <1>3

-----------------------------------------------------------------------------
(* IInv is inductive.                                                      *)

(* Emptying or extending one scope keeps the maps well typed.              *)
LEMMA MapUpdate ==
    ASSUME Types, NEW x \in Nodes, NEW f, map' = [map EXCEPT ![x] = f],
           DOMAIN f \subseteq Names, \A y \in DOMAIN f : f[y] \in Decls
    PROVE  /\ map' = [y \in Nodes |-> map'[y]]
           /\ \A y \in Nodes : DOMAIN map'[y] \subseteq Names
                               /\ \A z \in DOMAIN map'[y] : map'[y][z] \in Decls
  <1>1. DOMAIN map = Nodes
    BY DEF Types
  <1>2. map'[x] = f /\ \A y \in Nodes \ {x} : map'[y] = map[y]
    BY <1>1
  <1>3. map' = [y \in Nodes |-> map'[y]]
    BY <1>1
  <1> QED BY <1>2, <1>3 DEF Types, TypeOK

LEMMA NoScopeFacts == DOMAIN NoScope = {}
  BY DEF NoScope

LEMMA InitTypes == Init => Types
  <1> SUFFICES ASSUME Init PROVE Types
    OBVIOUS
  <1>1. \A x \in Nodes : map[x] = NoScope
    BY DEF Init
  <1> QED BY <1>1, NoScopeFacts DEF Init, Types, TypeOK

LEMMA StepTypes == Types /\ [Next]_vars => Types'
  <1> SUFFICES ASSUME Types, [Next]_vars PROVE Types'
    OBVIOUS
  <1> USE DEF Types
  <1>1. CASE PushCached
    BY <1>1 DEF PushCached, TypeOK, Quiet
  <1>2. CASE PopScope
    <2>1. active \in Nodes /\ map' = [map EXCEPT ![active] = NoScope]
      BY <1>2 DEF PopScope, TypeOK
    <2>2. /\ map' = [y \in Nodes |-> map'[y]]
          /\ \A y \in Nodes : DOMAIN map'[y] \subseteq Names
                               /\ \A z \in DOMAIN map'[y] : map'[y][z] \in Decls
      BY <2>1, MapUpdate, NoScopeFacts
    <2> QED BY <1>2, <2>2 DEF PopScope, TypeOK, Quiet
  <1>3. CASE BeginDestroy
    BY <1>3 DEF BeginDestroy, TypeOK, lists
  <1>4. CASE GetHere
    BY <1>4 DEF GetHere, EndGet, TypeOK, lists
  <1>5. CASE GetOuter
    BY <1>5 DEF GetOuter, TypeOK, lists
  <1>6. CASE GetNowhere
    BY <1>6 DEF GetNowhere, EndGet, TypeOK, lists
  <1>7. CASE FreeNode
    <2>1. node \in Nodes /\ map' = [map EXCEPT ![node] = NoScope]
      BY <1>7 DEF FreeNode, TypeOK
    <2>2. /\ map' = [y \in Nodes |-> map'[y]]
          /\ \A y \in Nodes : DOMAIN map'[y] \subseteq Names
                               /\ \A z \in DOMAIN map'[y] : map'[y][z] \in Decls
      BY <2>1, MapUpdate, NoScopeFacts
    <2> QED BY <1>7, <2>1, <2>2 DEF FreeNode, TypeOK, lists
  <1>8. CASE DestroyCache
    BY <1>8 DEF DestroyCache, TypeOK, lists
  <1>9. CASE EndDestroy
    BY <1>9 DEF EndDestroy, TypeOK, lists
  <1>10. ASSUME NEW n \in Nodes, PushNew(n) PROVE Types'
    <2>1. map' = [map EXCEPT ![n] = NoScope]
      BY <1>10 DEF PushNew
    <2>2. /\ map' = [y \in Nodes |-> map'[y]]
          /\ \A y \in Nodes : DOMAIN map'[y] \subseteq Names
                               /\ \A z \in DOMAIN map'[y] : map'[y][z] \in Decls
      BY <2>1, MapUpdate, NoScopeFacts
    <2> QED BY <1>10, <2>2 DEF PushNew, TypeOK, Quiet
  <1>11. ASSUME NEW n \in Nodes, InitAgain(n) PROVE Types'
    <2>1. map' = [map EXCEPT ![n] = NoScope]
      BY <1>11 DEF InitAgain
    <2>2. /\ map' = [y \in Nodes |-> map'[y]]
          /\ \A y \in Nodes : DOMAIN map'[y] \subseteq Names
                               /\ \A z \in DOMAIN map'[y] : map'[y][z] \in Decls
      BY <2>1, MapUpdate, NoScopeFacts
    <2> QED BY <1>11, <2>2 DEF InitAgain, TypeOK
  <1>12. ASSUME NEW n \in Names, BeginGet(n) PROVE Types'
    BY <1>12 DEF BeginGet, TypeOK, lists
  <1>13. ASSUME NEW n \in Names, NEW d \in Decls, Declare(n, d) PROVE Types'
    <2> DEFINE f == [m \in DOMAIN map[active] \cup {n} |->
                       IF m = n THEN d ELSE map[active][m]]
    <2>1. active \in Nodes /\ map' = [map EXCEPT ![active] = f]
      BY <1>13 DEF Declare, TypeOK
    <2>2. DOMAIN f \subseteq Names /\ \A y \in DOMAIN f : f[y] \in Decls
      BY <2>1 DEF TypeOK
    <2> HIDE DEF f
    <2>3. /\ map' = [y \in Nodes |-> map'[y]]
          /\ \A y \in Nodes : DOMAIN map'[y] \subseteq Names
                               /\ \A z \in DOMAIN map'[y] : map'[y][z] \in Decls
      BY <2>1, <2>2, MapUpdate
    <2> QED BY <1>13, <2>3 DEF Declare, TypeOK, lists, Quiet
  <1>14. CASE UNCHANGED vars
    BY <1>14 DEF vars, TypeOK, lists
  <1> QED BY <1>1, <1>2, <1>3, <1>4, <1>5, <1>6, <1>7, <1>8, <1>9, <1>10,
             <1>11, <1>12, <1>13, <1>14 DEF Next

LEMMA InitShape == Init => Shape
  <1> SUFFICES ASSUME Init PROVE Shape
    OBVIOUS
  <1>1. PICK x \in Nodes :
            /\ active = x /\ cache = NULL /\ next = [y \in Nodes |-> NULL]
            /\ map = [y \in Nodes |-> NoScope] /\ live = {x} /\ pc = "ready"
    BY DEF Init
  <1> DEFINE b == Cons(x, Empty, 0)
             d == Empty
  <1>2. next[x] = NULL
    BY <1>1
  <1>3. /\ IsList(b, 1, x, next) /\ IsList(d, 0, NULL, next)
        /\ Members(b, 1) = {x} /\ Members(d, 0) = {}
    BY <1>2, FirstScope
  <1> HIDE DEF b, d
  <1>4. Open(b, 1, d, 0)
    BY <1>1, <1>3 DEF Open, TwoLists
  <1>5. b \in [1 .. 1 -> Nodes] /\ d \in [1 .. 0 -> Nodes] /\ 1 \in Nat /\ 0 \in Nat
    BY <1>3 DEF IsList
  <1>6. Opened
    BY <1>1, <1>4, <1>5 DEF Opened
  <1> QED BY <1>1, <1>6 DEF Shape

(* The steps between calls keep the two lists.                             *)
LEMMA ReadyStep ==
    ASSUME IInv, pc = "ready", [Next]_vars, pc' = "ready"
    PROVE  Opened'
  <1>1. PICK m \in Nat, n \in Nat : \E a \in [1 .. m -> Nodes], c \in [1 .. n -> Nodes] :
            Open(a, m, c, n)
    BY DEF IInv, Shape, Opened
  <1>2. PICK a \in [1 .. m -> Nodes], c \in [1 .. n -> Nodes] : Open(a, m, c, n)
    BY <1>1
  <1>3. ASSUME NEW b, NEW i, NEW d, NEW j, Open(b, i, d, j)' PROVE Opened'
    <2>1. i \in Nat /\ j \in Nat /\ b \in [1 .. i -> Nodes] /\ d \in [1 .. j -> Nodes]
      BY <1>3 DEF Open, TwoLists, IsList
    <2> QED BY <1>3, <2>1 DEF Opened
  <1>4. TypeOK /\ map = [x \in Nodes |-> map[x]]
    BY DEF IInv, Types
  <1>5. CASE PushCached
    <2>1. PICK x : x = cache
      OBVIOUS
    <2>2. Open(Cons(x, a, m), m + 1, From(c, n, 2), n - 1)'
      BY <1>2, <1>4, <1>5, <2>1, PushCachedLists
    <2> QED BY <1>3, <2>2
  <1>6. CASE PopScope
    <2>1. PICK x : x = active
      OBVIOUS
    <2>2. Open(From(a, m, 2), m - 1, Cons(x, c, n), n + 1)'
      BY <1>2, <1>4, <1>6, <2>1, PopLists
    <2> QED BY <1>3, <2>2
  <1>7. ASSUME NEW x \in Nodes, PushNew(x) PROVE Opened'
    <2>1. Open(Cons(x, a, m), m + 1, c, n)'
      BY <1>2, <1>4, <1>7, PushNewLists
    <2> QED BY <1>3, <2>1
  <1>8. ASSUME NEW x \in Names, NEW d \in Decls, Declare(x, d) PROVE Opened'
    <2>1. Open(a, m, c, n)'
      BY <1>2, <1>4, <1>8, DeclareLists
    <2> QED BY <1>3, <2>1
  <1>9. CASE UNCHANGED vars
    <2>1. Open(a, m, c, n)'
      BY <1>2, <1>9 DEF Open, TwoLists, vars, lists
    <2> QED BY <1>3, <2>1
  <1> QED BY <1>5, <1>6, <1>7, <1>8, <1>9
          DEF Next, BeginGet, BeginDestroy, GetHere, GetOuter, GetNowhere,
              FreeNode, DestroyCache, EndDestroy, InitAgain

LEMMA StepShape == IInv /\ [Next]_vars => Shape'
  <1> SUFFICES ASSUME IInv, [Next]_vars PROVE Shape'
    OBVIOUS
  <1>0. Types /\ Shape /\ TypeOK /\ map = [x \in Nodes |-> map[x]]
    BY DEF IInv, Types
  <1>1. CASE pc = "ready" /\ pc' = "ready"
    BY <1>1, ReadyStep DEF Shape
  <1>2. ASSUME NEW x \in Names, BeginGet(x) PROVE Shape'
    <2>1. PICK m \in Nat, n \in Nat : \E a \in [1 .. m -> Nodes], c \in [1 .. n -> Nodes] :
              Open(a, m, c, n)
      BY <1>0, <1>2 DEF Shape, Opened, BeginGet
    <2>2. PICK a \in [1 .. m -> Nodes], c \in [1 .. n -> Nodes] : Open(a, m, c, n)
      BY <2>1
    <2>3. Open(a, m, c, n)' /\ pc' = "get" /\ node' = active
      BY <1>2, <2>2 DEF BeginGet, Open, TwoLists, lists
    <2>4. active = At(a, m, 1)
      BY <2>2 DEF Open, TwoLists, IsList
    <2>5. SearchedTo(a, m, 1)' /\ 1 \in 1 .. m + 1
      <3>1. 1 \in 1 .. m + 1 /\ 1 .. 1 - 1 = {}
        BY SMT
      <3> QED BY <2>3, <2>4, <3>1 DEF SearchedTo
    <2>6. Opened'
      BY <2>3, <2>5 DEF Opened
    <2> QED BY <2>3, <2>6 DEF Shape
  <1>3. CASE GetHere \/ GetNowhere
    <2>1. PICK m \in Nat, n \in Nat : \E a \in [1 .. m -> Nodes], c \in [1 .. n -> Nodes] :
              Open(a, m, c, n)
      BY <1>0, <1>3 DEF Shape, Opened, GetHere, GetNowhere
    <2>2. PICK a \in [1 .. m -> Nodes], c \in [1 .. n -> Nodes] : Open(a, m, c, n)
      BY <2>1
    <2>3. Open(a, m, c, n)' /\ pc' = "ready"
      BY <1>3, <2>2 DEF GetHere, GetNowhere, EndGet, Open, TwoLists, lists
    <2>4. Opened'
      BY <2>3 DEF Opened
    <2> QED BY <2>3, <2>4 DEF Shape
  <1>4. CASE GetOuter
    <2>1. PICK m \in Nat, n \in Nat : \E a \in [1 .. m -> Nodes], c \in [1 .. n -> Nodes] :
              Open(a, m, c, n) /\ \E k \in 1 .. m + 1 : SearchedTo(a, m, k)
      BY <1>0, <1>4 DEF Shape, Opened, GetOuter
    <2>2. PICK a \in [1 .. m -> Nodes], c \in [1 .. n -> Nodes] :
              Open(a, m, c, n) /\ \E k \in 1 .. m + 1 : SearchedTo(a, m, k)
      BY <2>1
    <2>3. PICK k \in 1 .. m + 1 : SearchedTo(a, m, k)
      BY <2>2
    <2>4. Open(a, m, c, n)' /\ pc' = "get" /\ node' = next[node] /\ map' = map
          /\ name' = name /\ name \notin DOMAIN map[node] /\ node # NULL
      BY <1>4, <2>2 DEF GetOuter, Open, TwoLists, lists
    <2>5. k \in 1 .. m /\ node = a[k]
      BY <2>3, <2>4 DEF SearchedTo, At
    <2>6. k + 1 \in 1 .. m + 1 /\ k + 1 - 1 = k /\ 1 .. k = 1 .. k - 1 \cup {k}
      BY <2>5, SMT
    <2>7. node' = At(a, m, k + 1)
      BY <2>2, <2>4, <2>5 DEF Open, TwoLists, IsList
    <2>8. \A i \in 1 .. k : name \notin DOMAIN map[a[i]]
      BY <2>3, <2>4, <2>5, <2>6 DEF SearchedTo
    <2>9. SearchedTo(a, m, k + 1)'
      BY <2>4, <2>6, <2>7, <2>8 DEF SearchedTo
    <2>10. Opened'
      BY <2>4, <2>6, <2>9 DEF Opened
    <2> QED BY <2>4, <2>10 DEF Shape
  <1>5. CASE BeginDestroy
    <2>1. PICK m \in Nat, n \in Nat : \E a \in [1 .. m -> Nodes], c \in [1 .. n -> Nodes] :
              Open(a, m, c, n)
      BY <1>0, <1>5 DEF Shape, Opened, BeginDestroy
    <2>2. PICK a \in [1 .. m -> Nodes], c \in [1 .. n -> Nodes] : Open(a, m, c, n)
      BY <2>1
    <2>3. TwoLists(a, m, c, n, node, cache)' /\ pc' = "destroy_active"
      BY <1>5, <2>2 DEF BeginDestroy, Open, TwoLists, lists
    <2>4. Ahead(node, cache)'
      BY <2>3 DEF Ahead
    <2> QED BY <2>3, <2>4 DEF Shape
  <1>6. CASE FreeNode /\ pc = "destroy_active"
    <2>1. PICK m \in Nat, n \in Nat : \E a \in [1 .. m -> Nodes], c \in [1 .. n -> Nodes] :
              TwoLists(a, m, c, n, node, cache)
      BY <1>0, <1>6 DEF Shape, Ahead
    <2>2. PICK a \in [1 .. m -> Nodes], c \in [1 .. n -> Nodes] :
              TwoLists(a, m, c, n, node, cache)
      BY <2>1
    <2>3. TwoLists(From(a, m, 2), m - 1, c, n, node, cache)'
      <3>1. cache' = cache
        BY <1>6 DEF FreeNode, lists
      <3> QED BY <1>6, <2>2, <3>1, FreeLists DEF TwoLists
    <2>4. m - 1 \in Nat /\ From(a, m, 2) \in [1 .. m - 1 -> Nodes]
      BY <2>3 DEF TwoLists, IsList
    <2>5. Ahead(node, cache)'
      BY <2>3, <2>4 DEF Ahead
    <2> QED BY <1>6, <2>5 DEF Shape, FreeNode
  <1>7. CASE FreeNode /\ pc = "destroy_cache"
    <2>1. PICK m \in Nat, n \in Nat : \E a \in [1 .. m -> Nodes], c \in [1 .. n -> Nodes] :
              TwoLists(a, m, c, n, node, NULL)
      BY <1>0, <1>7 DEF Shape, Ahead
    <2>2. PICK a \in [1 .. m -> Nodes], c \in [1 .. n -> Nodes] :
              TwoLists(a, m, c, n, node, NULL)
      BY <2>1
    <2>3. TwoLists(From(a, m, 2), m - 1, c, n, node, NULL)'
      BY <1>7, <2>2, FreeLists DEF TwoLists
    <2>4. m - 1 \in Nat /\ From(a, m, 2) \in [1 .. m - 1 -> Nodes]
      BY <2>3 DEF TwoLists, IsList
    <2>5. Ahead(node, NULL)'
      BY <2>3, <2>4 DEF Ahead
    <2> QED BY <1>7, <2>5 DEF Shape, FreeNode
  <1>8. CASE DestroyCache
    <2>1. PICK m \in Nat, n \in Nat : \E a \in [1 .. m -> Nodes], c \in [1 .. n -> Nodes] :
              TwoLists(a, m, c, n, node, cache)
      BY <1>0, <1>8 DEF Shape, Ahead, DestroyCache
    <2>2. PICK a \in [1 .. m -> Nodes], c \in [1 .. n -> Nodes] :
              TwoLists(a, m, c, n, node, cache)
      BY <2>1
    <2>3. m = 0 /\ Members(a, m) = {} /\ IsList(a, m, NULL, next)
      BY <1>8, <2>2, HeadFacts DEF TwoLists, DestroyCache
    <2>4. TwoLists(c, n, a, m, node, NULL)' /\ pc' = "destroy_cache"
      BY <1>8, <2>2, <2>3 DEF TwoLists, DestroyCache, lists
    <2>5. Ahead(node, NULL)'
      BY <2>4 DEF Ahead
    <2> QED BY <2>4, <2>5 DEF Shape
  <1>9. CASE EndDestroy
    <2>1. PICK m \in Nat, n \in Nat : \E a \in [1 .. m -> Nodes], c \in [1 .. n -> Nodes] :
              TwoLists(a, m, c, n, NULL, NULL)
      BY <1>0, <1>9 DEF Shape, Ahead, EndDestroy
    <2>2. PICK a \in [1 .. m -> Nodes], c \in [1 .. n -> Nodes] :
              TwoLists(a, m, c, n, NULL, NULL)
      BY <2>1
    <2>3. live = {}
      <3>1. Members(a, m) = {}
        BY <2>2, HeadFacts DEF TwoLists
      <3>2. Members(c, n) = {}
        BY <2>2, HeadFacts DEF TwoLists
      <3> QED BY <2>2, <3>1, <3>2 DEF TwoLists
    <2> QED BY <1>9, <2>3 DEF Shape, EndDestroy
  <1>10. ASSUME NEW x \in Nodes, InitAgain(x) PROVE Shape'
    <2> DEFINE b == Cons(x, Empty, 0)
               d == Empty
    <2>1. /\ active' = x /\ cache' = NULL /\ next'[x] = NULL /\ pc' = "ready"
          /\ map' = [map EXCEPT ![x] = NoScope] /\ live' = {x}
      BY <1>0, <1>10 DEF InitAgain, Shape, TypeOK
    <2>2. /\ IsList(b, 1, x, next') /\ IsList(d, 0, NULL, next')
          /\ Members(b, 1) = {x} /\ Members(d, 0) = {}
      BY <2>1, FirstScope
    <2> HIDE DEF b, d
    <2>3. Open(b, 1, d, 0)'
      BY <2>1, <2>2 DEF Open, TwoLists
    <2>4. b \in [1 .. 1 -> Nodes] /\ d \in [1 .. 0 -> Nodes] /\ 1 \in Nat /\ 0 \in Nat
      BY <2>2 DEF IsList
    <2>5. Opened'
      BY <2>1, <2>3, <2>4 DEF Opened
    <2> QED BY <2>1, <2>5 DEF Shape
  <1>11. CASE UNCHANGED vars
    BY <1>0, <1>11 DEF vars, lists, Shape, Opened, Ahead, Open, TwoLists, SearchedTo
  <1> QED BY <1>1, <1>2, <1>3, <1>4, <1>5, <1>6, <1>7, <1>8, <1>9, <1>10, <1>11
          DEF Next, PushCached, PopScope, PushNew, Declare, Quiet, FreeNode

LEMMA AlwaysIInv == Spec => []IInv
  <1> QED BY InitTypes, InitShape, StepTypes, StepShape, PTL DEF Spec, IInv

(* Every link, local and declaration has its type: no list walk reads      *)
(* through a null or unset link.                                           *)
THEOREM TypeCorrect == Spec => []TypeOK
  <1>1. IInv => TypeOK
    BY DEF IInv, Types
  <1> QED BY <1>1, AlwaysIInv, PTL

(* Pushing, popping and recycling neither lose a node nor link one twice,  *)
(* and neither a lookup nor the destructor meets a freed node, for any     *)
(* number of nodes and any depth of scopes.                                *)
THEOREM NodesAreKept == Spec => []NodesKept
  <1>1. IInv => NodesKept
    <2> SUFFICES ASSUME IInv PROVE NodesKept
      OBVIOUS
    <2>1. ASSUME pc \in {"ready", "get"}
          PROVE  /\ Ends(active) /\ Ends(cache)
                 /\ OnList(active) \cap OnList(cache) = {}
                 /\ OnList(active) \cup OnList(cache) = live
                 /\ pc = "get" => OnList(node) \subseteq live
      <3>1. PICK m \in Nat, n \in Nat :
                \E a \in [1 .. m -> Nodes], c \in [1 .. n -> Nodes] :
                    /\ Open(a, m, c, n)
                    /\ pc = "get" => \E k \in 1 .. m + 1 : SearchedTo(a, m, k)
        BY <2>1 DEF IInv, Shape, Opened
      <3>2. PICK a \in [1 .. m -> Nodes], c \in [1 .. n -> Nodes] :
                /\ Open(a, m, c, n)
                /\ pc = "get" => \E k \in 1 .. m + 1 : SearchedTo(a, m, k)
        BY <3>1
      <3>3. IsList(a, m, active, next) /\ IsList(c, n, cache, next)
        BY <3>2 DEF Open, TwoLists
      <3>4. Ends(active) /\ OnList(active) = Members(a, m)
        BY <3>3, ListFacts
      <3>5. Ends(cache) /\ OnList(cache) = Members(c, n)
        BY <3>3, ListFacts
      <3>6. ASSUME pc = "get" PROVE OnList(node) \subseteq live
        <4>1. PICK k \in 1 .. m + 1 : SearchedTo(a, m, k)
          BY <3>2, <3>6
        <4>2. /\ IsList(From(a, m, k), m - k + 1, node, next)
              /\ Members(From(a, m, k), m - k + 1) \subseteq Members(a, m)
          BY <3>3, <4>1, RestList DEF SearchedTo
        <4>3. OnList(node) = Members(From(a, m, k), m - k + 1)
          BY <4>2, ListFacts
        <4> QED BY <3>2, <4>2, <4>3 DEF Open, TwoLists
      <3> QED BY <3>2, <3>4, <3>5, <3>6 DEF Open, TwoLists
    <2>2. ASSUME pc = "destroy_active"
          PROVE  OnList(node) \subseteq live /\ OnList(cache) \subseteq live \ OnList(node)
      <3>1. PICK m \in Nat, n \in Nat :
                \E a \in [1 .. m -> Nodes], c \in [1 .. n -> Nodes] :
                    TwoLists(a, m, c, n, node, cache)
        BY <2>2 DEF IInv, Shape, Ahead
      <3>2. PICK a \in [1 .. m -> Nodes], c \in [1 .. n -> Nodes] :
                TwoLists(a, m, c, n, node, cache)
        BY <3>1
      <3>3. IsList(a, m, node, next) /\ IsList(c, n, cache, next)
        BY <3>2 DEF TwoLists
      <3>4. OnList(node) = Members(a, m)
        BY <3>3, ListFacts
      <3>5. OnList(cache) = Members(c, n)
        BY <3>3, ListFacts
      <3> QED BY <3>2, <3>4, <3>5 DEF TwoLists
    <2>3. ASSUME pc = "destroy_cache" PROVE OnList(node) \subseteq live
      <3>1. PICK m \in Nat, n \in Nat :
                \E a \in [1 .. m -> Nodes], c \in [1 .. n -> Nodes] :
                    TwoLists(a, m, c, n, node, NULL)
        BY <2>3 DEF IInv, Shape, Ahead
      <3>2. PICK a \in [1 .. m -> Nodes], c \in [1 .. n -> Nodes] :
                TwoLists(a, m, c, n, node, NULL)
        BY <3>1
      <3>3. IsList(a, m, node, next)
        BY <3>2 DEF TwoLists
      <3>4. OnList(node) = Members(a, m)
        BY <3>3, ListFacts
      <3> QED BY <3>2, <3>4 DEF TwoLists
    <2> QED BY <2>1, <2>2, <2>3 DEF NodesKept
  <1> QED BY <1>1, AlwaysIInv, PTL

(* When the destructor returns, every node has been freed, whatever scopes *)
(* were open when type checking was abandoned.                             *)
THEOREM DestructorFreesAll == Spec => []NothingLeaked
  <1>1. IInv => NothingLeaked
    BY DEF IInv, Shape, NothingLeaked
  <1> QED BY <1>1, AlwaysIInv, PTL

-----------------------------------------------------------------------------
(* DeclMap implements ScopeStack.                                          *)

ScopesOf(a, m, mp) == [i \in 1 .. m |-> mp[a[i]]]

(* The stack of scopes is what the maps along the active list hold.        *)
LEMMA ScopesAre ==
    \A a, m, c, n : Open(a, m, c, n) /\ pc \in {"ready", "get"}
                       => Scopes = ScopesOf(a, m, map)
  <1> TAKE a, m, c, n
  <1> HAVE Open(a, m, c, n) /\ pc \in {"ready", "get"}
  <1>1. IsList(a, m, active, next)
    BY DEF Open, TwoLists
  <1>2. Depth(active) = m /\ \A i \in 1 .. m : Walk(active)[i - 1] = a[i]
    BY <1>1, ListFacts
  <1> QED BY <1>2 DEF Scopes, ScopesOf

LEMMA ScopesAreNext ==
    \A a, m, c, n : Open(a, m, c, n)' /\ pc' \in {"ready", "get"}
                       => Scopes' = ScopesOf(a, m, map')
  <1> DEFINE F == \A a, m, c, n : Open(a, m, c, n) /\ pc \in {"ready", "get"}
                                       => Scopes = ScopesOf(a, m, map)
  <1>1. F
    BY ScopesAre
  <1> HIDE DEF F
  <1>2. F'
    BY <1>1, PTL
  <1> QED BY <1>2 DEF F

Held(a, m, mp) == {mp[a[i]] : i \in 1 .. m}

LEMMA ScopesSeq ==
    ASSUME NEW a, NEW m \in Nat, NEW mp, NEW S, Held(a, m, mp) \subseteq S
    PROVE  /\ ScopesOf(a, m, mp) \in Seq(S)
           /\ Len(ScopesOf(a, m, mp)) = m
           /\ DOMAIN ScopesOf(a, m, mp) = 1 .. m
           /\ \A i \in 1 .. m : ScopesOf(a, m, mp)[i] = mp[a[i]]
  <1> DEFINE t == ScopesOf(a, m, mp)
  <1>1. t \in [1 .. m -> S]
    BY DEF ScopesOf, Held
  <1>2. t \in Seq(S)
    BY <1>1, SeqDef
  <1>3. DOMAIN t = 1 .. m /\ \A i \in 1 .. m : t[i] = mp[a[i]]
    BY DEF ScopesOf
  <1>4. Len(t) = m
    BY <1>2, <1>3, LenProperties, SMT
  <1> QED BY <1>2, <1>3, <1>4

(* The scopes from the k-th on are the same in both maps.                  *)
SameFrom(k, a, m, mp, mp2) == \A i \in k .. m : mp2[a[i]] = mp[a[i]]

OnTop(v, t) == <<v>> \o t

LEMMA PushedScopes ==
    ASSUME NEW a, NEW m \in Nat, NEW mp, NEW mp2, NEW x,
           SameFrom(1, a, m, mp, mp2)
    PROVE  ScopesOf(Cons(x, a, m), m + 1, mp2) = OnTop(mp2[x], ScopesOf(a, m, mp))
  <1> DEFINE v == mp2[x]
             S == Held(a, m, mp) \cup {v}
             t == ScopesOf(a, m, mp)
             u == ScopesOf(Cons(x, a, m), m + 1, mp2)
             w == <<v>> \o t
  <1>1. \A i \in 1 .. m + 1 : Cons(x, a, m)[i] = IF i = 1 THEN x ELSE a[i - 1]
    BY DEF Cons
  <1>2. \A i \in 1 .. m + 1 : i # 1 => i - 1 \in 1 .. m
    BY SMT
  <1>3. \A i \in 1 .. m + 1 : mp2[Cons(x, a, m)[i]] = IF i = 1 THEN v ELSE mp[a[i - 1]]
    BY <1>1, <1>2 DEF SameFrom
  <1>4. Held(Cons(x, a, m), m + 1, mp2) \subseteq S
    BY <1>2, <1>3 DEF Held
  <1>5. m + 1 \in Nat
    BY SMT
  <1>6. /\ t \in Seq(S) /\ Len(t) = m /\ \A i \in 1 .. m : t[i] = mp[a[i]]
    <2>1. Held(a, m, mp) \subseteq S
      OBVIOUS
    <2> HIDE DEF S
    <2> QED BY <2>1, ScopesSeq
  <1>7. /\ u \in Seq(S) /\ Len(u) = m + 1
        /\ \A i \in 1 .. m + 1 : u[i] = mp2[Cons(x, a, m)[i]]
    <2> HIDE DEF S
    <2> QED BY <1>4, <1>5, ScopesSeq
  <1> HIDE DEF t, u
  <1>8. <<v>> \in Seq(S) /\ Len(<<v>>) = 1 /\ <<v>>[1] = v
    <2>1. v \in S
      OBVIOUS
    <2> HIDE DEF S, v
    <2> QED BY <2>1, SMT
  <1> HIDE DEF S, v
  <1>9. /\ w \in Seq(S) /\ Len(w) = 1 + m
        /\ \A i \in 1 .. 1 + m : w[i] = IF i <= 1 THEN <<v>>[i] ELSE t[i - 1]
    BY <1>6, <1>8, ConcatProperties
  <1>10. ASSUME NEW i \in 1 .. Len(u) PROVE u[i] = w[i]
    <2>1. i \in 1 .. m + 1 /\ i \in 1 .. 1 + m
      BY <1>7, SMT
    <2>2. CASE i = 1
      BY <1>3, <1>7, <1>8, <1>9, <2>1, <2>2
    <2>3. CASE i # 1
      <3>1. i - 1 \in 1 .. m /\ ~(i <= 1)
        BY <2>1, <2>3, SMT
      <3>2. w[i] = t[i - 1]
        BY <1>9, <2>1, <3>1
      <3> QED BY <1>3, <1>6, <1>7, <2>1, <2>3, <3>1, <3>2
    <2> QED BY <2>2, <2>3
  <1>11. Len(u) = Len(w)
    BY <1>7, <1>9, SMT
  <1> HIDE DEF w
  <1>12. u = w
    BY <1>7, <1>9, <1>10, <1>11, SeqEqual
  <1> QED BY <1>12 DEF u, w, t, v, OnTop

LEMMA PoppedScopes ==
    ASSUME NEW a, NEW m \in Nat, NEW mp, NEW mp2, m > 0,
           SameFrom(2, a, m, mp, mp2)
    PROVE  /\ ScopesOf(From(a, m, 2), m - 1, mp2) = Tail(ScopesOf(a, m, mp))
           /\ Len(ScopesOf(a, m, mp)) = m
  <1> DEFINE S == Held(a, m, mp)
             t == ScopesOf(a, m, mp)
             u == ScopesOf(From(a, m, 2), m - 1, mp2)
             w == Tail(t)
  <1>1. ASSUME NEW i \in 1 .. m - 1
        PROVE  /\ i + 1 \in 2 .. m /\ i + 1 \in 1 .. m
               /\ mp2[From(a, m, 2)[i]] = mp[a[i + 1]]
    <2>1. i + 1 \in 2 .. m /\ i + 1 \in 1 .. m /\ i + 2 - 1 = i + 1
          /\ i \in 1 .. m - 2 + 1
      BY SMT
    <2> QED BY <2>1 DEF From, SameFrom
  <1>2. Held(From(a, m, 2), m - 1, mp2) \subseteq S /\ m - 1 \in Nat
    <2>1. m - 1 \in Nat
      BY SMT
    <2> QED BY <1>1, <2>1 DEF Held
  <1>3. /\ t \in Seq(S) /\ Len(t) = m /\ \A i \in 1 .. m : t[i] = mp[a[i]]
    BY ScopesSeq
  <1>4. /\ u \in Seq(S) /\ Len(u) = m - 1
        /\ \A i \in 1 .. m - 1 : u[i] = mp2[From(a, m, 2)[i]]
    <2> HIDE DEF S
    <2> QED BY <1>2, ScopesSeq
  <1> HIDE DEF S, t, u
  <1>5. t # << >>
    BY <1>3, EmptySeq, SMT
  <1>6. /\ w \in Seq(S) /\ Len(w) = m - 1
        /\ \A i \in 1 .. Len(w) : w[i] = t[i + 1]
    BY <1>3, <1>5, HeadTailProperties
  <1> HIDE DEF w
  <1>7. \A i \in 1 .. Len(u) : u[i] = w[i]
    BY <1>1, <1>3, <1>4, <1>6
  <1>8. u = w
    BY <1>4, <1>6, <1>7, SeqEqual
  <1> QED BY <1>3, <1>8 DEF u, w, t

-----------------------------------------------------------------------------
(* One step of DeclMap is one step of the stack of scopes, or none.        *)

LEMMA InitRefines == Init => Stack!Init
  <1> SUFFICES ASSUME Init PROVE Stack!Init
    OBVIOUS
  <1>1. PICK x \in Nodes :
            /\ active = x /\ cache = NULL /\ next = [y \in Nodes |-> NULL]
            /\ map = [y \in Nodes |-> NoScope] /\ live = {x} /\ pc = "ready"
            /\ answer = NoDecl
    BY DEF Init
  <1> DEFINE b == Cons(x, Empty, 0)
             d == Empty
  <1>2. next[x] = NULL
    BY <1>1
  <1>3. /\ IsList(b, 1, x, next) /\ IsList(d, 0, NULL, next)
        /\ Members(b, 1) = {x} /\ Members(d, 0) = {}
    BY <1>2, FirstScope
  <1>4. b[1] = x
    BY SMT DEF Cons
  <1> HIDE DEF b, d
  <1>5. Open(b, 1, d, 0)
    BY <1>1, <1>3 DEF Open, TwoLists
  <1>6. Scopes = ScopesOf(b, 1, map)
    BY <1>1, <1>5, ScopesAre
  <1>7. ScopesOf(b, 1, map) = [i \in 1 .. 1 |-> NoScope]
    <2>1. \A i \in 1 .. 1 : map[b[i]] = NoScope
      BY <1>1, <1>4, SMT
    <2> QED BY <2>1 DEF ScopesOf
  <1>8. [i \in 1 .. 1 |-> NoScope] = <<NoScope>>
    BY SMT DEF NoScope
  <1> QED BY <1>1, <1>6, <1>7, <1>8 DEF Stack!Init, Stack!NoScope, NoScope

(* Between calls: the witnesses, with the first scope in sight.            *)
LEMMA OpenNow ==
    ASSUME IInv, pc \in {"ready", "get"}
    PROVE  \E m \in Nat, n \in Nat : \E a \in [1 .. m -> Nodes], c \in [1 .. n -> Nodes] :
              /\ Open(a, m, c, n) /\ Scopes = ScopesOf(a, m, map)
              /\ 1 \in 1 .. m /\ active = a[1]
              /\ pc = "get" => \E k \in 1 .. m + 1 : SearchedTo(a, m, k)
  <1>1. PICK m \in Nat, n \in Nat : \E a \in [1 .. m -> Nodes], c \in [1 .. n -> Nodes] :
            Open(a, m, c, n) /\ (pc = "get" => \E k \in 1 .. m + 1 : SearchedTo(a, m, k))
    BY DEF IInv, Shape, Opened
  <1>2. PICK a \in [1 .. m -> Nodes], c \in [1 .. n -> Nodes] :
            Open(a, m, c, n) /\ (pc = "get" => \E k \in 1 .. m + 1 : SearchedTo(a, m, k))
    BY <1>1
  <1>3. IsList(a, m, active, next) /\ active \in Nodes
    BY <1>2 DEF Open, TwoLists, IInv, Types, TypeOK
  <1>4. 1 \in 1 .. m /\ a[1] = active
    BY <1>3, HeadFacts, NodesFinite
  <1>5. Scopes = ScopesOf(a, m, map)
    BY <1>2, ScopesAre
  <1> QED BY <1>2, <1>4, <1>5

LEMMA PushRefines ==
    ASSUME IInv, PushCached \/ \E x \in Nodes : PushNew(x)
    PROVE  Stack!PushScope
  <1>0. pc = "ready" /\ pc' = "ready" /\ answer' = answer /\ IInv
        /\ TypeOK /\ map = [y \in Nodes |-> map[y]]
    BY DEF PushCached, PushNew, Quiet, IInv, Types
  <1>1. PICK m \in Nat, n \in Nat : \E a \in [1 .. m -> Nodes], c \in [1 .. n -> Nodes] :
            Open(a, m, c, n) /\ Scopes = ScopesOf(a, m, map)
    BY <1>0, OpenNow
  <1>2. PICK a \in [1 .. m -> Nodes], c \in [1 .. n -> Nodes] :
            Open(a, m, c, n) /\ Scopes = ScopesOf(a, m, map)
    BY <1>1
  <1>3. \A i \in 1 .. m : a[i] \in Members(a, m) /\ a[i] \in Nodes
    BY DEF Members
  <1>4. Members(a, m) \cap Members(c, n) = {} /\ Members(a, m) \subseteq live
        /\ \A y \in Members(c, n) : map[y] = NoScope
    BY <1>2 DEF Open, TwoLists
  <1>5. \E x : \E d, j : /\ Open(Cons(x, a, m), m + 1, d, j)'
                         /\ map'[x] = NoScope /\ SameFrom(1, a, m, map, map')
    <2>1. CASE PushCached
      <3>1. PICK x : x = cache
        OBVIOUS
      <3>2. Open(Cons(x, a, m), m + 1, From(c, n, 2), n - 1)'
        BY <1>0, <1>2, <2>1, <3>1, PushCachedLists
      <3>3. x \in Members(c, n) /\ map' = map
        BY <1>2, <2>1, <3>1, HeadFacts DEF Open, TwoLists, PushCached
      <3> QED BY <1>4, <3>2, <3>3 DEF SameFrom
    <2>2. ASSUME NEW x \in Nodes, PushNew(x)
          PROVE  /\ Open(Cons(x, a, m), m + 1, c, n)'
                 /\ map'[x] = NoScope /\ SameFrom(1, a, m, map, map')
      <3>1. Open(Cons(x, a, m), m + 1, c, n)'
        BY <1>0, <1>2, <2>2, PushNewLists
      <3>2. map' = [map EXCEPT ![x] = NoScope] /\ x \notin Members(a, m)
        BY <1>4, <2>2 DEF PushNew
      <3>3. map'[x] = NoScope /\ \A y \in Nodes \ {x} : map'[y] = map[y]
        BY <1>0, <3>2
      <3> QED BY <1>3, <3>1, <3>2, <3>3 DEF SameFrom
    <2> QED BY <2>1, <2>2
  <1>6. PICK x, d, j : /\ Open(Cons(x, a, m), m + 1, d, j)'
                       /\ map'[x] = NoScope /\ SameFrom(1, a, m, map, map')
    BY <1>5
  <1>7. Scopes' = ScopesOf(Cons(x, a, m), m + 1, map')
    BY <1>0, <1>6, ScopesAreNext
  <1>8. ScopesOf(Cons(x, a, m), m + 1, map') = OnTop(map'[x], ScopesOf(a, m, map))
    <2>1. SameFrom(1, a, m, map, map')
      BY <1>6
    <2> QED BY <2>1, PushedScopes
  <1> QED BY <1>0, <1>2, <1>6, <1>7, <1>8
          DEF Stack!PushScope, Stack!NoScope, NoScope, OnTop

LEMMA PopRefines ==
    ASSUME IInv, PopScope
    PROVE  Stack!PopScope
  <1>0. pc = "ready" /\ pc' = "ready" /\ answer' = answer /\ IInv
        /\ TypeOK /\ map = [y \in Nodes |-> map[y]]
        /\ map' = [map EXCEPT ![active] = NoScope] /\ next[active] # NULL
    BY DEF PopScope, Quiet, IInv, Types
  <1>1. PICK m \in Nat, n \in Nat : \E a \in [1 .. m -> Nodes], c \in [1 .. n -> Nodes] :
            /\ Open(a, m, c, n) /\ Scopes = ScopesOf(a, m, map)
            /\ 1 \in 1 .. m /\ active = a[1]
    BY <1>0, OpenNow
  <1>2. PICK a \in [1 .. m -> Nodes], c \in [1 .. n -> Nodes] :
            /\ Open(a, m, c, n) /\ Scopes = ScopesOf(a, m, map)
            /\ 1 \in 1 .. m /\ active = a[1]
    BY <1>1
  <1>3. PICK x : x = active
    OBVIOUS
  <1>4. Open(From(a, m, 2), m - 1, Cons(x, c, n), n + 1)'
    BY <1>0, <1>2, <1>3, PopLists
  <1>5. Scopes' = ScopesOf(From(a, m, 2), m - 1, map')
    BY <1>0, <1>4, ScopesAreNext
  <1>6. SameFrom(2, a, m, map, map')
    <2>1. ASSUME NEW i \in 2 .. m PROVE map'[a[i]] = map[a[i]]
      <3>1. i \in 1 .. m /\ i # 1
        BY SMT
      <3>2. a[i] # a[1] /\ a[i] \in Nodes
        BY <1>2, <3>1 DEF Open, TwoLists, IsList
      <3> QED BY <1>0, <1>2, <3>2
    <2> QED BY <2>1 DEF SameFrom
  <1>7. m > 0
    BY <1>2, SMT
  <1>8. /\ ScopesOf(From(a, m, 2), m - 1, map') = Tail(ScopesOf(a, m, map))
        /\ Len(ScopesOf(a, m, map)) = m
    BY <1>6, <1>7, PoppedScopes
  <1>9. m > 1
    <2> SUFFICES ASSUME m = 1 PROVE FALSE
      BY <1>7, SMT
    <2>1. next[a[1]] = At(a, m, 2)
      BY <1>2, HeadFacts DEF Open, TwoLists
    <2>2. 2 \notin 1 .. m
      BY SMT
    <2> QED BY <1>0, <1>2, <2>1, <2>2 DEF At
  <1> QED BY <1>0, <1>2, <1>5, <1>8, <1>9 DEF Stack!PopScope

LEMMA DeclareRefines ==
    ASSUME IInv, NEW x \in Names, NEW d \in Decls, Declare(x, d)
    PROVE  Stack!Declare(x, d)
  <1>0. pc = "ready" /\ pc' = "ready" /\ answer' = answer /\ IInv
        /\ TypeOK /\ map = [y \in Nodes |-> map[y]]
    BY DEF Declare, Quiet, IInv, Types
  <1>1. PICK m \in Nat, n \in Nat : \E a \in [1 .. m -> Nodes], c \in [1 .. n -> Nodes] :
            /\ Open(a, m, c, n) /\ Scopes = ScopesOf(a, m, map)
            /\ 1 \in 1 .. m /\ active = a[1]
    BY <1>0, OpenNow
  <1>2. PICK a \in [1 .. m -> Nodes], c \in [1 .. n -> Nodes] :
            /\ Open(a, m, c, n) /\ Scopes = ScopesOf(a, m, map)
            /\ 1 \in 1 .. m /\ active = a[1]
    BY <1>1
  <1>3. Open(a, m, c, n)'
    BY <1>0, <1>2, DeclareLists
  <1>4. Scopes' = ScopesOf(a, m, map')
    BY <1>0, <1>3, ScopesAreNext
  <1> DEFINE f == [z \in DOMAIN map[active] \cup {x} |->
                      IF z = x THEN d ELSE map[active][z]]
  <1>5. map' = [map EXCEPT ![active] = f] /\ active \in Nodes
    BY <1>0 DEF Declare, TypeOK
  <1>6. Scopes[1] = map[active] /\ DOMAIN Scopes = 1 .. m
    BY <1>2 DEF ScopesOf
  <1>7. f = [z \in DOMAIN Scopes[1] \cup {x} |-> IF z = x THEN d ELSE Scopes[1][z]]
    BY <1>6
  <1> HIDE DEF f
  <1>8. \A i \in 1 .. m : map'[a[i]] = IF i = 1 THEN f ELSE map[a[i]]
    <2> TAKE i \in 1 .. m
    <2>1. CASE i = 1
      BY <1>0, <1>2, <1>5, <2>1
    <2>2. CASE i # 1
      <3>1. a[i] # a[1] /\ a[i] \in Nodes
        BY <1>2, <2>2 DEF Open, TwoLists, IsList
      <3> QED BY <1>0, <1>2, <1>5, <2>2, <3>1
    <2> QED BY <2>1, <2>2
  <1>9. Scopes' = [Scopes EXCEPT ![1] = f]
    <2>1. DOMAIN Scopes' = 1 .. m /\ Scopes' = [i \in 1 .. m |-> Scopes'[i]]
          /\ \A i \in 1 .. m : Scopes'[i] = IF i = 1 THEN f ELSE map[a[i]]
      BY <1>4, <1>8 DEF ScopesOf
    <2>2. \A i \in 1 .. m : Scopes[i] = map[a[i]]
      BY <1>2 DEF ScopesOf
    <2>3. [Scopes EXCEPT ![1] = f] = [i \in 1 .. m |-> IF i = 1 THEN f ELSE Scopes[i]]
      BY <1>6
    <2>4. \A i \in 1 .. m : Scopes'[i] = IF i = 1 THEN f ELSE Scopes[i]
      BY <2>1, <2>2
    <2>5. [i \in 1 .. m |-> Scopes'[i]]
             = [i \in 1 .. m |-> IF i = 1 THEN f ELSE Scopes[i]]
      BY <2>4
    <2> QED BY <2>1, <2>3, <2>5
  <1>10. Scopes # << >>
    BY <1>2, <1>6, SMT
  <1> QED BY <1>0, <1>7, <1>9, <1>10 DEF Stack!Declare

(* The scopes a lookup still has before it, and what it has found out.     *)
LEMMA GetSees ==
    ASSUME IInv, pc = "get"
    PROVE  \E m \in Nat : \E k \in 1 .. m + 1 : \E a \in [1 .. m -> Nodes] :
              /\ Scopes = ScopesOf(a, m, map) /\ Scopes # << >>
              /\ node = At(a, m, k) /\ name \in Names
              /\ \A i \in 1 .. k - 1 : name \notin DOMAIN map[a[i]]
  <1>1. PICK m \in Nat, n \in Nat : \E a \in [1 .. m -> Nodes], c \in [1 .. n -> Nodes] :
            /\ Open(a, m, c, n) /\ Scopes = ScopesOf(a, m, map)
            /\ 1 \in 1 .. m /\ active = a[1]
            /\ pc = "get" => \E k \in 1 .. m + 1 : SearchedTo(a, m, k)
    BY OpenNow
  <1>2. PICK a \in [1 .. m -> Nodes], c \in [1 .. n -> Nodes] :
            /\ Open(a, m, c, n) /\ Scopes = ScopesOf(a, m, map)
            /\ 1 \in 1 .. m /\ active = a[1]
            /\ pc = "get" => \E k \in 1 .. m + 1 : SearchedTo(a, m, k)
    BY <1>1
  <1>3. PICK k \in 1 .. m + 1 : SearchedTo(a, m, k)
    BY <1>2
  <1>4. DOMAIN Scopes = 1 .. m
    BY <1>2 DEF ScopesOf
  <1>5. Scopes # << >>
    BY <1>2, <1>4, SMT
  <1>6. name \in Names
    BY DEF IInv, Types
  <1> QED BY <1>2, <1>3, <1>5, <1>6 DEF SearchedTo

LEMMA GetHereRefines ==
    ASSUME IInv, GetHere
    PROVE  answer' = Stack!Lookup(name)
  <1>1. PICK m \in Nat : \E k \in 1 .. m + 1 : \E a \in [1 .. m -> Nodes] :
            /\ Scopes = ScopesOf(a, m, map)
            /\ node = At(a, m, k)
            /\ \A i \in 1 .. k - 1 : name \notin DOMAIN map[a[i]]
    BY GetSees DEF GetHere
  <1>2. PICK k \in 1 .. m + 1 : \E a \in [1 .. m -> Nodes] :
            /\ Scopes = ScopesOf(a, m, map)
            /\ node = At(a, m, k)
            /\ \A i \in 1 .. k - 1 : name \notin DOMAIN map[a[i]]
    BY <1>1
  <1>3. PICK a \in [1 .. m -> Nodes] :
            /\ Scopes = ScopesOf(a, m, map)
            /\ node = At(a, m, k)
            /\ \A i \in 1 .. k - 1 : name \notin DOMAIN map[a[i]]
    BY <1>2
  <1>4. node # NULL /\ name \in DOMAIN map[node] /\ answer' = map[node][name]
    BY DEF GetHere, EndGet
  <1>5. k \in 1 .. m /\ node = a[k]
    BY <1>3, <1>4 DEF At
  <1> DEFINE D == Stack!Declaring(name)
  <1>6. DOMAIN Scopes = 1 .. m /\ \A i \in 1 .. m : Scopes[i] = map[a[i]]
    BY <1>3 DEF ScopesOf
  <1>7. k \in D /\ D \subseteq 1 .. m
    BY <1>4, <1>5, <1>6 DEF Stack!Declaring
  <1>8. \A i \in D : k <= i
    <2> SUFFICES ASSUME NEW i \in D, ~(k <= i) PROVE FALSE
      OBVIOUS
    <2>1. i \in 1 .. k - 1
      BY <1>5, <1>7, SMT
    <2>2. name \in DOMAIN map[a[i]]
      BY <1>6, <1>7 DEF Stack!Declaring
    <2> QED BY <1>3, <2>1, <2>2
  <1>9. Stack!Min(D) = k
    <2>1. \A i \in D : (\A j \in D : i <= j) => i = k
      BY <1>5, <1>7, <1>8, SMT
    <2> HIDE DEF D
    <2> QED BY <1>7, <1>8, <2>1, Zenon DEF Stack!Min
  <1>10. D # {}
    BY <1>7
  <1> QED BY <1>4, <1>5, <1>6, <1>9, <1>10 DEF Stack!Lookup

LEMMA GetNowhereRefines ==
    ASSUME IInv, GetNowhere
    PROVE  answer' = Stack!Lookup(name)
  <1>1. PICK m \in Nat : \E k \in 1 .. m + 1 : \E a \in [1 .. m -> Nodes] :
            /\ Scopes = ScopesOf(a, m, map)
            /\ node = At(a, m, k)
            /\ \A i \in 1 .. k - 1 : name \notin DOMAIN map[a[i]]
    BY GetSees DEF GetNowhere
  <1>2. PICK k \in 1 .. m + 1 : \E a \in [1 .. m -> Nodes] :
            /\ Scopes = ScopesOf(a, m, map)
            /\ node = At(a, m, k)
            /\ \A i \in 1 .. k - 1 : name \notin DOMAIN map[a[i]]
    BY <1>1
  <1>3. PICK a \in [1 .. m -> Nodes] :
            /\ Scopes = ScopesOf(a, m, map)
            /\ node = At(a, m, k)
            /\ \A i \in 1 .. k - 1 : name \notin DOMAIN map[a[i]]
    BY <1>2
  <1>4. node = NULL /\ answer' = NoDecl
    BY DEF GetNowhere, EndGet
  <1>5. k \notin 1 .. m
    BY <1>3, <1>4, NodesFinite DEF At
  <1>6. DOMAIN Scopes = 1 .. m /\ \A i \in 1 .. m : Scopes[i] = map[a[i]]
    BY <1>3 DEF ScopesOf
  <1>7. 1 .. m \subseteq 1 .. k - 1
    BY <1>5, SMT
  <1>8. Stack!Declaring(name) = {}
    BY <1>3, <1>6, <1>7 DEF Stack!Declaring
  <1> QED BY <1>4, <1>8 DEF Stack!Lookup

(* Nothing but the answer changes when a lookup ends.                      *)
LEMMA GetRefines ==
    ASSUME IInv, GetHere \/ GetNowhere
    PROVE  \E x \in Names : Stack!Get(x)
  <1>1. answer' = Stack!Lookup(name)
    BY GetHereRefines, GetNowhereRefines
  <1>2. pc = "get" /\ pc' = "ready"
        /\ active' = active /\ cache' = cache /\ next' = next /\ map' = map /\ live' = live
    BY DEF GetHere, GetNowhere, EndGet, lists
  <1>3. name \in Names /\ Scopes # << >>
    BY <1>2, GetSees
  <1>4. Scopes' = Scopes
    BY <1>2 DEF Scopes, Depth, OnList, Walk
  <1> QED BY <1>1, <1>3, <1>4 DEF Stack!Get

LEMMA RestartRefines ==
    ASSUME IInv, NEW x \in Nodes, InitAgain(x)
    PROVE  Stack!Restart
  <1> DEFINE b == Cons(x, Empty, 0)
             d == Empty
  <1>1. /\ active' = x /\ cache' = NULL /\ next'[x] = NULL
        /\ pc = "destroyed" /\ pc' = "ready" /\ answer' = answer
        /\ map'[x] = NoScope /\ live' = {x}
    BY DEF InitAgain, IInv, Types, Shape, TypeOK
  <1>2. /\ IsList(b, 1, x, next') /\ IsList(d, 0, NULL, next')
        /\ Members(b, 1) = {x} /\ Members(d, 0) = {}
    BY <1>1, FirstScope
  <1>3. b[1] = x
    BY SMT DEF Cons
  <1> HIDE DEF b, d
  <1>4. Open(b, 1, d, 0)'
    BY <1>1, <1>2 DEF Open, TwoLists
  <1>5. Scopes' = ScopesOf(b, 1, map')
    BY <1>1, <1>4, ScopesAreNext
  <1>6. ScopesOf(b, 1, map') = [i \in 1 .. 1 |-> NoScope]
    <2>1. \A i \in 1 .. 1 : map'[b[i]] = NoScope
      BY <1>1, <1>3, SMT
    <2> QED BY <2>1 DEF ScopesOf
  <1>7. [i \in 1 .. 1 |-> NoScope] = <<NoScope>>
    BY SMT DEF NoScope
  <1>8. Scopes = << >>
    <2>1. Scopes = [i \in 1 .. 0 |-> NoScope]
      BY <1>1 DEF Scopes
    <2> QED BY <2>1, SMT DEF NoScope
  <1> QED BY <1>1, <1>5, <1>6, <1>7, <1>8
          DEF Stack!Restart, Stack!NoScope, NoScope

LEMMA StepRefines == IInv /\ [Next]_vars => [Stack!Next]_(Stack!vars)
  <1> SUFFICES ASSUME IInv, [Next]_vars PROVE Stack!Next \/ UNCHANGED Stack!vars
    OBVIOUS
  <1>1. CASE PushCached
    BY <1>1, PushRefines DEF Stack!Next
  <1>2. CASE PopScope
    BY <1>2, PopRefines DEF Stack!Next
  <1>3. CASE BeginDestroy
    <2>1. pc' = "destroy_active" /\ answer' = answer
      BY <1>3 DEF BeginDestroy
    <2>2. Scopes' = [i \in 1 .. 0 |-> NoScope]
      BY <2>1 DEF Scopes
    <2>3. Scopes' = << >>
      BY <2>2, SMT DEF NoScope
    <2> QED BY <2>1, <2>3 DEF Stack!Next, Stack!Destroy
  <1>4. CASE GetHere \/ GetNowhere
    BY <1>4, GetRefines DEF Stack!Next
  <1>5. CASE GetOuter
    BY <1>5 DEF GetOuter, Stack!vars, Scopes, Depth, OnList, Walk, lists
  <1>6. CASE FreeNode \/ DestroyCache \/ EndDestroy
    BY <1>6 DEF FreeNode, DestroyCache, EndDestroy, Stack!vars, Scopes
  <1>7. ASSUME NEW x \in Nodes, PushNew(x) PROVE Stack!Next
    BY <1>7, PushRefines DEF Stack!Next
  <1>8. ASSUME NEW x \in Nodes, InitAgain(x) PROVE Stack!Next
    BY <1>8, RestartRefines DEF Stack!Next
  <1>9. ASSUME NEW x \in Names, BeginGet(x) PROVE UNCHANGED Stack!vars
    BY <1>9 DEF BeginGet, Stack!vars, Scopes, Depth, OnList, Walk, lists
  <1>10. ASSUME NEW x \in Names, NEW d \in Decls, Declare(x, d) PROVE Stack!Next
    BY <1>10, DeclareRefines DEF Stack!Next
  <1>11. CASE UNCHANGED vars
    BY <1>11 DEF vars, Stack!vars, Scopes, Depth, OnList, Walk, lists
  <1> QED BY <1>1, <1>2, <1>3, <1>4, <1>5, <1>6, <1>7, <1>8, <1>9, <1>10, <1>11
          DEF Next

(* The two linked lists with their recycled nodes are a stack of scopes:   *)
(* a lookup finds the innermost declaration, a popped scope takes its      *)
(* declarations with it, and a recycled node brings none back.             *)
THEOREM StackOfScopes == Spec => ImplementsScopeStack
  <1> QED BY InitRefines, StepRefines, AlwaysIInv, PTL
          DEF Spec, ImplementsScopeStack, Stack!Spec
=============================================================================
