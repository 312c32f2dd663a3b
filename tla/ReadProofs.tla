----------------------------- MODULE ReadProofs -----------------------------
(***************************************************************************)
(* Reads, for any catalog, filters and records: which records a read of a  *)
(* partition returns, and that a read of a rebuilt catalog is the read of  *)
(* the lost one.                                                           *)
(*                                                                         *)
(* On the way, what the operators of LexOrder and ReadQuery return.        *)
(* Sorted has each element at its rank (Ranked).  Files are sorted by key, *)
(* so their joined records come by key (JoinedInOrder), and the stable     *)
(* sort leaves equal versions so (SortedRecords): the last of an entity is *)
(* the one that beats the others (LatestKept).  Rows of the same keys and  *)
(* partitions have the same ranks, so the same objects are decoded in the  *)
(* same order (SameBodies).                                                *)
(***************************************************************************)
EXTENDS RebuiltReads, RebuildProofs, FunctionTheorems, WellFoundedInduction

-----------------------------------------------------------------------------
(* Numbers.                                                                *)

\* A set of naturals has a least element.
LEMMA Least ==
  ASSUME NEW T \in SUBSET Nat, T # {}
  PROVE  \E x \in T : \A y \in T : x <= y
<1> DEFINE S  == FiniteSubsetsOf(Nat)
           SS == StrictSubsetOrdering(Nat)
           TT == {0 .. x : x \in T}
<1>1. TT \subseteq S
  <2>1. \A x \in T : x \in Nat /\ 0 .. x \subseteq Nat
    OBVIOUS
  <2>2. \A x \in T : IsFiniteSet(0 .. x)
    BY <2>1, FS_Interval
  <2> QED BY <2>1, <2>2 DEF FiniteSubsetsOf
<1>2. TT # {}
  OBVIOUS
<1>3. IsWellFoundedOn(SS, S)
  BY FS_StrictSubsetOrderingWellFounded, Zenon
<1>4. PICK A \in TT : \A B \in TT : ~ (<<B, A>> \in SS)
  <2> HIDE DEF S, SS, TT
  <2> QED BY <1>1, <1>2, <1>3, WFMin
<1>5. PICK x \in T : A = 0 .. x
  OBVIOUS
<1>6. ASSUME NEW y \in T, y < x PROVE FALSE
  <2>1. 0 .. y \in SUBSET Nat /\ 0 .. x \in SUBSET Nat /\ 0 .. y \in TT
    OBVIOUS
  <2>2. 0 .. y \subseteq 0 .. x /\ 0 .. y # 0 .. x
    BY <1>6
  <2>3. <<0 .. y, 0 .. x>> \in SS
    BY <2>1, <2>2 DEF StrictSubsetOrdering
  <2> QED BY <1>4, <1>5, <2>1, <2>3
<1> QED BY <1>6

\* And so has one that is bounded a greatest.
LEMMA Greatest ==
  ASSUME NEW n \in Nat, NEW T \in SUBSET (1 .. n), T # {}
  PROVE  \E x \in T : \A y \in T : y <= x
<1> DEFINE U == {n - x : x \in T}
<1>1. U \in SUBSET Nat /\ U # {}
  <2>1. \A x \in T : n - x \in Nat
    OBVIOUS
  <2> QED BY <2>1
<1>2. PICK u \in U : \A v \in U : u <= v
  BY <1>1, Least
<1>3. PICK x \in T : u = n - x
  OBVIOUS
<1>4. \A y \in T : n - x <= n - y
  BY <1>2, <1>3
<1> QED BY <1>4

-----------------------------------------------------------------------------
(* Sorting.                                                                *)

StrictOrder(S, R) ==
  /\ \A x \in S : <<x, x>> \notin R
  /\ \A x, y, z \in S : <<x, y>> \in R /\ <<y, z>> \in R => <<x, z>> \in R
  /\ \A x, y \in S : x = y \/ <<x, y>> \in R \/ <<y, x>> \in R

Rank(S, R, x) == Cardinality(Before(S, R, x))

\* Every element has a rank of its own, below the number of elements, and every
\* such number is the rank of one.
LEMMA Ranks ==
  ASSUME NEW S, IsFiniteSet(S), NEW R, StrictOrder(S, R)
  PROVE  /\ \A x \in S : Rank(S, R, x) \in 0 .. Cardinality(S) - 1
         /\ \A x, y \in S : <<x, y>> \in R => Rank(S, R, x) < Rank(S, R, y)
         /\ \A x, y \in S : Rank(S, R, x) = Rank(S, R, y) => x = y
         /\ \A i \in 1 .. Cardinality(S) : \E x \in S : Rank(S, R, x) = i - 1
<1> DEFINE n == Cardinality(S)
<1>1. n \in Nat
  BY FS_CardinalityType
<1>2. ASSUME NEW A \in SUBSET S, NEW B \in SUBSET S, NEW b \in B, A \subseteq B, b \notin A
      PROVE  Cardinality(A) \in Nat /\ Cardinality(B) \in Nat /\ Cardinality(A) < Cardinality(B)
  <2>1. IsFiniteSet(A) /\ IsFiniteSet(B)
    BY FS_Subset
  <2>2. /\ Cardinality(A) \in Nat /\ Cardinality(B) \in Nat
        /\ Cardinality(A) <= Cardinality(B) /\ (Cardinality(B) = Cardinality(A) => B = A)
    BY <1>2, <2>1, FS_Subset, FS_CardinalityType
  <2> QED BY <1>2, <2>2
<1>3. \A x \in S : Rank(S, R, x) \in 0 .. n - 1
  <2> TAKE x \in S
  <2>1. Before(S, R, x) \in SUBSET S /\ x \notin Before(S, R, x)
    BY DEF Before, StrictOrder
  <2>2. /\ Cardinality(Before(S, R, x)) \in Nat
        /\ Cardinality(Before(S, R, x)) < Cardinality(S)
    BY <1>2, <2>1
  <2> QED BY <1>1, <2>2 DEF Rank
<1>4. ASSUME NEW x \in S, NEW y \in S, <<x, y>> \in R
      PROVE  Rank(S, R, x) < Rank(S, R, y)
  <2>1. /\ Before(S, R, x) \in SUBSET S /\ Before(S, R, y) \in SUBSET S
        /\ x \in Before(S, R, y) /\ x \notin Before(S, R, x)
        /\ Before(S, R, x) \subseteq Before(S, R, y)
    BY <1>4 DEF Before, StrictOrder
  <2> QED BY <1>2, <2>1 DEF Rank
<1>5. \A x, y \in S : Rank(S, R, x) = Rank(S, R, y) => x = y
  <2> SUFFICES ASSUME NEW x \in S, NEW y \in S, x # y PROVE Rank(S, R, x) # Rank(S, R, y)
    OBVIOUS
  <2>1. Rank(S, R, x) \in Int /\ Rank(S, R, y) \in Int
    BY <1>1, <1>3
  <2>2. Rank(S, R, x) < Rank(S, R, y) \/ Rank(S, R, y) < Rank(S, R, x)
    BY <1>4 DEF StrictOrder
  <2> QED BY <2>1, <2>2
<1>6. \A i \in 1 .. n : \E x \in S : Rank(S, R, x) = i - 1
  <2> DEFINE f == [x \in S |-> Rank(S, R, x)]
             T == 0 .. n - 1
  <2>1. f \in [S -> T] /\ \A x, y \in S : f[x] = f[y] => x = y
    BY <1>3, <1>5
  <2>2. IsFiniteSet(T) /\ Cardinality(T) = n
    BY <1>1, FS_Interval
  <2>3. f \in Injection(S, T)
    <3> HIDE DEF f, T
    <3> QED BY <2>1, Fun_IsInj
  <2>4. f \in Surjection(S, T)
    <3> HIDE DEF f, T
    <3> QED BY <2>2, <2>3, FS_Injection
  <2>5. \A t \in T : \E x \in S : f[x] = t
    <3> HIDE DEF f, T
    <3> QED BY <2>4, Fun_SurjectionProperties
  <2> QED BY <1>1, <2>5
<1> QED BY <1>3, <1>4, <1>5, <1>6

\* Sorted has the elements of the set, each once and in order.
LEMMA Ranked ==
  ASSUME NEW S, IsFiniteSet(S), NEW R, StrictOrder(S, R)
  PROVE  /\ Sorted(S, R) \in Seq(S) /\ DOMAIN Sorted(S, R) = 1 .. Cardinality(S)
         /\ Len(Sorted(S, R)) = Cardinality(S) /\ Cardinality(S) \in Nat
         /\ \A i \in 1 .. Cardinality(S) : Sorted(S, R)[i] \in S
         /\ \A i \in 1 .. Cardinality(S) : Rank(S, R, Sorted(S, R)[i]) = i - 1
         /\ \A x \in S : \E i \in 1 .. Cardinality(S) : Sorted(S, R)[i] = x
         /\ \A i, j \in 1 .. Cardinality(S) :
              i < j => <<Sorted(S, R)[i], Sorted(S, R)[j]>> \in R
<1> DEFINE n == Cardinality(S)
           s == Sorted(S, R)
<1>1. n \in Nat
  BY FS_CardinalityType
<1>2. s = [i \in 1 .. n |-> CHOOSE x \in S : Rank(S, R, x) = i - 1]
  BY DEF Sorted, Rank
<1>3. ASSUME NEW i \in 1 .. n PROVE s[i] \in S /\ Rank(S, R, s[i]) = i - 1
  <2>1. \E x \in S : Rank(S, R, x) = i - 1
    BY Ranks
  <2>2. s[i] = CHOOSE x \in S : Rank(S, R, x) = i - 1
    BY <1>2
  <2> HIDE DEF s
  <2> QED BY <2>1, <2>2
<1>4. s \in [1 .. n -> S]
  <2> HIDE DEF s
  <2> QED BY <1>2, <1>3
<1> HIDE DEF s, n
<1>5. s \in Seq(S) /\ Len(s) = n /\ DOMAIN s = 1 .. n
  BY <1>1, <1>4
<1>6. ASSUME NEW x \in S PROVE \E i \in 1 .. n : s[i] = x
  <2> DEFINE i == Rank(S, R, x) + 1
  <2>1. i \in 1 .. n
    BY <1>1, Ranks DEF n
  <2>2. s[i] \in S /\ Rank(S, R, s[i]) = i - 1
    BY <1>3, <2>1
  <2>3. Rank(S, R, x) \in Int
    BY <1>1, Ranks DEF n
  <2>4. Rank(S, R, s[i]) = Rank(S, R, x)
    BY <2>2, <2>3
  <2>5. s[i] = x
    BY <2>2, <2>4, Ranks
  <2> QED BY <2>1, <2>5
<1>7. ASSUME NEW i \in 1 .. n, NEW j \in 1 .. n, i < j PROVE <<s[i], s[j]>> \in R
  <2>1. /\ s[i] \in S /\ s[j] \in S
        /\ Rank(S, R, s[i]) = i - 1 /\ Rank(S, R, s[j]) = j - 1
    BY <1>3
  <2>2. i \in Int /\ j \in Int
    BY <1>1
  <2>3. s[i] # s[j] /\ ~ (<<s[j], s[i]>> \in R)
    BY <1>7, <2>1, <2>2, Ranks
  <2> QED BY <2>1, <2>3 DEF StrictOrder
<1> QED BY <1>1, <1>3, <1>5, <1>6, <1>7 DEF s, n

-----------------------------------------------------------------------------
(* Joining sequences.                                                      *)

\* The joined beginnings of a sequence of sequences.
Joins(s, n, g) ==
  /\ g[1] = s[1]
  /\ \A i \in 2 .. n : g[i] = g[i - 1] \o s[i]

\* Every sequence of sequences has them.
LEMMA JoinsExist ==
  ASSUME NEW X, NEW s \in Seq(Seq(X)), NEW n \in 1 .. Len(s)
  PROVE  \E g \in [1 .. n -> Seq(X)] : Joins(s, n, g)
<1> DEFINE P(m) == \E g \in [1 .. m -> Seq(X)] : Joins(s, m, g)
           T == {m \in 1 .. Len(s) : ~P(m)}
<1> SUFFICES ASSUME T # {} PROVE FALSE
  OBVIOUS
<1>1. PICK m \in T : \A k \in T : m <= k
  <2>1. T \in SUBSET Nat
    OBVIOUS
  <2> HIDE DEF T
  <2> QED BY <2>1, Least
<1>2. m \in 1 .. Len(s) /\ ~P(m) /\ \A k \in 1 .. Len(s) : k < m => P(k)
  BY <1>1
<1> HIDE DEF T
<1>3. CASE m = 1
  <2> DEFINE g == [i \in 1 .. 1 |-> s[i]]
  <2>1. g \in [1 .. 1 -> Seq(X)] /\ Joins(s, 1, g)
    BY <1>2, <1>3 DEF Joins
  <2> QED BY <1>2, <1>3, <2>1
<1>4. CASE m # 1
  <2>1. m - 1 \in 1 .. Len(s) /\ m - 1 < m /\ m \in Int
    BY <1>2, <1>4
  <2>2. PICK h \in [1 .. m - 1 -> Seq(X)] : Joins(s, m - 1, h)
    BY <1>2, <2>1
  <2> DEFINE g == [i \in 1 .. m |-> IF i = m THEN h[m - 1] \o s[m] ELSE h[i]]
  <2>3. h[m - 1] \in Seq(X) /\ s[m] \in Seq(X)
    BY <1>2, <2>1
  <2>4. h[m - 1] \o s[m] \in Seq(X)
    BY <2>3
  <2>5. ASSUME NEW i \in 1 .. m PROVE g[i] \in Seq(X)
    <3>1. CASE i = m
      BY <2>4, <3>1
    <3>2. CASE i # m
      <4>1. i \in 1 .. m - 1
        BY <2>1, <3>2
      <4> QED BY <3>2, <4>1
    <3> QED BY <3>1, <3>2
  <2>6. g \in [1 .. m -> Seq(X)]
    BY <2>5
  <2>7. g[1] = s[1]
    BY <2>1, <2>2 DEF Joins
  <2>8. ASSUME NEW i \in 2 .. m PROVE g[i] = g[i - 1] \o s[i]
    <3>1. CASE i = m
      <4>1. g[m] = h[m - 1] \o s[m]
        <5>1. m \in 1 .. m
          BY <1>2
        <5> QED BY <5>1
      <4>2. g[m - 1] = h[m - 1]
        <5>1. m - 1 \in 1 .. m /\ m - 1 # m
          BY <2>1
        <5> QED BY <5>1
      <4> QED BY <3>1, <4>1, <4>2
    <3>2. CASE i # m
      <4>1. i \in 2 .. m - 1
        BY <2>1, <3>2
      <4>2. g[i] = h[i] /\ g[i - 1] = h[i - 1]
        BY <2>1, <4>1
      <4>3. h[i] = h[i - 1] \o s[i]
        BY <2>2, <4>1 DEF Joins
      <4> QED BY <4>2, <4>3
    <3> QED BY <3>1, <3>2
  <2> HIDE DEF g
  <2>9. P(m)
    BY <2>6, <2>7, <2>8 DEF Joins
  <2> QED BY <1>2, <2>9
<1> QED BY <1>3, <1>4

\* FlattenSeq is the last of them.
LEMMA Joined ==
  ASSUME NEW X, NEW s \in Seq(Seq(X)), Len(s) # 0
  PROVE  \E g \in [1 .. Len(s) -> Seq(X)] : Joins(s, Len(s), g) /\ FlattenSeq(s) = g[Len(s)]
<1> DEFINE n == Len(s)
           Fits(g) == g = [i \in 1 .. n |-> IF i = 1 THEN s[i] ELSE g[i - 1] \o s[i]]
           f == CHOOSE g : Fits(g)
<1>1. n \in Nat /\ n \in 1 .. n
  OBVIOUS
<1>2. PICK g \in [1 .. n -> Seq(X)] : Joins(s, n, g)
  BY <1>1, JoinsExist
<1>3. Fits(g)
  <2> HIDE DEF n
  <2>1. ASSUME NEW i \in 1 .. n PROVE g[i] = IF i = 1 THEN s[i] ELSE g[i - 1] \o s[i]
    <3>1. i = 1 \/ i \in 2 .. n
      BY <1>1
    <3> QED BY <1>2, <3>1 DEF Joins
  <2> QED BY <2>1
<1>4. Fits(f)
  <2> HIDE DEF Fits
  <2> QED BY <1>3
<1>5. FlattenSeq(s) = f[n]
  BY DEF FlattenSeq
<1> HIDE DEF f
<1>6. Joins(s, n, f) /\ DOMAIN f = 1 .. n
  <2> HIDE DEF n
  <2>1. DOMAIN f = 1 .. n
    BY <1>4
  <2>2. \A i \in 1 .. n : f[i] = IF i = 1 THEN s[i] ELSE f[i - 1] \o s[i]
    BY <1>4
  <2>3. f[1] = s[1]
    <3>1. 1 \in 1 .. n
      BY <1>1
    <3> QED BY <2>2, <3>1
  <2>4. ASSUME NEW i \in 2 .. n PROVE f[i] = f[i - 1] \o s[i]
    <3>1. i \in 1 .. n /\ i # 1
      BY <1>1
    <3> QED BY <2>2, <3>1
  <2> QED BY <2>1, <2>3, <2>4 DEF Joins
<1>7. \A i \in 1 .. n : f[i] = g[i]
  <2> DEFINE T == {i \in 1 .. n : f[i] # g[i]}
  <2> SUFFICES ASSUME T # {} PROVE FALSE
    OBVIOUS
  <2>1. T \in SUBSET Nat
    BY <1>1
  <2>2. PICK i \in T : \A j \in T : i <= j
    BY <2>1, Least
  <2>3. i \in 1 .. n /\ f[i] # g[i] /\ \A j \in 1 .. n : j < i => f[j] = g[j]
    BY <2>1, <2>2
  <2> HIDE DEF T, n
  <2>4. CASE i = 1
    BY <1>2, <1>6, <2>3, <2>4 DEF Joins
  <2>5. CASE i # 1
    <3>1. i \in 2 .. n /\ i - 1 \in 1 .. n /\ i - 1 < i
      BY <1>1, <2>3, <2>5
    <3>2. f[i - 1] = g[i - 1]
      BY <2>3, <3>1
    <3>3. f[i] = f[i - 1] \o s[i] /\ g[i] = g[i - 1] \o s[i]
      BY <1>2, <1>6, <3>1 DEF Joins
    <3> QED BY <2>3, <3>2, <3>3
  <2> QED BY <2>4, <2>5
<1>8. f[n] = g[n]
  BY <1>1, <1>7
<1> QED BY <1>2, <1>5, <1>8

\* A joined sequence has the elements of its parts and no others, those of each part
\* before those of the next.
InParts(s, n, all) ==
  /\ \A i \in 1 .. Len(all) : \E k \in 1 .. n : \E a \in 1 .. Len(s[k]) : all[i] = s[k][a]
  /\ \A k \in 1 .. n : \A a \in 1 .. Len(s[k]) : \E i \in 1 .. Len(all) : all[i] = s[k][a]
  /\ \A i, j \in 1 .. Len(all) : i < j => all[i].from <= all[j].from

LEMMA JoinedInOrder ==
  ASSUME NEW X, \A x \in X : x.from \in Nat, NEW s \in Seq(Seq(X)), NEW K \in Seq(Nat),
         Len(K) = Len(s), \A i, j \in 1 .. Len(s) : i < j => K[i] <= K[j],
         \A i \in 1 .. Len(s) : \A a \in 1 .. Len(s[i]) : s[i][a].from = K[i]
  PROVE  FlattenSeq(s) \in Seq(X) /\ InParts(s, Len(s), FlattenSeq(s))
<1>1. CASE Len(s) = 0
  <2>1. s = << >> /\ FlattenSeq(s) = s
    BY <1>1 DEF FlattenSeq
  <2>2. FlattenSeq(s) = << >> /\ << >> \in Seq(X) /\ Len(<< >>) = 0 /\ 1 .. 0 = {}
    BY <2>1
  <2> QED BY <1>1, <2>2 DEF InParts
<1>2. CASE Len(s) # 0
  <2> DEFINE n == Len(s)
  <2>1. n \in Nat /\ n \in 1 .. n /\ DOMAIN s = 1 .. n
    BY <1>2
  <2>2. PICK g \in [1 .. n -> Seq(X)] : Joins(s, n, g) /\ FlattenSeq(s) = g[n]
    BY <1>2, Joined
  <2> HIDE DEF n
  <2>3. \A k \in 1 .. n : s[k] \in Seq(X)
    BY <2>1
  <2>4. \A k \in 1 .. n : InParts(s, k, g[k])
    <3> DEFINE T == {k \in 1 .. n : ~InParts(s, k, g[k])}
    <3> SUFFICES ASSUME T # {} PROVE FALSE
      OBVIOUS
    <3>1. T \in SUBSET Nat
      BY <2>1
    <3>2. PICK k \in T : \A j \in T : k <= j
      BY <3>1, Least
    <3>3. /\ k \in 1 .. n /\ ~InParts(s, k, g[k])
          /\ \A j \in 1 .. n : j < k => InParts(s, j, g[j])
      BY <2>1, <3>2
    <3> HIDE DEF T
    <3>4. CASE k = 1
      <4>1. g[1] = s[1] /\ s[1] \in Seq(X)
        BY <2>2, <2>3, <3>3, <3>4 DEF Joins
      <4>2. \A a \in 1 .. Len(s[1]) : s[1][a].from = K[1] /\ K[1] \in Nat
        BY <2>1, <3>3, <3>4 DEF n
      <4>3. InParts(s, 1, g[1])
        BY <4>1, <4>2 DEF InParts
      <4> QED BY <3>3, <3>4, <4>3
    <3>5. CASE k # 1
      <4>1. k \in 2 .. n /\ k \in Nat /\ k - 1 \in 1 .. n /\ k - 1 < k
        BY <2>1, <3>3, <3>5
      <4> DEFINE x == g[k - 1]
                 y == s[k]
                 z == g[k]
      <4>2. x \in Seq(X) /\ y \in Seq(X) /\ z = x \o y /\ InParts(s, k - 1, x)
        BY <2>2, <2>3, <3>3, <4>1 DEF Joins
      <4> HIDE DEF x, y, z
      <4>3. /\ Len(x) \in Nat /\ Len(y) \in Nat /\ Len(z) = Len(x) + Len(y)
            /\ \A i \in 1 .. Len(x) : z[i] = x[i] /\ x[i] \in X
            /\ \A i \in 1 .. Len(y) : z[Len(x) + i] = y[i] /\ y[i] \in X
            /\ \A i \in 1 .. Len(z) : i \in 1 .. Len(x) \/ i - Len(x) \in 1 .. Len(y)
        BY <4>2
      <4>4. /\ \A i \in 1 .. Len(x) : \E j \in 1 .. k - 1 : \E a \in 1 .. Len(s[j]) : x[i] = s[j][a]
            /\ \A j \in 1 .. k - 1 : \A a \in 1 .. Len(s[j]) : \E i \in 1 .. Len(x) : x[i] = s[j][a]
            /\ \A i, j \in 1 .. Len(x) : i < j => x[i].from <= x[j].from
        BY <4>2 DEF InParts
      <4>5. ASSUME NEW i \in 1 .. Len(z)
            PROVE  \E j \in 1 .. k : \E a \in 1 .. Len(s[j]) : z[i] = s[j][a]
        <5>1. CASE i \in 1 .. Len(x)
          <6>1. PICK j \in 1 .. k - 1 : \E a \in 1 .. Len(s[j]) : x[i] = s[j][a]
            BY <4>4, <5>1
          <6>2. j \in 1 .. k
            BY <4>1
          <6> QED BY <4>3, <5>1, <6>1, <6>2
        <5>2. CASE i - Len(x) \in 1 .. Len(y)
          <6>1. z[i] = y[i - Len(x)]
            <7>1. Len(x) + (i - Len(x)) = i
              BY <4>3
            <7> QED BY <4>3, <5>2, <7>1
          <6>2. k \in 1 .. k
            BY <4>1
          <6> QED BY <5>2, <6>1, <6>2 DEF y
        <5> QED BY <4>3, <5>1, <5>2
      <4>6. ASSUME NEW j \in 1 .. k, NEW a \in 1 .. Len(s[j])
            PROVE  \E i \in 1 .. Len(z) : z[i] = s[j][a]
        <5>1. CASE j = k
          <6>1. a \in 1 .. Len(y) /\ s[j][a] = y[a]
            BY <5>1 DEF y
          <6>2. Len(x) + a \in 1 .. Len(z) /\ z[Len(x) + a] = y[a]
            BY <4>3, <6>1
          <6> QED BY <6>1, <6>2
        <5>2. CASE j # k
          <6>1. j \in 1 .. k - 1
            BY <4>1, <5>2
          <6>2. PICK i \in 1 .. Len(x) : x[i] = s[j][a]
            BY <4>4, <6>1
          <6>3. i \in 1 .. Len(z) /\ z[i] = x[i]
            BY <4>3
          <6> QED BY <6>2, <6>3
        <5> QED BY <5>1, <5>2
      <4>7. /\ \A i \in 1 .. Len(y) : y[i].from = K[k]
            /\ \A i \in 1 .. Len(x) : x[i].from <= K[k]
        <5>1. /\ \A j \in 1 .. n : K[j] \in Nat
              /\ \A j \in 1 .. k - 1 : K[j] <= K[k]
              /\ \A j \in 1 .. n : \A a \in 1 .. Len(s[j]) : s[j][a].from = K[j]
          <6>1. \A j \in 1 .. n : K[j] \in Nat
            BY DEF n
          <6>2. \A i, j \in 1 .. n : i < j => K[i] <= K[j]
            BY DEF n
          <6>3. \A j \in 1 .. k - 1 : j \in 1 .. n /\ j < k
            BY <2>1, <4>1
          <6>4. \A j \in 1 .. k - 1 : K[j] <= K[k]
            BY <3>3, <6>2, <6>3
          <6>5. \A j \in 1 .. n : \A a \in 1 .. Len(s[j]) : s[j][a].from = K[j]
            BY DEF n
          <6> QED BY <6>1, <6>4, <6>5
        <5>2. \A i \in 1 .. Len(y) : y[i].from = K[k]
          BY <4>1, <5>1 DEF y
        <5>3. ASSUME NEW i \in 1 .. Len(x) PROVE x[i].from <= K[k]
          <6>1. PICK j \in 1 .. k - 1 : \E a \in 1 .. Len(s[j]) : x[i] = s[j][a]
            BY <4>4
          <6>2. j \in 1 .. n /\ k \in 1 .. n
            BY <2>1, <4>1
          <6>3. x[i].from = K[j]
            BY <5>1, <6>1, <6>2
          <6>4. K[j] <= K[k]
            BY <5>1, <6>1
          <6> QED BY <6>3, <6>4
        <5> QED BY <5>2, <5>3
      <4>8. ASSUME NEW i \in 1 .. Len(z), NEW j \in 1 .. Len(z), i < j
            PROVE  z[i].from <= z[j].from
        <5>1. CASE j \in 1 .. Len(x)
          <6>1. i \in 1 .. Len(x)
            BY <4>3, <4>8, <5>1
          <6> QED BY <4>3, <4>4, <4>8, <5>1, <6>1
        <5>2. CASE j - Len(x) \in 1 .. Len(y)
          <6>1. ASSUME NEW h \in 1 .. Len(z), h - Len(x) \in 1 .. Len(y) PROVE z[h].from = K[k]
            <7>1. Len(x) + (h - Len(x)) = h
              BY <4>3
            <7>2. z[h] = y[h - Len(x)]
              BY <4>3, <6>1, <7>1
            <7> QED BY <4>7, <6>1, <7>2
          <6>2. z[j].from = K[k] /\ K[k] \in Nat
            BY <2>1, <4>1, <5>2, <6>1 DEF n
          <6>3. CASE i \in 1 .. Len(x)
            BY <4>3, <4>7, <6>2, <6>3
          <6>4. CASE i - Len(x) \in 1 .. Len(y)
            BY <6>1, <6>2, <6>4
          <6> QED BY <4>3, <6>3, <6>4
        <5> QED BY <4>3, <5>1, <5>2
      <4>9. InParts(s, k, z)
        BY <4>5, <4>6, <4>8 DEF InParts
      <4> QED BY <3>3, <4>9 DEF z
    <3> QED BY <3>4, <3>5
  <2> QED BY <2>1, <2>2, <2>4 DEF n
<1> QED BY <1>1, <1>2

-----------------------------------------------------------------------------
(* Sorting and deduplicating records.                                      *)

Recs == [entity : Nat, version : Int, from : Nat]

\* A record is its three fields.
LEMMA RecsAre ==
  /\ \A a \in Recs : a.entity \in Nat /\ a.version \in Int /\ a.from \in Nat
  /\ \A a, b \in Recs :
       a.entity = b.entity /\ a.version = b.version /\ a.from = b.from => a = b
BY DEF Recs

\* a is not after b in the order of entity, version and key.
NotAfter(a, b) ==
  \/ a.entity < b.entity
  \/ /\ a.entity = b.entity
     /\ \/ a.version < b.version
        \/ a.version = b.version /\ a.from <= b.from

SameElements(s, t) ==
  /\ \A i \in 1 .. Len(s) : \E j \in 1 .. Len(t) : s[i] = t[j]
  /\ \A j \in 1 .. Len(t) : \E i \in 1 .. Len(s) : t[j] = s[i]

InRecordOrder(s) == \A i, j \in 1 .. Len(s) : i < j => NotAfter(s[i], s[j])

\* SortRecords permutes, and leaves equal versions as they were given: by key.
LEMMA SortedRecords ==
  ASSUME NEW all \in Seq(Recs), \A i, j \in 1 .. Len(all) : i < j => all[i].from <= all[j].from
  PROVE  LET s == SortRecords(all) IN
           s \in Seq(Recs) /\ SameElements(s, all) /\ InRecordOrder(s)
<1> DEFINE n == Len(all)
           S == 1 .. n
           R == {x \in S \X S : Earlier(all, x[1], x[2])}
           order == Sorted(S, R)
           s == SortRecords(all)
<1>1. n \in Nat /\ DOMAIN all = S /\ IsFiniteSet(S) /\ Cardinality(S) = n
      /\ S = 1 .. Cardinality(S)
  <2>1. n \in Nat /\ DOMAIN all = S
    OBVIOUS
  <2> HIDE DEF n
  <2>2. IsFiniteSet(S) /\ Cardinality(S) = n
    BY <2>1, FS_Interval
  <2> QED BY <2>1, <2>2
<1>2. \A i \in S : /\ all[i] \in Recs /\ i \in Nat
                   /\ all[i].entity \in Nat /\ all[i].version \in Int /\ all[i].from \in Nat
  <2>1. \A i \in S : all[i] \in Recs /\ i \in Nat
    OBVIOUS
  <2> HIDE DEF S
  <2> QED BY <2>1, RecsAre
<1>3. \A i, j \in S : <<i, j>> \in R <=> Earlier(all, i, j)
  OBVIOUS
<1> HIDE DEF n, S, R
<1>4. StrictOrder(S, R)
  <2>1. \A i \in S : <<i, i>> \notin R
    BY <1>2, <1>3 DEF Earlier
  <2>2. ASSUME NEW i \in S, NEW j \in S, NEW k \in S, <<i, j>> \in R, <<j, k>> \in R
        PROVE  <<i, k>> \in R
    <3>1. Earlier(all, i, j) /\ Earlier(all, j, k)
      BY <1>3, <2>2
    <3>2. Earlier(all, i, k)
      BY <1>2, <3>1 DEF Earlier
    <3> QED BY <1>3, <3>2
  <2>3. ASSUME NEW i \in S, NEW j \in S, i # j PROVE Earlier(all, i, j) \/ Earlier(all, j, i)
    BY <1>2, <2>3 DEF Earlier
  <2> QED BY <1>3, <2>1, <2>2, <2>3 DEF StrictOrder
<1>5. /\ order \in Seq(S) /\ DOMAIN order = S
      /\ \A i \in S : order[i] \in S
      /\ \A x \in S : \E i \in S : order[i] = x
      /\ \A i, j \in S : i < j => <<order[i], order[j]>> \in R
  <2>0. IsFiniteSet(S)
    BY <1>1
  <2>1. order \in Seq(S) /\ DOMAIN order = S
    BY <1>1, <1>4, Ranked
  <2>2. \A i \in S : order[i] \in S
    BY <1>1, <1>4, Ranked
  <2>3. ASSUME NEW x \in S PROVE \E i \in S : order[i] = x
    <3>1. \E i \in 1 .. Cardinality(S) : Sorted(S, R)[i] = x
      BY <1>4, <2>0, Ranked
    <3> QED BY <1>1, <3>1
  <2>4. ASSUME NEW i \in S, NEW j \in S, i < j PROVE <<order[i], order[j]>> \in R
    <3>1. i \in 1 .. Cardinality(S) /\ j \in 1 .. Cardinality(S)
      BY <1>1
    <3> QED BY <1>1, <1>4, <2>4, <3>1, Ranked
  <2> HIDE DEF order
  <2> QED BY <2>1, <2>2, <2>3, <2>4
<1>6. s = [i \in S |-> all[order[i]]]
  BY <1>1, <1>5 DEF SortRecords, R
<1> HIDE DEF order, s
<1>7. s \in [1 .. n -> Recs] /\ n \in Nat
  BY <1>1, <1>2, <1>5, <1>6 DEF S
<1>8. s \in Seq(Recs) /\ Len(s) = n
  BY <1>7
<1>9. SameElements(s, all)
  <2>1. \A i \in S : \E j \in S : s[i] = all[j]
    BY <1>5, <1>6
  <2>2. \A j \in S : \E i \in S : all[j] = s[i]
    BY <1>5, <1>6
  <2> QED BY <1>8, <2>1, <2>2 DEF SameElements, S, n
<1>10. ASSUME NEW i \in S, NEW j \in S, i < j PROVE NotAfter(s[i], s[j])
  <2> DEFINE x == order[i]
             y == order[j]
  <2>1. x \in S /\ y \in S /\ Earlier(all, x, y) /\ s[i] = all[x] /\ s[j] = all[y]
    BY <1>3, <1>5, <1>6, <1>10
  <2> HIDE DEF x, y
  <2>2. x < y => all[x].from <= all[y].from
    BY <2>1 DEF S, n
  <2>3. NotAfter(all[x], all[y])
    BY <1>2, <2>1, <2>2 DEF Earlier, NotAfter
  <2> QED BY <2>1, <2>3
<1> QED BY <1>8, <1>9, <1>10 DEF InRecordOrder, S, s

Follow(s, P, a, b) == \E p, q \in P : p < q /\ a = s[p] /\ b = s[q]

\* KeepAt leaves out what is at other positions.
LEMMA Kept ==
  ASSUME NEW s, Len(s) \in Nat, NEW P \in SUBSET (1 .. Len(s)), NEW r, r = KeepAt(s, P)
  PROVE  /\ \A i \in 1 .. Len(r) : \E p \in P : r[i] = s[p]
         /\ \A p \in P : \E i \in 1 .. Len(r) : r[i] = s[p]
         /\ \A i, j \in 1 .. Len(r) : i < j => Follow(s, P, r[i], r[j])
<1> DEFINE R == {x \in P \X P : x[1] < x[2]}
           order == Sorted(P, R)
           m == Cardinality(P)
<1>1. IsFiniteSet(P)
  <2>1. IsFiniteSet(1 .. Len(s))
    BY FS_Interval
  <2> QED BY <2>1, FS_Subset
<1>2. \A i, j \in P : <<i, j>> \in R <=> i < j
  OBVIOUS
<1>3. StrictOrder(P, R)
  <2>1. \A i \in P : i \in Nat
    OBVIOUS
  <2> HIDE DEF R
  <2> QED BY <1>2, <2>1 DEF StrictOrder
<1>4. /\ order \in Seq(P) /\ DOMAIN order = 1 .. m /\ m \in Nat
      /\ \A i \in 1 .. m : order[i] \in P
      /\ \A x \in P : \E i \in 1 .. m : order[i] = x
      /\ \A i, j \in 1 .. m : i < j => <<order[i], order[j]>> \in R
  <2> HIDE DEF R, order
  <2> QED BY <1>1, <1>3, Ranked DEF order
<1>5. r = [i \in 1 .. m |-> s[order[i]]]
  BY <1>4 DEF KeepAt
<1> HIDE DEF R, order, m
<1>6. DOMAIN r = 1 .. m /\ Len(r) = m
  BY <1>4, <1>5
<1>7. \A i \in 1 .. m : \E p \in P : r[i] = s[p]
  BY <1>4, <1>5
<1>8. \A p \in P : \E i \in 1 .. m : r[i] = s[p]
  BY <1>4, <1>5
<1>9. \A i, j \in 1 .. m : i < j => Follow(s, P, r[i], r[j])
  BY <1>2, <1>4, <1>5 DEF Follow
<1> QED BY <1>6, <1>7, <1>8, <1>9

Occurring(s) == {s[i] : i \in 1 .. Len(s)}

Beaten(a, b) ==
  \/ a.version > b.version
  \/ a.version = b.version /\ a.from > b.from

Latest(G) == {a \in G : \A b \in G \ {a} : b.entity = a.entity => Beaten(a, b)}

\* The last of each entity's group is the one that beats the others.
LEMMA LatestKept ==
  ASSUME NEW s \in Seq(Recs), InRecordOrder(s)
  PROVE  LET r == DedupLatest(s) IN
           /\ Occurring(r) = Latest(Occurring(s))
           /\ \A i, j \in 1 .. Len(r) : i < j => r[i].entity < r[j].entity
<1> DEFINE n == Len(s)
           P == {i \in 1 .. n : i = n \/ s[i + 1].entity # s[i].entity}
           r == DedupLatest(s)
           best == Latest(Occurring(s))
<1>1. n \in Nat /\ Len(s) \in Nat
  OBVIOUS
<1>2. \A i \in 1 .. n : /\ s[i] \in Recs /\ i \in Nat
                        /\ s[i].entity \in Nat /\ s[i].version \in Int /\ s[i].from \in Nat
  <2>1. \A i \in 1 .. n : s[i] \in Recs /\ i \in Nat
    OBVIOUS
  <2> HIDE DEF n
  <2> QED BY <2>1, RecsAre
<1>3. \A i, j \in 1 .. n : i < j => NotAfter(s[i], s[j])
  BY DEF InRecordOrder
<1>4. r = KeepAt(s, P) /\ P \in SUBSET (1 .. Len(s))
  BY DEF DedupLatest
<1>5. \A a, b \in Recs : a.entity = b.entity /\ a.version = b.version /\ a.from = b.from => a = b
  BY RecsAre
<1> HIDE DEF r
<1>6. /\ \A i \in 1 .. Len(r) : \E p \in P : r[i] = s[p]
      /\ \A p \in P : \E i \in 1 .. Len(r) : r[i] = s[p]
      /\ \A i, j \in 1 .. Len(r) : i < j => Follow(s, P, r[i], r[j])
  <2> HIDE DEF P, n
  <2>1. \A i \in 1 .. Len(r) : \E p \in P : r[i] = s[p]
    BY <1>1, <1>4, Kept
  <2>2. \A p \in P : \E i \in 1 .. Len(r) : r[i] = s[p]
    BY <1>1, <1>4, Kept
  <2>3. \A i, j \in 1 .. Len(r) : i < j => Follow(s, P, r[i], r[j])
    BY <1>1, <1>4, Kept
  <2> QED BY <2>1, <2>2, <2>3
<1> HIDE DEF n
\* A position of the group's end, and one after it.
<1>7. ASSUME NEW p \in P, NEW q \in 1 .. n, p < q
      PROVE  s[p].entity < s[q].entity
  <2>1. p \in 1 .. n /\ p + 1 \in 1 .. n /\ p < p + 1 /\ p # n
    BY <1>1, <1>7
  <2>2. s[p + 1].entity # s[p].entity /\ NotAfter(s[p], s[p + 1])
    BY <1>3, <2>1
  <2>3. s[p].entity < s[p + 1].entity
    BY <2>2 DEF NotAfter
  <2>4. p + 1 = q \/ NotAfter(s[p + 1], s[q])
    BY <1>1, <1>3, <1>7, <2>1
  <2> QED BY <1>2, <2>1, <2>3, <2>4 DEF NotAfter
<1>8. ASSUME NEW p \in P PROVE s[p] \in best
  <2>1. p \in 1 .. n /\ s[p] \in Occurring(s)
    BY DEF Occurring, n
  <2>2. ASSUME NEW b \in Occurring(s), b # s[p], b.entity = s[p].entity
        PROVE  Beaten(s[p], b)
    <3>1. PICK q \in 1 .. n : b = s[q]
      BY DEF Occurring, n
    <3>2. ~(p < q)
      BY <1>2, <1>7, <2>2, <3>1
    <3>3. q < p
      BY <1>1, <2>1, <2>2, <3>1, <3>2
    <3>4. NotAfter(s[q], s[p])
      BY <1>3, <2>1, <3>3
    <3>5. s[q].version # s[p].version \/ s[q].from # s[p].from
      BY <1>2, <1>5, <2>1, <2>2, <3>1
    <3> QED BY <1>2, <2>1, <2>2, <3>1, <3>4, <3>5 DEF NotAfter, Beaten
  <2> QED BY <2>1, <2>2 DEF Latest
<1>9. ASSUME NEW a \in best PROVE \E p \in P : a = s[p]
  <2>1. PICK q \in 1 .. n : a = s[q]
    BY DEF Occurring, Latest, n
  <2> DEFINE T == {i \in 1 .. n : s[i].entity = a.entity}
  <2>2. T # {} /\ T \in SUBSET (1 .. n)
    BY <2>1
  <2>3. PICK p \in T : \A i \in T : i <= p
    <3> HIDE DEF T
    <3> QED BY <1>1, <2>2, Greatest
  <2>4. p \in 1 .. n /\ s[p].entity = a.entity /\ q <= p
    BY <2>1, <2>3
  <2>5. p \in P
    <3>1. SUFFICES ASSUME p # n, s[p + 1].entity = s[p].entity PROVE FALSE
      BY <2>4
    <3>2. p + 1 \in T
      BY <1>1, <2>4, <3>1
    <3> QED BY <1>1, <2>3, <2>4, <3>2
  <2>6. a = s[p]
    <3>1. SUFFICES ASSUME a # s[p] PROVE FALSE
      OBVIOUS
    <3>2. s[p] \in Occurring(s)
      BY <2>4 DEF Occurring, n
    <3>3. Beaten(a, s[p])
      BY <2>4, <3>1, <3>2 DEF Latest
    <3>4. NotAfter(a, s[p])
      BY <1>1, <1>3, <2>1, <2>4, <3>1
    <3> QED BY <1>2, <2>1, <2>4, <3>3, <3>4 DEF NotAfter, Beaten
  <2> QED BY <2>5, <2>6
<1>10. Occurring(r) = best
  <2>1. ASSUME NEW a \in Occurring(r) PROVE a \in best
    <3>1. PICK i \in 1 .. Len(r) : a = r[i]
      BY DEF Occurring
    <3>2. PICK p \in P : a = s[p]
      BY <1>6, <3>1
    <3> QED BY <1>8, <3>2
  <2>2. ASSUME NEW a \in best PROVE a \in Occurring(r)
    <3>1. PICK p \in P : a = s[p]
      BY <1>9
    <3>2. PICK i \in 1 .. Len(r) : r[i] = s[p]
      BY <1>6
    <3> QED BY <3>1, <3>2 DEF Occurring
  <2> QED BY <2>1, <2>2
<1>11. ASSUME NEW i \in 1 .. Len(r), NEW j \in 1 .. Len(r), i < j
       PROVE  r[i].entity < r[j].entity
  <2>1. PICK p \in P, q \in P : p < q /\ r[i] = s[p] /\ r[j] = s[q]
    BY <1>6, <1>11 DEF Follow
  <2>2. q \in 1 .. n
    OBVIOUS
  <2>3. s[p].entity < s[q].entity
    BY <1>7, <2>1, <2>2
  <2> QED BY <2>1, <2>3
<1> QED BY <1>10, <1>11 DEF r

SameVersion(a, b) == a.entity = b.entity /\ a.version = b.version

Precedes(a, b) ==
  \/ a.entity < b.entity
  \/ a.entity = b.entity /\ a.version < b.version

First(G) == {a \in G : \A b \in G \ {a} : SameVersion(a, b) => a.from < b.from}

\* The first of each entity and version is the one of the first key.
LEMMA ReplicasKept ==
  ASSUME NEW s \in Seq(Recs), InRecordOrder(s)
  PROVE  LET r == DedupReplicas(s) IN
           /\ Occurring(r) = First(Occurring(s))
           /\ \A i, j \in 1 .. Len(r) : i < j => Precedes(r[i], r[j])
<1> DEFINE n == Len(s)
           P == {i \in 1 .. n : \/ i = 1
                                \/ s[i - 1].entity # s[i].entity
                                \/ s[i - 1].version # s[i].version}
           r == DedupReplicas(s)
           best == First(Occurring(s))
<1>1. n \in Nat /\ Len(s) \in Nat
  OBVIOUS
<1>2. \A i \in 1 .. n : /\ s[i] \in Recs /\ i \in Nat
                        /\ s[i].entity \in Nat /\ s[i].version \in Int /\ s[i].from \in Nat
  <2>1. \A i \in 1 .. n : s[i] \in Recs /\ i \in Nat
    OBVIOUS
  <2> HIDE DEF n
  <2> QED BY <2>1, RecsAre
<1>3. \A i, j \in 1 .. n : i < j => NotAfter(s[i], s[j])
  BY DEF InRecordOrder
<1>4. r = KeepAt(s, P) /\ P \in SUBSET (1 .. Len(s))
  BY DEF DedupReplicas
<1>5. \A a, b \in Recs : a.entity = b.entity /\ a.version = b.version /\ a.from = b.from => a = b
  BY RecsAre
<1> HIDE DEF r
<1>6. /\ \A i \in 1 .. Len(r) : \E p \in P : r[i] = s[p]
      /\ \A p \in P : \E i \in 1 .. Len(r) : r[i] = s[p]
      /\ \A i, j \in 1 .. Len(r) : i < j => Follow(s, P, r[i], r[j])
  <2> HIDE DEF P, n
  <2>1. \A i \in 1 .. Len(r) : \E p \in P : r[i] = s[p]
    BY <1>1, <1>4, Kept
  <2>2. \A p \in P : \E i \in 1 .. Len(r) : r[i] = s[p]
    BY <1>1, <1>4, Kept
  <2>3. \A i, j \in 1 .. Len(r) : i < j => Follow(s, P, r[i], r[j])
    BY <1>1, <1>4, Kept
  <2> QED BY <2>1, <2>2, <2>3
<1> HIDE DEF n
<1>7. ASSUME NEW p \in 1 .. n, NEW q \in P, p < q
      PROVE  Precedes(s[p], s[q])
  <2>1. q \in 1 .. n /\ q - 1 \in 1 .. n /\ q - 1 < q /\ q # 1
    BY <1>1, <1>7
  <2>2. ~SameVersion(s[q - 1], s[q]) /\ NotAfter(s[q - 1], s[q])
    BY <1>3, <2>1 DEF SameVersion
  <2>3. Precedes(s[q - 1], s[q])
    BY <2>2 DEF NotAfter, Precedes, SameVersion
  <2>4. p = q - 1 \/ NotAfter(s[p], s[q - 1])
    BY <1>1, <1>3, <1>7, <2>1
  <2>5. /\ s[p].entity \in Nat /\ s[q - 1].entity \in Nat /\ s[q].entity \in Nat
        /\ s[p].version \in Int /\ s[q - 1].version \in Int /\ s[q].version \in Int
    BY <1>2, <2>1
  <2>6. CASE NotAfter(s[p], s[q - 1])
    BY <2>3, <2>5, <2>6 DEF NotAfter, Precedes
  <2> QED BY <2>3, <2>4, <2>6
<1>8. ASSUME NEW p \in P PROVE s[p] \in best
  <2>1. p \in 1 .. n /\ s[p] \in Occurring(s)
    BY DEF Occurring, n
  <2>2. ASSUME NEW b \in Occurring(s), b # s[p], SameVersion(s[p], b)
        PROVE  s[p].from < b.from
    <3>1. PICK q \in 1 .. n : b = s[q]
      BY DEF Occurring, n
    <3>2. ~(q < p)
      BY <1>2, <1>7, <2>1, <2>2, <3>1 DEF Precedes, SameVersion
    <3>3. p < q
      BY <1>1, <2>1, <2>2, <3>1, <3>2
    <3>4. NotAfter(s[p], s[q])
      BY <1>3, <2>1, <3>3
    <3>5. s[q].from # s[p].from
      BY <1>2, <1>5, <2>1, <2>2, <3>1 DEF SameVersion
    <3> QED BY <1>2, <2>1, <2>2, <3>1, <3>4, <3>5 DEF NotAfter, SameVersion
  <2> QED BY <2>1, <2>2 DEF First
<1>9. ASSUME NEW a \in best PROVE \E p \in P : a = s[p]
  <2>1. PICK q \in 1 .. n : a = s[q]
    BY DEF Occurring, First, n
  <2> DEFINE T == {i \in 1 .. n : SameVersion(a, s[i])}
  <2>2. T # {} /\ T \in SUBSET Nat
    BY <2>1 DEF SameVersion
  <2>3. PICK p \in T : \A i \in T : p <= i
    <3> HIDE DEF T
    <3> QED BY <2>2, Least
  <2>4. p \in 1 .. n /\ SameVersion(a, s[p])
    BY <2>3
  <2>5. p <= q
    BY <2>1, <2>3 DEF SameVersion
  <2>6. p \in P
    <3>1. SUFFICES ASSUME p # 1, SameVersion(s[p - 1], s[p]) PROVE FALSE
      BY <2>4 DEF SameVersion
    <3>2. p - 1 \in T
      BY <1>1, <2>4, <3>1 DEF SameVersion
    <3> QED BY <1>1, <2>3, <2>4, <3>2
  <2>7. a = s[p]
    <3>1. SUFFICES ASSUME a # s[p] PROVE FALSE
      OBVIOUS
    <3>2. s[p] \in Occurring(s)
      BY <2>4 DEF Occurring, n
    <3>3. a.from < s[p].from
      BY <2>4, <3>1, <3>2 DEF First
    <3>4. NotAfter(s[p], a)
      BY <1>1, <1>3, <2>1, <2>4, <2>5, <3>1
    <3> QED BY <1>2, <2>1, <2>4, <3>3, <3>4 DEF NotAfter, SameVersion
  <2> QED BY <2>6, <2>7
<1>10. Occurring(r) = best
  <2>1. ASSUME NEW a \in Occurring(r) PROVE a \in best
    <3>1. PICK i \in 1 .. Len(r) : a = r[i]
      BY DEF Occurring
    <3>2. PICK p \in P : a = s[p]
      BY <1>6, <3>1
    <3> QED BY <1>8, <3>2
  <2>2. ASSUME NEW a \in best PROVE a \in Occurring(r)
    <3>1. PICK p \in P : a = s[p]
      BY <1>9
    <3>2. PICK i \in 1 .. Len(r) : r[i] = s[p]
      BY <1>6
    <3> QED BY <3>1, <3>2 DEF Occurring
  <2> QED BY <2>1, <2>2
<1>11. ASSUME NEW i \in 1 .. Len(r), NEW j \in 1 .. Len(r), i < j
       PROVE  Precedes(r[i], r[j])
  <2>1. PICK p \in P, q \in P : p < q /\ r[i] = s[p] /\ r[j] = s[q]
    BY <1>6, <1>11 DEF Follow
  <2>2. p \in 1 .. n
    OBVIOUS
  <2>3. Precedes(s[p], s[q])
    BY <1>7, <2>1, <2>2
  <2> QED BY <2>1, <2>3
<1> QED BY <1>10, <1>11 DEF r

-----------------------------------------------------------------------------
(* From the rows of files to the records of a read.                        *)

Names(rows) == {f.part : f \in rows}
InPart(rows, p) == {f \in rows : f.part = p}
Parts(rows) == Sorted(Names(rows), LexOrderOn(Names(rows)))
ByKey(rows) == {x \in rows \X rows : x[1].key < x[2].key}
Bodies(rows, body) ==
  [i \in 1 .. Len(InOrder(rows)) |-> body[InOrder(rows)[i].key]]
Decode(rows, body, mode) == SortAndDedup(FlattenSeq(Bodies(rows, body)), mode)

\* The partitions of a result are finitely many.
LEMMA NamesFinite ==
  ASSUME NEW rows, IsFiniteSet(rows)
  PROVE  IsFiniteSet(Names(rows)) /\ Cardinality(Names(rows)) \in Nat
<1> DEFINE f == [x \in rows |-> x.part]
<1>1. f \in [rows -> Names(rows)] /\ \A t \in Names(rows) : \E x \in rows : f[x] = t
  BY DEF Names
<1> HIDE DEF f
<1>2. f \in Surjection(rows, Names(rows))
  BY <1>1, Fun_IsSurj
<1> QED BY <1>2, FS_Surjection, FS_CardinalityType

\* A read decodes the files of each partition.
LEMMA ReadIs ==
  ASSUME NEW rows, IsFiniteSet(rows), NEW body, NEW mode
  PROVE  ReadRecords(rows, body, mode) =
           FlattenSeq([i \in 1 .. Cardinality(Names(rows)) |->
                         Decode(InPart(rows, Parts(rows)[i]), body, mode)])
<1> DEFINE n  == Cardinality(Names(rows))
           PP == PreparePartitions(rows)
           Dec(part) == SortAndDedup(FlattenSeq([j \in 1 .. Len(part.files) |->
                                                   body[part.files[j].key]]), mode)
<1>1. n \in Nat
  BY NamesFinite
<1>2. Parts(rows) = [i \in 1 .. n |-> Parts(rows)[i]]
  BY DEF Parts, Sorted
<1>3. Len(Parts(rows)) = n
  BY <1>1, <1>2
<1>4. PP = [i \in 1 .. n |-> [part    |-> Parts(rows)[i],
                              files   |-> InOrder(InPart(rows, Parts(rows)[i])),
                              version |-> Max({f.version : f \in InPart(rows, Parts(rows)[i])})]]
  BY <1>3 DEF PreparePartitions, Parts, Names, InPart
<1>5. ReadRecords(rows, body, mode) = FlattenSeq([i \in 1 .. Len(PP) |-> Dec(PP[i])])
  BY DEF ReadRecords
<1> HIDE DEF PP
<1>6. Len(PP) = n /\ \A i \in 1 .. n : PP[i].files = InOrder(InPart(rows, Parts(rows)[i]))
  <2> HIDE DEF n
  <2> QED BY <1>1, <1>4
<1>7. ASSUME NEW i \in 1 .. n
      PROVE  Dec(PP[i]) = Decode(InPart(rows, Parts(rows)[i]), body, mode)
  BY <1>6 DEF Decode, Bodies
<1> HIDE DEF Dec, n
<1>8. [i \in 1 .. Len(PP) |-> Dec(PP[i])] =
        [i \in 1 .. n |-> Decode(InPart(rows, Parts(rows)[i]), body, mode)]
  BY <1>6, <1>7
<1> QED BY <1>5, <1>8 DEF n

Keyed(rows) ==
  /\ \A f \in rows : f.key \in Keys
  /\ \A f, g \in rows : f.key = g.key => f = g

\* Rows of the catalog are as many as their keys.
LEMMA KeyedFinite ==
  ASSUME NEW rows, Keyed(rows)
  PROVE  /\ IsFiniteSet(rows)
         /\ StrictOrder(rows, ByKey(rows)) /\ InOrder(rows) = Sorted(rows, ByKey(rows))
<1> DEFINE f == [x \in rows |-> x.key]
<1>1. MaxKeys \in Nat /\ Keys = 1 .. MaxKeys
  BY RebuildAssumption DEF Keys
<1>2. f \in [rows -> Keys] /\ \A x, y \in rows : f[x] = f[y] => x = y
  BY DEF Keyed
<1>3. f \in Injection(rows, Keys)
  <2> HIDE DEF f
  <2> QED BY <1>2, Fun_IsInj
<1>4. IsFiniteSet(Keys)
  BY <1>1, FS_Interval
<1>5. IsFiniteSet(rows)
  BY <1>3, <1>4, FS_Injection
<1>6. \A x \in rows : x.key \in Nat
  BY <1>1 DEF Keyed
<1>7. \A x, y \in rows : <<x, y>> \in ByKey(rows) <=> x.key < y.key
  BY DEF ByKey
<1>8. \A x, y \in rows : x # y => x.key < y.key \/ y.key < x.key
  BY <1>6 DEF Keyed
<1>9. StrictOrder(rows, ByKey(rows))
  <2>1. \A x \in rows : <<x, x>> \notin ByKey(rows)
    BY <1>6, <1>7
  <2>2. \A x, y, z \in rows :
          <<x, y>> \in ByKey(rows) /\ <<y, z>> \in ByKey(rows) => <<x, z>> \in ByKey(rows)
    BY <1>6, <1>7
  <2>3. \A x, y \in rows : x = y \/ <<x, y>> \in ByKey(rows) \/ <<y, x>> \in ByKey(rows)
    BY <1>7, <1>8
  <2> QED BY <2>1, <2>2, <2>3 DEF StrictOrder
<1>10. InOrder(rows) = Sorted(rows, ByKey(rows))
  BY DEF InOrder, ByKey
<1> QED BY <1>5, <1>9, <1>10

\* The files of a partition in the order of their keys.
LEMMA FilesInOrder ==
  ASSUME NEW rows, Keyed(rows)
  PROVE  /\ InOrder(rows) \in Seq(rows) /\ Len(InOrder(rows)) = Cardinality(rows)
         /\ Cardinality(rows) \in Nat
         /\ \A x \in rows : \E i \in 1 .. Cardinality(rows) : InOrder(rows)[i] = x
         /\ \A i, j \in 1 .. Cardinality(rows) :
              i < j => InOrder(rows)[i].key <= InOrder(rows)[j].key
<1> DEFINE n == Cardinality(rows)
           s == InOrder(rows)
<1>1. IsFiniteSet(rows) /\ StrictOrder(rows, ByKey(rows)) /\ s = Sorted(rows, ByKey(rows))
  BY KeyedFinite
<1> HIDE DEF s
<1>2. s \in Seq(rows) /\ Len(s) = n /\ n \in Nat
  BY <1>1, Ranked
<1>3. \A x \in rows : \E i \in 1 .. n : s[i] = x
  BY <1>1, Ranked
<1>4. \A i, j \in 1 .. n : i < j => <<s[i], s[j]>> \in ByKey(rows)
  BY <1>1, Ranked
<1>5. ASSUME NEW i \in 1 .. n, NEW j \in 1 .. n, i < j PROVE s[i].key <= s[j].key
  <2>1. <<s[i], s[j]>> \in ByKey(rows)
    BY <1>4, <1>5
  <2>2. s[i].key < s[j].key /\ s[i] \in rows /\ s[j] \in rows
    BY <2>1 DEF ByKey
  <2>3. s[i].key \in Nat /\ s[j].key \in Nat
    BY <2>2, RebuildAssumption DEF Keyed, Keys
  <2> QED BY <2>2, <2>3
<1> QED BY <1>2, <1>3, <1>5 DEF s

\* One sequence joined is itself.
LEMMA JoinedOne == ASSUME NEW s, Len(s) = 1 PROVE FlattenSeq(s) = s[1]
<1> DEFINE Fits(g) == g = [i \in 1 .. Len(s) |-> IF i = 1 THEN s[i] ELSE g[i - 1] \o s[i]]
           f == CHOOSE g : Fits(g)
           g == [i \in 1 .. 1 |-> s[1]]
<1>1. \A i \in 1 .. Len(s) : i = 1
  OBVIOUS
<1>2. Fits(g)
  BY <1>1
<1>3. Fits(f)
  <2> HIDE DEF Fits, g
  <2> QED BY <1>2
<1>4. FlattenSeq(s) = f[1]
  BY DEF FlattenSeq
<1> HIDE DEF f
<1>5. f[1] = s[1]
  BY <1>3
<1> QED BY <1>4, <1>5

\* A read of one partition decodes its files.
LEMMA ReadOfPart ==
  ASSUME NEW p \in Partitions, NEW rows, Keyed(rows), \A f \in rows : f.part = p,
         NEW body, NEW mode
  PROVE  ReadRecords(rows, body, mode) =
           IF rows = {} THEN << >> ELSE Decode(rows, body, mode)
<1> DEFINE D(i) == Decode(InPart(rows, Parts(rows)[i]), body, mode)
           n    == Cardinality(Names(rows))
           s    == [i \in 1 .. n |-> D(i)]
<1>1. IsFiniteSet(rows)
  BY KeyedFinite
<1>2. ReadRecords(rows, body, mode) = FlattenSeq(s)
  BY <1>1, ReadIs
<1> HIDE DEF D
<1>3. CASE rows = {}
  <2>1. n = 0
    BY <1>3, FS_EmptySet DEF Names
  <2>2. s = << >> /\ FlattenSeq(s) = s
    BY <2>1 DEF FlattenSeq
  <2> QED BY <1>2, <1>3, <2>2
<1>4. CASE rows # {}
  <2> DEFINE R == LexOrderOn({p})
  <2>1. Names(rows) = {p}
    BY <1>4 DEF Names
  <2>2. IsFiniteSet({p}) /\ Cardinality({p}) = 1
    BY FS_Singleton
  <2>3. ~LexLess(p, p)
    <3>1. p \in Seq(Nat)
      BY ReadsAssumption
    <3>2. ~IsStrictPrefix(p, p)
      BY DEF IsStrictPrefix
    <3>3. \A i \in 1 .. Len(p) : ~(p[i] < p[i])
      BY <3>1
    <3> QED BY <3>2, <3>3 DEF LexLess
  <2>4. StrictOrder({p}, R)
    BY <2>3 DEF StrictOrder, LexOrderOn
  <2>5. Parts(rows) = Sorted({p}, R) /\ n = 1
    BY <2>1, <2>2 DEF Parts
  <2> HIDE DEF R
  <2>6. \A i \in 1 .. Cardinality({p}) : Sorted({p}, R)[i] \in {p}
    BY <2>2, <2>4, Ranked
  <2>7. Parts(rows)[1] = p
    BY <2>2, <2>5, <2>6
  <2>8. InPart(rows, p) = rows
    BY DEF InPart
  <2>9. s = [i \in 1 .. 1 |-> D(i)]
    BY <2>5
  <2> HIDE DEF s, n
  <2>10. Len(s) = 1 /\ s[1] = D(1)
    BY <2>9
  <2>11. FlattenSeq(s) = D(1)
    BY <2>10, JoinedOne
  <2>12. D(1) = Decode(rows, body, mode)
    BY <2>7, <2>8 DEF D
  <2> QED BY <1>2, <1>4, <2>11, <2>12
<1> QED BY <1>3, <1>4

GivenBy(rows) == UNION {Range(Body[f.key]) : f \in rows}

\* The records of an object carry its key.
LEMMA BodyTyped ==
  ASSUME NEW k \in Keys
  PROVE  /\ Body[k] \in Seq(Recs)
         /\ \A i \in 1 .. Len(Body[k]) : Body[k][i].from = k
<1>1. Records[k] \in Seq([entity : Nat, version : Int]) /\ k \in Nat
  BY ReadsAssumption DEF Keys
<1> DEFINE n == Len(Records[k])
<1>2. /\ n \in Nat /\ DOMAIN Records[k] = 1 .. n
      /\ \A i \in 1 .. n : Records[k][i].entity \in Nat /\ Records[k][i].version \in Int
  <2> DEFINE X == [entity : Nat, version : Int]
  <2>1. \A x \in X : x.entity \in Nat /\ x.version \in Int
    OBVIOUS
  <2> HIDE DEF X
  <2>2. Records[k] \in Seq(X)
    BY <1>1 DEF X
  <2>3. \A i \in 1 .. n : Records[k][i] \in X
    BY <2>2
  <2> QED BY <2>1, <2>2, <2>3
<1>3. Body[k] = [i \in 1 .. n |-> [entity |-> Records[k][i].entity,
                                   version |-> Records[k][i].version, from |-> k]]
  BY <1>2 DEF Body
<1> HIDE DEF n
<1>4. Body[k] \in [1 .. n -> Recs]
  BY <1>1, <1>2, <1>3 DEF Recs
<1>5. Body[k] \in Seq(Recs) /\ Len(Body[k]) = n
  BY <1>2, <1>4
<1>6. \A i \in 1 .. n : Body[k][i].from = k
  BY <1>3
<1> QED BY <1>5, <1>6

\* The records that are sorted: those of all files, by key.
LEMMA JoinedBodies ==
  ASSUME NEW rows, Keyed(rows), NEW all, all = FlattenSeq(Bodies(rows, Body))
  PROVE  /\ all \in Seq(Recs)
         /\ \A i, j \in 1 .. Len(all) : i < j => all[i].from <= all[j].from
         /\ Occurring(all) = GivenBy(rows)
<1> DEFINE n == Cardinality(rows)
           order == InOrder(rows)
           s == Bodies(rows, Body)
           K == [i \in 1 .. n |-> order[i].key]
<1>1. /\ order \in Seq(rows) /\ Len(order) = n /\ n \in Nat
      /\ \A x \in rows : \E i \in 1 .. n : order[i] = x
      /\ \A i, j \in 1 .. n : i < j => order[i].key <= order[j].key
  BY FilesInOrder
<1>2. s = [i \in 1 .. n |-> Body[order[i].key]]
  BY <1>1 DEF Bodies
<1> HIDE DEF order, s, n
<1>3. \A i \in 1 .. n : order[i] \in rows /\ order[i].key \in Keys /\ order[i].key \in Nat
  <2>1. \A i \in 1 .. n : order[i] \in rows
    BY <1>1
  <2>2. \A f \in rows : f.key \in Keys /\ f.key \in Nat
    BY DEF Keyed, Keys
  <2> QED BY <2>1, <2>2
<1>4. K \in Seq(Nat) /\ Len(K) = n
  BY <1>1, <1>3
<1>5. s \in Seq(Seq(Recs)) /\ Len(s) = n
  <2>1. \A i \in 1 .. n : Body[order[i].key] \in Seq(Recs)
    BY <1>3, BodyTyped
  <2>2. s \in [1 .. n -> Seq(Recs)]
    BY <1>2, <2>1
  <2> QED BY <1>1, <2>2
<1>6. \A i, j \in 1 .. n : i < j => K[i] <= K[j]
  BY <1>1
<1>7. ASSUME NEW i \in 1 .. n, NEW a \in 1 .. Len(s[i]) PROVE s[i][a].from = K[i]
  BY <1>2, <1>3, BodyTyped
<1>8. \A x \in Recs : x.from \in Nat
  BY RecsAre
<1> HIDE DEF K
<1>9. all \in Seq(Recs) /\ InParts(s, n, all)
  BY <1>4, <1>5, <1>6, <1>7, <1>8, JoinedInOrder DEF s
<1>10. ASSUME NEW a \in Occurring(all) PROVE a \in GivenBy(rows)
  <2>1. PICK i \in 1 .. Len(all) : a = all[i]
    BY DEF Occurring
  <2>2. PICK k \in 1 .. n : \E b \in 1 .. Len(s[k]) : all[i] = s[k][b]
    BY <1>9 DEF InParts
  <2>3. PICK b \in 1 .. Len(s[k]) : a = s[k][b]
    BY <2>1, <2>2
  <2>4. /\ s[k] = Body[order[k].key] /\ order[k] \in rows
        /\ s[k] \in Seq(Recs) /\ DOMAIN s[k] = 1 .. Len(s[k])
    <3>1. s[k] = Body[order[k].key] /\ order[k] \in rows /\ order[k].key \in Keys
      BY <1>2, <1>3
    <3>2. s[k] \in Seq(Recs)
      BY <3>1, BodyTyped
    <3> QED BY <3>1, <3>2
  <2>5. a \in Range(Body[order[k].key])
    BY <2>3, <2>4 DEF Range
  <2> QED BY <2>4, <2>5 DEF GivenBy
<1>11. ASSUME NEW a \in GivenBy(rows) PROVE a \in Occurring(all)
  <2>1. PICK f \in rows : a \in Range(Body[f.key])
    BY DEF GivenBy
  <2>2. PICK k \in 1 .. n : order[k] = f
    BY <1>1
  <2>3. s[k] = Body[f.key] /\ s[k] \in Seq(Recs) /\ DOMAIN s[k] = 1 .. Len(s[k])
    <3>1. s[k] = Body[f.key] /\ f.key \in Keys
      BY <1>2, <1>3, <2>2
    <3>2. s[k] \in Seq(Recs)
      BY <3>1, BodyTyped
    <3> QED BY <3>1, <3>2
  <2>4. PICK b \in 1 .. Len(s[k]) : a = s[k][b]
    BY <2>1, <2>3 DEF Range
  <2>5. PICK i \in 1 .. Len(all) : all[i] = s[k][b]
    BY <1>9 DEF InParts
  <2> QED BY <2>4, <2>5 DEF Occurring
<1>12. \A i, j \in 1 .. Len(all) : i < j => all[i].from <= all[j].from
  BY <1>9 DEF InParts
<1> QED BY <1>9, <1>10, <1>11, <1>12

-----------------------------------------------------------------------------
(* Keys, with and without orphans.                                         *)

\* Keys tell rows apart, and no object or row has a key that was not given out;
\* unlike the invariant of RebuildProofs, with orphans too.
KeyInv ==
  /\ \A o \in objects : o.key \in Keys
  /\ \A f \in files : f.key \in UsedKeys
  /\ \A f, g \in files : f.key = g.key => f = g
  /\ listed \in [Rebuilders -> SUBSET UsedKeys]
  /\ phase = "live" => \A r \in Rebuilders : listed[r] = {}

\* The invariant holds at the start,
LEMMA KeyInit == Init => KeyInv
BY DEF Init, KeyInv, UsedKeys

\* is kept by writers, the loss and the rebuilders,
LEMMA KeyStep == KeyInv /\ [Next]_vars => KeyInv'
<1> SUFFICES ASSUME KeyInv, [Next]_vars PROVE KeyInv'
  OBVIOUS
<1>1. CASE UNCHANGED vars
  BY <1>1 DEF vars, catalog, runVars, KeyInv, UsedKeys
<1>2. ASSUME NEW k \in Keys, NEW p \in Partitions, NEW t, WriteCommits(k, p, t)
      PROVE  KeyInv'
  <2> DEFINE row == [id |-> NextId, key |-> k, part |-> p, token |-> t,
                     version |-> partitions[p].version + 1]
             obj == [key |-> k, part |-> p,
                     meta |-> BuildS3Metadata(t, partitions[p].version + 1)]
  <2>1. /\ files' = files \cup {row} /\ objects' = objects \cup {obj}
        /\ k \notin UsedKeys /\ phase' = phase /\ listed' = listed
    BY <1>2 DEF WriteCommits, PutObject, runVars
  <2>2. row.key = k /\ obj.key = k
    OBVIOUS
  <2> HIDE DEF row, obj
  <2>3. UsedKeys' = UsedKeys \cup {k}
    BY <2>1, <2>2 DEF UsedKeys
  <2>4. \A f \in files : f.key # k
    BY <2>1 DEF KeyInv
  <2> QED BY <2>1, <2>2, <2>3, <2>4 DEF KeyInv
<1>3. ASSUME NEW k \in Keys, NEW p \in Partitions, NEW t, WriteFails(k, p, t)
      PROVE  KeyInv'
  <2> DEFINE obj == [key |-> k, part |-> p,
                     meta |-> BuildS3Metadata(t, partitions[p].version + 1)]
  <2>1. /\ files' = files /\ objects' = objects \cup {obj}
        /\ phase' = phase /\ listed' = listed
    BY <1>3 DEF WriteFails, PutObject, runVars, catalog
  <2>2. obj.key = k
    OBVIOUS
  <2> HIDE DEF obj
  <2>3. UsedKeys' = UsedKeys \cup {k}
    BY <2>1, <2>2 DEF UsedKeys
  <2> QED BY <2>1, <2>2, <2>3 DEF KeyInv
<1>4. CASE Collect
  <2>1. PICK o \in Orphans : /\ phase = "live" /\ objects' = objects \ {o}
                             /\ files' = files /\ phase' = phase /\ listed' = listed
    BY <1>4 DEF Collect, catalog, runVars
  <2>2. \A f \in files : f.key # o.key
    BY <2>1 DEF Orphans
  <2>3. \A k \in UsedKeys : k = o.key \/ k \in UsedKeys'
    BY <2>1 DEF UsedKeys
  <2>4. listed' \in [Rebuilders -> SUBSET UsedKeys']
    BY <2>1 DEF KeyInv
  <2> QED BY <2>1, <2>2, <2>3, <2>4 DEF KeyInv
<1>5. CASE Lose
  BY <1>5 DEF Lose, runVars, KeyInv, UsedKeys
<1>6. ASSUME NEW r \in Rebuilders, RebuildStep(r) PROVE KeyInv'
  <2>1. CASE List(r)
    BY <2>1 DEF List, Run, catalog, KeyInv, UsedKeys
  <2>2. CASE InsertFileRow(r)
    <3>1. PICK p \in toUpsert[r] : \E k \in Waiting(r, p) :
            /\ \/ RowExists(k) /\ UNCHANGED files
               \/ ~RowExists(k) /\ files' = files \cup {RecoveredRow(k)}
            /\ listed' = [listed EXCEPT ![r] = @ \ {k}]
            /\ UNCHANGED <<phase, objects>>
      BY <2>2 DEF InsertFileRow
    <3>2. PICK k \in listed[r] :
            /\ \/ RowExists(k) /\ UNCHANGED files
               \/ ~RowExists(k) /\ files' = files \cup {RecoveredRow(k)}
            /\ listed' = [listed EXCEPT ![r] = @ \ {k}]
            /\ UNCHANGED <<phase, objects>>
      BY <3>1 DEF Waiting
    <3>3. RecoveredRow(k).key = k
      BY DEF RecoveredRow
    <3>4. k \in UsedKeys /\ UsedKeys' = UsedKeys
      BY <3>2 DEF KeyInv, UsedKeys
    <3>5. /\ \A f \in files' : f.key \in UsedKeys
          /\ \A f, g \in files' : f.key = g.key => f = g
      BY <3>2, <3>3, <3>4 DEF KeyInv, RowExists
    <3>6. /\ listed' \in [Rebuilders -> SUBSET UsedKeys]
          /\ phase = "live" => \A x \in Rebuilders : listed'[x] = {}
      BY <3>2 DEF KeyInv
    <3> QED BY <3>2, <3>4, <3>5, <3>6 DEF KeyInv
  <2>3. CASE UpsertPartitionRow(r)
    BY <2>3 DEF UpsertPartitionRow, KeyInv, UsedKeys
  <2>4. CASE EndsWell(r)
    <3>1. UNCHANGED <<files, objects, listed>> /\ phase' = "rebuilt"
      BY <2>4 DEF EndsWell, catalog
    <3> QED BY <3>1 DEF KeyInv, UsedKeys
  <2>5. CASE Stops(r)
    <3>1. UNCHANGED <<files, objects, phase>> /\ listed' = [listed EXCEPT ![r] = {}]
      BY <2>5 DEF Stops, catalog
    <3>2. /\ listed' \in [Rebuilders -> SUBSET UsedKeys]
          /\ phase = "live" => \A x \in Rebuilders : listed'[x] = {}
      BY <3>1 DEF KeyInv
    <3> QED BY <3>1, <3>2 DEF KeyInv, UsedKeys
  <2> QED BY <1>6, <2>1, <2>2, <2>3, <2>4, <2>5 DEF RebuildStep
<1> QED BY <1>1, <1>2, <1>3, <1>4, <1>5, <1>6 DEF Next

\* and so holds always.
LEMMA KeyInvariant == Spec => []KeyInv
BY KeyInit, KeyStep, PTL DEF Spec

\* The rows of a partition are told apart by their keys.
LEMMA PartKeyed ==
  ASSUME KeyInv, NEW p
  PROVE  Keyed({f \in files : f.part = p})
BY DEF KeyInv, Keyed, UsedKeys

-----------------------------------------------------------------------------
(* What a read of a partition returns.                                     *)

\* The sorted records of a partition.
LEMMA AnswerIs ==
  ASSUME KeyInv, NEW p \in Partitions
  PROVE  \/ Given(p) = {} /\ \A h \in Modes : Answer(p, h) = << >>
         \/ \E s \in Seq(Recs) :
              /\ InRecordOrder(s) /\ Occurring(s) = Given(p)
              /\ Answer(p, "latest") = DedupLatest(s) /\ Answer(p, "history") = DedupReplicas(s)
<1> DEFINE rows == {f \in files : f.part = p}
           all  == FlattenSeq(Bodies(rows, Body))
           s    == SortRecords(all)
<1>1. Keyed(rows)
  BY PartKeyed
<1>2. \A f \in rows : f.part = p
  OBVIOUS
<1>3. Given(p) = GivenBy(rows)
  BY DEF Given, GivenBy
<1>4. \A h : Answer(p, h) = ReadRecords(rows, Body, h)
  BY DEF Answer
<1> HIDE DEF rows
<1>5. ASSUME NEW h PROVE Answer(p, h) = IF rows = {} THEN << >> ELSE Decode(rows, Body, h)
  BY <1>1, <1>2, <1>4, ReadOfPart
<1>6. CASE rows = {}
  <2>1. Given(p) = {}
    BY <1>3, <1>6 DEF GivenBy
  <2> QED BY <1>5, <1>6, <2>1
<1>7. CASE rows # {}
  <2>1. /\ all \in Seq(Recs) /\ Occurring(all) = GivenBy(rows)
        /\ \A i, j \in 1 .. Len(all) : i < j => all[i].from <= all[j].from
    <3>1. all \in Seq(Recs)
      BY <1>1, JoinedBodies
    <3>2. Occurring(all) = GivenBy(rows)
      BY <1>1, JoinedBodies
    <3>3. \A i, j \in 1 .. Len(all) : i < j => all[i].from <= all[j].from
      BY <1>1, JoinedBodies
    <3> QED BY <3>1, <3>2, <3>3
  <2>2. /\ Answer(p, "latest") = DedupLatest(s)
        /\ Answer(p, "history") = DedupReplicas(s)
    BY <1>5, <1>7 DEF Decode, SortAndDedup
  <2> HIDE DEF all, s
  <2>3. s \in Seq(Recs) /\ SameElements(s, all) /\ InRecordOrder(s)
    BY <2>1, SortedRecords DEF s
  <2>4. Occurring(s) = Occurring(all)
    <3>1. \A i \in 1 .. Len(s) : s[i] \in Occurring(all)
      BY <2>3 DEF SameElements, Occurring
    <3>2. \A i \in 1 .. Len(all) : all[i] \in Occurring(s)
      BY <2>3 DEF SameElements, Occurring
    <3> QED BY <3>1, <3>2 DEF Occurring
  <2> QED BY <1>3, <2>1, <2>2, <2>3, <2>4
<1> QED BY <1>6, <1>7

\* A read returns the latest record of each entity of a partition, in the order of
\* entities, whatever files the catalog holds and in whatever order they were
\* written or recovered (dedup.go:sortAndDedup, dedupLatest; read.go:
\* preparePartitions sorts the files by key).
THEOREM ReadsReturnLatest == Spec => []LatestWins
<1>1. KeyInv => LatestWins
  <2> SUFFICES ASSUME KeyInv, NEW p \in Partitions
               PROVE  LET result == Answer(p, "latest") IN
                        /\ Occurring(result) = Latest(Given(p))
                        /\ \A i, j \in 1 .. Len(result) :
                             i < j => result[i].entity < result[j].entity
    BY DEF LatestWins, Occurring, Latest, Beaten
  <2> DEFINE result == Answer(p, "latest")
  <2>1. CASE Given(p) = {} /\ result = << >>
    <3>1. Len(<< >>) = 0 /\ 1 .. 0 = {}
      OBVIOUS
    <3>2. Occurring(<< >>) = {} /\ Latest({}) = {}
      BY <3>1 DEF Occurring, Latest
    <3> QED BY <2>1, <3>1, <3>2
  <2>2. ASSUME NEW s \in Seq(Recs), InRecordOrder(s), Occurring(s) = Given(p),
               result = DedupLatest(s)
        PROVE  /\ Occurring(result) = Latest(Given(p))
               /\ \A i, j \in 1 .. Len(result) : i < j => result[i].entity < result[j].entity
    <3>1. Occurring(result) = Latest(Given(p))
      BY <2>2, LatestKept
    <3>2. \A i, j \in 1 .. Len(result) : i < j => result[i].entity < result[j].entity
      BY <2>2, LatestKept
    <3> QED BY <3>1, <3>2
  <2> HIDE DEF result
  <2>3. \/ Given(p) = {} /\ result = << >>
        \/ \E s \in Seq(Recs) : /\ InRecordOrder(s) /\ Occurring(s) = Given(p)
                                /\ result = DedupLatest(s)
    BY AnswerIs DEF result, Modes
  <2> QED BY <2>1, <2>2, <2>3 DEF result
<1> QED BY <1>1, KeyInvariant, PTL

\* With history a read returns one record of each entity and version, in their
\* order, that of the first key (dedup.go:dedupReplicas).
THEOREM ReadsReturnHistory == Spec => []HistoryKept
<1>1. KeyInv => HistoryKept
  <2> SUFFICES ASSUME KeyInv, NEW p \in Partitions
               PROVE  LET result == Answer(p, "history") IN
                        /\ Occurring(result) = First(Given(p))
                        /\ \A i, j \in 1 .. Len(result) :
                             i < j => Precedes(result[i], result[j])
    BY DEF HistoryKept, Occurring, First, SameVersion, Precedes
  <2> DEFINE result == Answer(p, "history")
  <2>1. CASE Given(p) = {} /\ result = << >>
    <3>1. Len(<< >>) = 0 /\ 1 .. 0 = {}
      OBVIOUS
    <3>2. Occurring(<< >>) = {} /\ First({}) = {}
      BY <3>1 DEF Occurring, First
    <3> QED BY <2>1, <3>1, <3>2
  <2>2. ASSUME NEW s \in Seq(Recs), InRecordOrder(s), Occurring(s) = Given(p),
               result = DedupReplicas(s)
        PROVE  /\ Occurring(result) = First(Given(p))
               /\ \A i, j \in 1 .. Len(result) : i < j => Precedes(result[i], result[j])
    <3>1. Occurring(result) = First(Given(p))
      BY <2>2, ReplicasKept
    <3>2. \A i, j \in 1 .. Len(result) : i < j => Precedes(result[i], result[j])
      BY <2>2, ReplicasKept
    <3> QED BY <3>1, <3>2
  <2> HIDE DEF result
  <2>3. \/ Given(p) = {} /\ result = << >>
        \/ \E s \in Seq(Recs) : /\ InRecordOrder(s) /\ Occurring(s) = Given(p)
                                /\ result = DedupReplicas(s)
    BY AnswerIs DEF result, Modes
  <2> QED BY <2>1, <2>2, <2>3 DEF result
<1> QED BY <1>1, KeyInvariant, PTL

-----------------------------------------------------------------------------
(* Reads of two catalogs whose rows have the same keys and partitions.     *)

KeysOf(rows) == {f.key : f \in rows}

\* A row comes in the order after as many as there are lower keys.
LEMMA RankOfKey ==
  ASSUME NEW rows, Keyed(rows), NEW f \in rows
  PROVE  Rank(rows, ByKey(rows), f) = Cardinality({k \in KeysOf(rows) : k < f.key})
<1> DEFINE S == Before(rows, ByKey(rows), f)
           T == {k \in KeysOf(rows) : k < f.key}
           g == [x \in S |-> x.key]
<1>1. IsFiniteSet(S)
  <2>1. S \in SUBSET rows
    BY DEF Before
  <2> QED BY <2>1, KeyedFinite, FS_Subset
<1>2. \A x : x \in S <=> x \in rows /\ x.key < f.key
  BY DEF Before, ByKey
<1>3. \A k : k \in T <=> \E x \in rows : k = x.key /\ x.key < f.key
  BY DEF KeysOf
<1> HIDE DEF S, T
<1>4. g \in [S -> T] /\ \A t \in T : \E x \in S : g[x] = t
  BY <1>2, <1>3
<1>5. \A x, y \in S : g[x] = g[y] => x = y
  BY <1>2 DEF Keyed
<1> HIDE DEF g
<1>6. g \in Surjection(S, T) /\ g \in Injection(S, T)
  BY <1>4, <1>5, Fun_IsSurj, Fun_IsInj
<1>7. Cardinality(T) = Cardinality(S)
  BY <1>1, <1>6, FS_Surjection
<1> QED BY <1>7 DEF Rank, S, T

\* There are as many rows as keys.
LEMMA RowsAsKeys ==
  ASSUME NEW rows, Keyed(rows)
  PROVE  Cardinality(rows) = Cardinality(KeysOf(rows))
<1> DEFINE g == [x \in rows |-> x.key]
<1>1. IsFiniteSet(rows)
  BY KeyedFinite
<1>2. g \in [rows -> KeysOf(rows)] /\ \A t \in KeysOf(rows) : \E x \in rows : g[x] = t
  BY DEF KeysOf
<1>3. \A x, y \in rows : g[x] = g[y] => x = y
  BY DEF Keyed
<1> HIDE DEF g
<1>4. g \in Surjection(rows, KeysOf(rows)) /\ g \in Injection(rows, KeysOf(rows))
  BY <1>2, <1>3, Fun_IsSurj, Fun_IsInj
<1> QED BY <1>1, <1>4, FS_Surjection

Found(A, B) == \A f \in A : \E g \in B : g.key = f.key /\ g.part = f.part

SameRows(A, B) == Keyed(A) /\ Keyed(B) /\ Found(A, B) /\ Found(B, A)

\* The same objects are decoded, in the same order,
LEMMA SameBodies ==
  ASSUME NEW A, NEW B, SameRows(A, B), NEW body
  PROVE  Bodies(A, body) = Bodies(B, body)
<1> DEFINE n == Cardinality(A)
           a == InOrder(A)
           b == InOrder(B)
<1>1. KeysOf(A) = KeysOf(B)
  BY DEF SameRows, Found, KeysOf
<1>2. Keyed(A) /\ Keyed(B)
  BY DEF SameRows
<1>3. Cardinality(B) = n
  BY <1>1, <1>2, RowsAsKeys
<1>4. /\ IsFiniteSet(A) /\ StrictOrder(A, ByKey(A)) /\ a = Sorted(A, ByKey(A))
      /\ IsFiniteSet(B) /\ StrictOrder(B, ByKey(B)) /\ b = Sorted(B, ByKey(B))
  BY <1>2, KeyedFinite
<1> HIDE DEF a, b, n
<1>5. Len(a) = n /\ Len(b) = n /\ n \in Nat
  BY <1>2, <1>3, FilesInOrder DEF a, b, n
<1>6. ASSUME NEW i \in 1 .. n PROVE a[i].key = b[i].key
  <2>1. a[i] \in A /\ Rank(A, ByKey(A), a[i]) = i - 1
    BY <1>4, Ranked DEF n
  <2>2. i \in 1 .. Cardinality(B)
    BY <1>3
  <2>3. b[i] \in B /\ Rank(B, ByKey(B), b[i]) = i - 1
    BY <1>4, <2>2, Ranked
  <2>4. PICK g \in B : g.key = a[i].key
    BY <2>1 DEF SameRows, Found
  <2>5. Rank(B, ByKey(B), g) = Rank(A, ByKey(A), a[i])
    BY <1>1, <1>2, <2>1, <2>4, RankOfKey
  <2>6. g = b[i]
    BY <1>4, <2>1, <2>3, <2>5, Ranks
  <2> QED BY <2>4, <2>6
<1>7. Bodies(A, body) = [i \in 1 .. n |-> body[a[i].key]]
  BY <1>5 DEF Bodies, a
<1>8. Bodies(B, body) = [i \in 1 .. n |-> body[b[i].key]]
  BY <1>5 DEF Bodies, b
<1> QED BY <1>6, <1>7, <1>8

\* partition by partition.
LEMMA SameReads ==
  ASSUME NEW A, NEW B, SameRows(A, B), NEW body, NEW mode
  PROVE  ReadRecords(A, body, mode) = ReadRecords(B, body, mode)
<1>1. Names(A) = Names(B)
  BY DEF SameRows, Found, Names
<1>2. Parts(A) = Parts(B)
  BY <1>1 DEF Parts
<1>3. IsFiniteSet(A) /\ IsFiniteSet(B)
  BY KeyedFinite DEF SameRows
<1>4. ASSUME NEW p
      PROVE  Decode(InPart(A, p), body, mode) = Decode(InPart(B, p), body, mode)
  <2>1. SameRows(InPart(A, p), InPart(B, p))
    BY DEF SameRows, Found, Keyed, InPart
  <2> QED BY <2>1, SameBodies DEF Decode
<1> DEFINE n == Cardinality(Names(A))
           RA == [i \in 1 .. n |-> Decode(InPart(A, Parts(A)[i]), body, mode)]
           RB == [i \in 1 .. n |-> Decode(InPart(B, Parts(B)[i]), body, mode)]
<1>5. RA = RB
  BY <1>2, <1>4
<1>6. ReadRecords(A, body, mode) = FlattenSeq(RA)
  BY <1>3, ReadIs
<1>7. ReadRecords(B, body, mode) = FlattenSeq(RB)
  BY <1>1, <1>3, ReadIs
<1> QED BY <1>5, <1>6, <1>7

\* A filter says the same of rows of the same partition.
LEMMA SameResolved ==
  ASSUME NEW A, NEW B, SameRows(A, B), NEW q
  PROVE  SameRows(ResolveFileRefs(A, q), ResolveFileRefs(B, q))
<1> DEFINE M(part) == q # << >> /\ Matches([part |-> part])[And(q)]
<1>1. \A f : f \in ResolveFileRefs(A, q) <=> f \in A /\ M(f.part)
  BY DEF ResolveFileRefs
<1>2. \A f : f \in ResolveFileRefs(B, q) <=> f \in B /\ M(f.part)
  BY DEF ResolveFileRefs
<1> HIDE DEF M
<1> QED BY <1>1, <1>2 DEF SameRows, Found, Keyed

\* Every snapshot read of a rebuilt catalog, deduplicated or not, returns what it
\* returned before the loss: the same records in the same order
\* (cmd/s3pgstore-rebuild and read.go: rows of the same keys and partitions are
\* sorted, grouped and decoded alike, whatever their file_ids are now).
THEOREM ReadsAreTheSame ==
  ASSUME OrphansAtLoss = FALSE
  PROVE  Spec => []ReadsSurvive
<1>1. IInv => ReadsSurvive
  <2> SUFFICES ASSUME IInv, phase = "rebuilt", Cardinality(files) = Cardinality(before.files),
                      NEW q, NEW mode
               PROVE  ReadRecords(ResolveFileRefs(files, q), Body, mode) =
                        ReadRecords(ResolveFileRefs(before.files, q), Body, mode)
    BY DEF ReadsSurvive
  <2>1. Keyed(files)
    BY DEF IInv, TypeInv, KeysUnique, Keyed
  <2>2. ASSUME NEW f \in before.files
        PROVE  \E g \in files : g.key = f.key /\ g.part = f.part
    <3>1. PICK o \in objects : RowOf(f, o)
      BY DEF IInv, Gone
    <3>2. PICK g \in files : RowOf(g, o)
      BY DEF IInv, Rebuilt, HasRow
    <3> QED BY <3>1, <3>2 DEF RowOf
  <2>3. Keyed(before.files)
    <3>1. \A f \in before.files : f.key \in Keys
      BY <2>1, <2>2 DEF Keyed
    <3> QED BY <3>1 DEF IInv, KeysUnique, Keyed
  \* As many rows: each has the key of a lost one.
  <2>4. Found(files, before.files)
    <3> DEFINE KF == KeysOf(files)
               KB == KeysOf(before.files)
    <3>1. KB \in SUBSET KF
      BY <2>2 DEF KeysOf
    <3>2. IsFiniteSet(KF)
      <4>1. KF \in SUBSET (1 .. MaxKeys)
        BY <2>1 DEF KeysOf, Keyed, Keys
      <4>2. IsFiniteSet(1 .. MaxKeys)
        BY RebuildAssumption, FS_Interval
      <4> QED BY <4>1, <4>2, FS_Subset
    <3>3. Cardinality(KF) = Cardinality(KB)
      BY <2>1, <2>3, RowsAsKeys
    <3>4. KF = KB
      BY <3>1, <3>2, <3>3, FS_Subset
    <3>5. ASSUME NEW g \in files
          PROVE  \E f \in before.files : f.key = g.key /\ f.part = g.part
      <4>1. PICK f \in before.files : f.key = g.key
        BY <3>4 DEF KeysOf
      <4>2. PICK h \in files : h.key = f.key /\ h.part = f.part
        BY <2>2
      <4>3. h = g
        BY <2>1, <4>1, <4>2 DEF Keyed
      <4> QED BY <4>1, <4>2, <4>3
    <3> QED BY <3>5 DEF Found
  <2>5. SameRows(files, before.files)
    BY <2>1, <2>2, <2>3, <2>4 DEF SameRows, Found
  <2>6. SameRows(ResolveFileRefs(files, q), ResolveFileRefs(before.files, q))
    BY <2>5, SameResolved
  <2> QED BY <2>6, SameReads
<1> QED BY <1>1, Invariant, PTL

=============================================================================
