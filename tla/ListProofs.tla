----------------------------- MODULE ListProofs -----------------------------
(***************************************************************************)
(* What happens to the elements of a list when it grows, shrinks or is     *)
(* filtered.                                                               *)
(***************************************************************************)
EXTENDS Lists, Integers, SequenceTheorems, FiniteSetTheorems, WellFoundedInduction, TLAPS

\* What Append and Tail do to a list.
LEMMA ListGrows ==
  ASSUME NEW S, NEW s \in Seq(S), NEW r \in S
  PROVE  /\ Append(s, r) \in Seq(S)
         /\ Elements(Append(s, r)) = Elements(s) \cup {r}
         /\ r \notin Elements(s) /\ OnceEach(s) => OnceEach(Append(s, r))
<1>1. /\ Append(s, r) \in Seq(S) /\ Len(Append(s, r)) = Len(s) + 1 /\ Len(s) \in Nat
      /\ DOMAIN s = 1 .. Len(s) /\ DOMAIN Append(s, r) = 1 .. Len(s) + 1
      /\ \A k \in 1 .. Len(s) : Append(s, r)[k] = s[k]
      /\ Append(s, r)[Len(s) + 1] = r
  OBVIOUS
<1>2. Elements(Append(s, r)) = Elements(s) \cup {r}
  <2>1. \A k \in DOMAIN Append(s, r) : k \in DOMAIN s \/ k = Len(s) + 1
    BY <1>1
  <2>2. \A k \in DOMAIN s : k \in DOMAIN Append(s, r)
    BY <1>1
  <2>3. Len(s) + 1 \in DOMAIN Append(s, r)
    BY <1>1
  <2>4. Elements(Append(s, r)) \subseteq Elements(s) \cup {r}
    BY <1>1, <2>1 DEF Elements
  <2>5. Elements(s) \cup {r} \subseteq Elements(Append(s, r))
    BY <1>1, <2>2, <2>3 DEF Elements
  <2>. QED
    BY <2>4, <2>5
<1>3. ASSUME r \notin Elements(s), OnceEach(s),
             NEW j \in DOMAIN Append(s, r), NEW k \in DOMAIN Append(s, r),
             Append(s, r)[j] = Append(s, r)[k]
      PROVE  j = k
  BY <1>1, <1>3 DEF Elements, OnceEach
<1>. QED
  BY <1>1, <1>2, <1>3 DEF OnceEach

LEMMA ListShrinks ==
  ASSUME NEW S, NEW s \in Seq(S), s # <<>>, OnceEach(s)
  PROVE  /\ Tail(s) \in Seq(S) /\ Head(s) \in S
         /\ Head(s) \in Elements(s)
         /\ Elements(Tail(s)) = Elements(s) \ {Head(s)}
         /\ OnceEach(Tail(s))
<1>1. /\ Tail(s) \in Seq(S) /\ Len(s) \in Nat \ {0} /\ Head(s) = s[1]
      /\ DOMAIN s = 1 .. Len(s) /\ DOMAIN Tail(s) = 1 .. Len(s) - 1
      /\ \A k \in 1 .. Len(s) - 1 : Tail(s)[k] = s[k + 1]
  OBVIOUS
<1>2. Head(s) \in S /\ Head(s) \in Elements(s)
  BY <1>1 DEF Elements
<1>3. \A k \in DOMAIN s \ {1} : s[k] = Tail(s)[k - 1] /\ k - 1 \in DOMAIN Tail(s)
  BY <1>1
<1>4. \A k \in DOMAIN Tail(s) : Tail(s)[k] = s[k + 1] /\ k + 1 \in DOMAIN s /\ k + 1 # 1
  BY <1>1
<1>5. 1 \in DOMAIN s /\ \A k \in DOMAIN s \ {1} : s[k] # Head(s)
  BY <1>1 DEF OnceEach
<1>6. Elements(Tail(s)) \subseteq Elements(s) \ {Head(s)}
  BY <1>4, <1>5 DEF Elements
<1>7. Elements(s) \ {Head(s)} \subseteq Elements(Tail(s))
  <2>. SUFFICES ASSUME NEW k \in DOMAIN s, s[k] # Head(s) PROVE s[k] \in Elements(Tail(s))
    BY DEF Elements
  <2>1. s[k] = Tail(s)[k - 1] /\ k - 1 \in DOMAIN Tail(s)
    BY <1>1, <1>3
  <2>. QED
    BY <2>1 DEF Elements
<1>8. ASSUME NEW j \in DOMAIN Tail(s), NEW k \in DOMAIN Tail(s), Tail(s)[j] = Tail(s)[k]
      PROVE  j = k
  BY <1>1, <1>4, <1>8 DEF OnceEach
<1>. QED
  BY <1>1, <1>2, <1>6, <1>7, <1>8 DEF OnceEach

\* The same of a list that may hold an element twice.
LEMMA HeadAndTail ==
  ASSUME NEW S, NEW s \in Seq(S), s # <<>>
  PROVE  /\ Tail(s) \in Seq(S) /\ Head(s) \in S
         /\ Head(s) \in Elements(s) /\ Elements(Tail(s)) \subseteq Elements(s)
<1>1. /\ Tail(s) \in Seq(S) /\ Len(s) \in Nat \ {0} /\ Head(s) = s[1]
      /\ DOMAIN s = 1 .. Len(s) /\ DOMAIN Tail(s) = 1 .. Len(s) - 1
      /\ \A k \in 1 .. Len(s) - 1 : Tail(s)[k] = s[k + 1]
  OBVIOUS
<1>2. \A k \in DOMAIN Tail(s) : Tail(s)[k] = s[k + 1] /\ k + 1 \in DOMAIN s
  BY <1>1
<1>3. 1 \in DOMAIN s
  BY <1>1
<1>. QED
  BY <1>1, <1>2, <1>3 DEF Elements

(***************************************************************************)
(* Kept.  The number of members of K up to k is its rank; the ranks are    *)
(* 1 .. Cardinality(K), each of one member.                                *)
(***************************************************************************)
UpTo(K, k) == {j \in K : j <= k}
Rank(K)    == [k \in K |-> Cardinality(UpTo(K, k))]

LEMMA RanksDiffer ==
  ASSUME NEW K \in SUBSET Int, IsFiniteSet(K)
  PROVE  /\ Rank(K) \in Injection(K, 1 .. Cardinality(K))
         /\ \A i, j \in K : i < j => Rank(K)[i] < Rank(K)[j]
<1>1. ASSUME NEW k \in K
      PROVE  IsFiniteSet(UpTo(K, k)) /\ Rank(K)[k] = Cardinality(UpTo(K, k))
             /\ Rank(K)[k] \in 1 .. Cardinality(K)
  <2>1. UpTo(K, k) \in SUBSET K /\ k \in UpTo(K, k)
    BY DEF UpTo
  <2>2. IsFiniteSet(UpTo(K, k)) /\ Cardinality(UpTo(K, k)) <= Cardinality(K)
    BY <2>1, FS_Subset, Zenon
  <2>3. Cardinality(UpTo(K, k)) # 0
    BY <2>1, <2>2, FS_EmptySet
  <2>4. Cardinality(UpTo(K, k)) \in Nat /\ Cardinality(K) \in Nat
    BY <2>2, FS_CardinalityType
  <2>. QED
    BY <2>2, <2>3, <2>4 DEF Rank
<1>2. ASSUME NEW i \in K, NEW j \in K, i < j
      PROVE  Rank(K)[i] < Rank(K)[j]
  <2>1. UpTo(K, i) \in SUBSET UpTo(K, j) /\ j \in UpTo(K, j) /\ j \notin UpTo(K, i)
    <3>1. i \in Int /\ j \in Int /\ K \subseteq Int
      OBVIOUS
    <3>2. \A k \in K : k <= i => k <= j
      BY <3>1, <1>2
    <3>3. j <= j /\ ~(j <= i)
      BY <3>1, <1>2
    <3>. QED
      BY <3>2, <3>3 DEF UpTo
  <2>2. /\ Cardinality(UpTo(K, i)) <= Cardinality(UpTo(K, j))
        /\ Cardinality(UpTo(K, j)) # Cardinality(UpTo(K, i))
    BY <2>1, <1>1, FS_Subset, Zenon
  <2>3. Cardinality(UpTo(K, i)) \in Nat /\ Cardinality(UpTo(K, j)) \in Nat
    BY <1>1, FS_CardinalityType
  <2>. QED
    BY <2>2, <2>3, <1>1
<1>3. Rank(K) \in [K -> 1 .. Cardinality(K)]
  BY <1>1 DEF Rank
<1>4. ASSUME NEW i \in K, NEW j \in K, Rank(K)[i] = Rank(K)[j]
      PROVE  i = j
  <2>1. Rank(K)[i] \in Int /\ Rank(K)[j] \in Int
    BY <1>1, FS_CardinalityType
  <2>2. ~(i < j) /\ ~(j < i)
    BY <1>2, <1>4, <2>1
  <2>. QED
    BY <2>2
<1>. QED
  BY <1>2, <1>3, <1>4 DEF Injection, IsInjective

LEMMA PlaceHasRank ==
  ASSUME NEW K \in SUBSET Int, IsFiniteSet(K), NEW n \in 1 .. Cardinality(K)
  PROVE  Place(K, n) \in K /\ Rank(K)[Place(K, n)] = n
<1> DEFINE N == Cardinality(K)
<1>1. N \in Nat
  BY FS_CardinalityType
<1>2. IsFiniteSet(1 .. N) /\ Cardinality(1 .. N) = N
  BY <1>1, FS_Interval
<1>3. Rank(K) \in Surjection(K, 1 .. N)
  BY <1>2, RanksDiffer, FS_Injection
<1>4. \E k \in K : Rank(K)[k] = n
  BY <1>3 DEF Surjection
<1>5. \E k \in K : Cardinality({j \in K : j <= k}) = n
  BY <1>4 DEF Rank, UpTo
<1>6. Place(K, n) \in K /\ Cardinality({j \in K : j <= Place(K, n)}) = n
  BY <1>5 DEF Place
<1>. QED
  BY <1>6 DEF Rank, UpTo

(* What is kept is what stood at the places K, each place once, in order.  *)
LEMMA KeptIs ==
  ASSUME NEW S, NEW s \in Seq(S), NEW K \in SUBSET DOMAIN s
  PROVE  /\ Kept(s, K) \in Seq(S)
         /\ \A n \in DOMAIN Kept(s, K) : Place(K, n) \in K /\ Kept(s, K)[n] = s[Place(K, n)]
         /\ \A m, n \in DOMAIN Kept(s, K) : m < n => Place(K, m) < Place(K, n)
         /\ \A k \in K : \E n \in DOMAIN Kept(s, K) : Place(K, n) = k
<1> DEFINE N == Cardinality(K)
<1>1. K \in SUBSET Int /\ DOMAIN s = 1 .. Len(s) /\ Len(s) \in Nat
  OBVIOUS
<1>2. IsFiniteSet(K)
  <2>1. IsFiniteSet(1 .. Len(s)) /\ K \in SUBSET (1 .. Len(s))
    BY <1>1, FS_Interval
  <2>. QED
    BY <2>1, FS_Subset, Zenon
<1>3. N \in Nat
  BY <1>2, FS_CardinalityType
<1>4. ASSUME NEW n \in 1 .. N
      PROVE  Place(K, n) \in K /\ Rank(K)[Place(K, n)] = n
  BY <1>1, <1>2, PlaceHasRank
<1>5. Kept(s, K) = [n \in 1 .. N |-> s[Place(K, n)]]
  BY DEF Kept
<1> HIDE DEF N
<1>6. \A n \in 1 .. N : s[Place(K, n)] \in S
  BY <1>4
<1>7. Kept(s, K) \in Seq(S) /\ DOMAIN Kept(s, K) = 1 .. N
  BY <1>3, <1>5, <1>6
<1>8. \A n \in DOMAIN Kept(s, K) : Place(K, n) \in K /\ Kept(s, K)[n] = s[Place(K, n)]
  BY <1>4, <1>5, <1>7
<1>9. ASSUME NEW m \in 1 .. N, NEW n \in 1 .. N, m < n
      PROVE  Place(K, m) < Place(K, n)
  <2>1. \A i, j \in K : i < j => Rank(K)[i] < Rank(K)[j]
    BY <1>1, <1>2, RanksDiffer
  <2>2. Place(K, m) \in K /\ Place(K, n) \in K
        /\ Rank(K)[Place(K, m)] = m /\ Rank(K)[Place(K, n)] = n
    BY <1>4
  <2>3. ~(Place(K, n) < Place(K, m)) /\ Place(K, n) # Place(K, m)
    BY <2>1, <2>2, <1>9
  <2>. QED
    BY <2>2, <2>3, <1>1
<1>10. ASSUME NEW k \in K
       PROVE  \E n \in 1 .. N : Place(K, n) = k
  <2>1. Rank(K) \in Injection(K, 1 .. N)
    BY <1>1, <1>2, RanksDiffer DEF N
  <2>2. Rank(K)[k] \in 1 .. N
    BY <2>1 DEF Injection
  <2>3. Place(K, Rank(K)[k]) \in K /\ Rank(K)[Place(K, Rank(K)[k])] = Rank(K)[k]
    BY <2>2, <1>4
  <2>4. Place(K, Rank(K)[k]) = k
    BY <2>1, <2>3 DEF Injection, IsInjective
  <2>. QED
    BY <2>2, <2>4
<1>. QED
  BY <1>7, <1>8, <1>9, <1>10

LEMMA KeptElements ==
  ASSUME NEW S, NEW s \in Seq(S), NEW K \in SUBSET DOMAIN s
  PROVE  /\ Kept(s, K) \in Seq(S)
         /\ Elements(Kept(s, K)) = {s[k] : k \in K}
         /\ OnceEach(s) => OnceEach(Kept(s, K))
<1>1. Kept(s, K) \in Seq(S)
  BY KeptIs
<1>2. \A n \in DOMAIN Kept(s, K) : Place(K, n) \in K /\ Kept(s, K)[n] = s[Place(K, n)]
  BY KeptIs
<1>3. \A k \in K : \E n \in DOMAIN Kept(s, K) : Kept(s, K)[n] = s[k]
  <2>1. \A k \in K : \E n \in DOMAIN Kept(s, K) : Place(K, n) = k
    BY KeptIs
  <2>. QED
    BY <2>1, <1>2
<1>4. Elements(Kept(s, K)) = {s[k] : k \in K}
  BY <1>2, <1>3 DEF Elements
<1>5. ASSUME NEW m \in DOMAIN Kept(s, K), NEW n \in DOMAIN Kept(s, K), Place(K, m) = Place(K, n)
      PROVE  m = n
  <2>1. \A i, j \in DOMAIN Kept(s, K) : i < j => Place(K, i) < Place(K, j)
    BY KeptIs
  <2>2. m \in Int /\ n \in Int /\ Place(K, m) \in Int
    BY <1>1, <1>2
  <2>3. ~(m < n) /\ ~(n < m)
    BY <2>1, <2>2, <1>5
  <2>. QED
    BY <2>2, <2>3
<1>6. ASSUME OnceEach(s), NEW m \in DOMAIN Kept(s, K), NEW n \in DOMAIN Kept(s, K),
             Kept(s, K)[m] = Kept(s, K)[n]
      PROVE  m = n
  <2>1. Place(K, m) \in DOMAIN s /\ Place(K, n) \in DOMAIN s
    BY <1>2
  <2>2. Place(K, m) = Place(K, n)
    BY <1>2, <1>6, <2>1 DEF OnceEach
  <2>. QED
    BY <1>5, <2>2
<1>. QED
  BY <1>1, <1>4, <1>6 DEF OnceEach

(***************************************************************************)
(* The least of a set of numbers; induction; and the functions that        *)
(* recursion over the numbers defines: there is one, and one only.         *)
(***************************************************************************)
LEMMA Least ==
  ASSUME NEW T \in SUBSET Nat, T # {}
  PROVE  \E x \in T : \A y \in T : x <= y
<1> DEFINE R == OpToRel(<, Nat)
<1>1. PICK x \in T : \A y \in T : <<y, x>> \notin R
  <2>1. IsWellFoundedOn(R, Nat)
    BY NatLessThanWellFounded, Zenon
  <2> HIDE DEF R
  <2> QED
    BY <2>1, WFMin
<1>2. \A y \in T : y < x => <<y, x>> \in R
  BY DEF OpToRel
<1> HIDE DEF R
<1>3. \A y \in T : ~(y < x) /\ y \in Nat /\ x \in Nat
  BY <1>1, <1>2
<1> QED
  BY <1>3

LEMMA Induction ==
  ASSUME NEW S \in SUBSET Nat, 0 \in S, \A n \in S : n + 1 \in S
  PROVE  S = Nat
<1>1. SUFFICES ASSUME Nat \ S # {} PROVE FALSE
  OBVIOUS
<1>2. PICK x \in Nat \ S : \A y \in Nat \ S : x <= y
  BY <1>1, Least
<1>3. x # 0 /\ x - 1 \in Nat /\ ~(x <= x - 1)
  BY <1>2
<1>4. x - 1 \in S
  BY <1>2, <1>3
<1> QED
  BY <1>3, <1>4

\* A function that starts with a and goes on by G, up to N.
Recursive(f, a, N, G) ==
  f = [n \in 0 .. N |-> IF n = 0 THEN a ELSE G[<<n, f[n - 1]>>]]

LEMMA RecursiveExists ==
  ASSUME NEW Q, NEW a \in Q, NEW N \in Nat, NEW G \in [(1 .. N) \X Q -> Q]
  PROVE  \E f \in [0 .. N -> Q] : Recursive(f, a, N, G)
<1> DEFINE Good(m) == \E f \in [0 .. m -> Q] : Recursive(f, a, m, G)
           S == {m \in Nat : m <= N => Good(m)}
<1>1. 0 \in S
  <2> DEFINE f == [n \in 0 .. 0 |-> a]
  <2>1. f \in [0 .. 0 -> Q] /\ f = [n \in 0 .. 0 |-> IF n = 0 THEN a ELSE G[<<n, f[n - 1]>>]]
    OBVIOUS
  <2>2. Good(0)
    BY <2>1 DEF Recursive
  <2> QED
    BY <2>2
<1>2. ASSUME NEW m \in S PROVE m + 1 \in S
  <2>1. SUFFICES ASSUME m + 1 <= N PROVE Good(m + 1)
    OBVIOUS
  <2>2. m \in Nat /\ Good(m) /\ m + 1 \in 1 .. N
    BY <2>1
  <2>3. PICK f \in [0 .. m -> Q] : Recursive(f, a, m, G)
    BY <2>2
  <2> DEFINE b == G[<<m + 1, f[m]>>]
             g == [n \in 0 .. m + 1 |-> IF n = m + 1 THEN b ELSE f[n]]
  <2>4. b \in Q
    BY <2>2
  <2>5. /\ f[0] = a
        /\ \A n \in 1 .. m : f[n] = G[<<n, f[n - 1]>>]
    BY <2>2, <2>3 DEF Recursive
  <2> HIDE DEF b
  <2>6. /\ g \in [0 .. m + 1 -> Q] /\ g[0] = a
        /\ \A n \in 0 .. m : g[n] = f[n]
        /\ g[m + 1] = b
    BY <2>2, <2>4, <2>5
  <2>7. DOMAIN g = 0 .. m + 1
    OBVIOUS
  <2>8. g = [n \in DOMAIN g |-> g[n]]
    OBVIOUS
  <2> HIDE DEF g
  <2>9. ASSUME NEW n \in 1 .. m + 1 PROVE g[n] = G[<<n, g[n - 1]>>]
    <3>1. g[n - 1] = f[n - 1]
      BY <2>2, <2>6
    <3>2. CASE n = m + 1
      BY <2>2, <2>6, <3>1, <3>2 DEF b
    <3>3. CASE n \in 1 .. m
      <4>1. g[n] = f[n]
        BY <2>2, <2>6, <3>3
      <4> QED
        BY <2>5, <3>1, <3>3, <4>1
    <3> QED
      BY <2>2, <3>2, <3>3
  <2>10. Recursive(g, a, m + 1, G)
    <3>1. \A n \in 0 .. m + 1 : g[n] = IF n = 0 THEN a ELSE G[<<n, g[n - 1]>>]
      BY <2>2, <2>6, <2>9
    <3> QED
      BY <2>7, <2>8, <3>1 DEF Recursive
  <2> QED
    BY <2>6, <2>10
<1> HIDE DEF Good
<1>3. S = Nat
  BY <1>1, <1>2, Induction
<1> QED
  BY <1>3 DEF Good

(***************************************************************************)
(* Sums.                                                                   *)
(***************************************************************************)
LEMMA SumsAre ==
  ASSUME NEW s \in Seq(Int)
  PROVE  /\ Sums(s) \in [0 .. Len(s) -> Int] /\ Sums(s)[0] = 0 /\ Sum(s) \in Int
         /\ \A n \in 1 .. Len(s) : Sums(s)[n] = Sums(s)[n - 1] + s[n]
<1> DEFINE N == Len(s)
           G == [x \in (1 .. N) \X Int |-> x[2] + s[x[1]]]
<1>1. /\ N \in Nat /\ N = Len(s) /\ \A n \in 1 .. N : s[n] \in Int
      /\ G \in [(1 .. N) \X Int -> Int] /\ 0 \in Int
  OBVIOUS
<1> HIDE DEF G, N
<1>2. PICK f \in [0 .. N -> Int] : Recursive(f, 0, N, G)
  BY <1>1, RecursiveExists
<1>3. \A n \in 1 .. N : G[<<n, f[n - 1]>>] = f[n - 1] + s[n]
  <2> SUFFICES ASSUME NEW n \in 1 .. N PROVE G[<<n, f[n - 1]>>] = f[n - 1] + s[n]
    OBVIOUS
  <2>1. n - 1 \in 0 .. N
    BY <1>1
  <2>2. <<n, f[n - 1]>> \in (1 .. N) \X Int
    BY <2>1
  <2> QED
    BY <2>2 DEF G
<1>4. f = [n \in 0 .. N |-> IF n = 0 THEN 0 ELSE f[n - 1] + s[n]]
  <2>1. f = [n \in 0 .. N |-> IF n = 0 THEN 0 ELSE G[<<n, f[n - 1]>>]]
    BY <1>2 DEF Recursive
  <2>2. \A n \in 0 .. N : n # 0 => n \in 1 .. N
    BY <1>1
  <2> QED
    BY <1>3, <2>1, <2>2, Zenon
<1>5. Sums(s) = [n \in 0 .. N |-> IF n = 0 THEN 0 ELSE Sums(s)[n - 1] + s[n]]
  BY <1>1, <1>4 DEF Sums
<1> DEFINE g == Sums(s)
<1>6. g = [n \in 0 .. N |-> IF n = 0 THEN 0 ELSE g[n - 1] + s[n]]
  BY <1>5
<1> HIDE DEF g
<1>7. /\ g[0] = 0 /\ \A n \in 1 .. N : g[n] = g[n - 1] + s[n]
      /\ DOMAIN g = 0 .. N /\ g = [n \in 0 .. N |-> g[n]]
  BY <1>1, <1>6, SMTT(30)
<1> DEFINE S == {n \in Nat : n <= N => g[n] \in Int}
<1>8. 0 \in S
  BY <1>7
<1>9. ASSUME NEW n \in S PROVE n + 1 \in S
  <2>1. SUFFICES ASSUME n + 1 <= N PROVE g[n + 1] \in Int
    OBVIOUS
  <2>2. n \in Nat /\ g[n] \in Int /\ n + 1 \in 1 .. N /\ (n + 1) - 1 = n
    BY <1>1, <2>1
  <2>3. g[n + 1] = g[(n + 1) - 1] + s[n + 1]
    BY <1>7, <2>2
  <2> QED
    BY <1>1, <2>2, <2>3
<1>10. S = Nat
  BY <1>8, <1>9, Induction
<1>11. \A n \in 0 .. N : g[n] \in Int
  BY <1>10
<1>12. g \in [0 .. N -> Int] /\ g[N] \in Int
  <2>1. N \in 0 .. N
    BY <1>1
  <2> QED
    BY <1>7, <1>11, <2>1
<1> QED
  BY <1>1, <1>7, <1>12 DEF g, Sum

\* Lists that begin alike have the same sums there.
LEMMA SumsAgree ==
  ASSUME NEW s \in Seq(Int), NEW t \in Seq(Int), NEW K \in Nat,
         K <= Len(s), K <= Len(t), \A n \in 1 .. K : s[n] = t[n]
  PROVE  Sums(s)[K] = Sums(t)[K]
<1> DEFINE S == {n \in Nat : n <= K => Sums(s)[n] = Sums(t)[n]}
<1>1. 0 \in S
  BY SumsAre
<1>2. ASSUME NEW n \in S PROVE n + 1 \in S
  <2>1. SUFFICES ASSUME n + 1 <= K PROVE Sums(s)[n + 1] = Sums(t)[n + 1]
    OBVIOUS
  <2>2. n + 1 \in 1 .. K /\ n + 1 \in 1 .. Len(s) /\ n + 1 \in 1 .. Len(t) /\ (n + 1) - 1 = n
    BY <2>1
  <2>3. /\ Sums(s)[n + 1] = Sums(s)[(n + 1) - 1] + s[n + 1]
        /\ Sums(t)[n + 1] = Sums(t)[(n + 1) - 1] + t[n + 1]
    BY <2>2, SumsAre
  <2>4. Sums(s)[n] = Sums(t)[n]
    BY <2>1
  <2> QED
    BY <2>2, <2>3, <2>4
<1>3. S = Nat
  BY <1>1, <1>2, Induction
<1> QED
  BY <1>3

LEMMA SumEmpty == Sum(<<>>) = 0
<1>1. <<>> \in Seq(Int) /\ Len(<<>>) = 0
  OBVIOUS
<1> QED
  BY <1>1, SumsAre DEF Sum

\* What is left of a sum when the last element is taken away, and when the first is.
LEMMA SumLast ==
  ASSUME NEW s \in Seq(Int), NEW t \in Seq(Int), Len(s) = Len(t) + 1,
         \A n \in 1 .. Len(t) : s[n] = t[n]
  PROVE  Sum(s) = Sum(t) + s[Len(s)]
<1>1. Len(t) \in Nat /\ Len(s) \in 1 .. Len(s) /\ Len(s) - 1 = Len(t)
  OBVIOUS
<1>2. Sums(s)[Len(s)] = Sums(s)[Len(s) - 1] + s[Len(s)]
  BY <1>1, SumsAre
<1>3. Sums(s)[Len(t)] = Sums(t)[Len(t)]
  <2>1. Len(t) <= Len(s) /\ Len(t) <= Len(t)
    BY <1>1
  <2> QED
    BY <1>1, <2>1, SumsAgree
<1> QED
  BY <1>1, <1>2, <1>3 DEF Sum

LEMMA SumFirst ==
  ASSUME NEW s \in Seq(Int), s # <<>>
  PROVE  Sum(s) = s[1] + Sum(Tail(s))
<1>1. /\ Len(s) \in Nat \ {0} /\ Tail(s) \in Seq(Int) /\ Len(Tail(s)) = Len(s) - 1
      /\ \A n \in 1 .. Len(Tail(s)) : Tail(s)[n] = s[n + 1]
      /\ s[1] \in Int
  OBVIOUS
<1> DEFINE t == Tail(s)
           S == {n \in Nat : n <= Len(t) => Sums(s)[n + 1] = s[1] + Sums(t)[n]}
<1>2. /\ Sums(s)[0] = 0 /\ Sums(t)[0] = 0
      /\ \A n \in 1 .. Len(s) : Sums(s)[n] = Sums(s)[n - 1] + s[n]
      /\ \A n \in 1 .. Len(t) : Sums(t)[n] = Sums(t)[n - 1] + t[n]
      /\ Sums(t) \in [0 .. Len(t) -> Int]
  BY <1>1, SumsAre
<1>3. /\ Len(t) = Len(s) - 1
      /\ \A n \in 1 .. Len(t) : t[n] = s[n + 1] /\ t[n] \in Int
  BY <1>1
<1> HIDE DEF t
<1>4. 0 \in S
  <2>1. 1 \in 1 .. Len(s) /\ 1 - 1 = 0 /\ 0 + 1 = 1
    BY <1>1
  <2>2. Sums(s)[1] = Sums(s)[1 - 1] + s[1]
    BY <1>2, <2>1
  <2> QED
    BY <1>1, <1>2, <2>1, <2>2
<1>5. ASSUME NEW n \in S PROVE n + 1 \in S
  <2>1. SUFFICES ASSUME n + 1 <= Len(t) PROVE Sums(s)[(n + 1) + 1] = s[1] + Sums(t)[n + 1]
    OBVIOUS
  <2>2. /\ (n + 1) + 1 \in 1 .. Len(s) /\ n + 1 \in 1 .. Len(t) /\ n \in 0 .. Len(t)
        /\ ((n + 1) + 1) - 1 = n + 1 /\ (n + 1) - 1 = n
    BY <1>1, <1>3, <2>1
  <2>3. /\ Sums(s)[(n + 1) + 1] = Sums(s)[((n + 1) + 1) - 1] + s[(n + 1) + 1]
        /\ Sums(t)[n + 1] = Sums(t)[(n + 1) - 1] + t[n + 1]
    BY <1>2, <2>2
  <2>5. t[n + 1] = s[(n + 1) + 1] /\ t[n + 1] \in Int /\ Sums(t)[n] \in Int
    BY <1>2, <1>3, <2>2
  <2>4. Sums(s)[n + 1] = s[1] + Sums(t)[n]
    BY <2>1
  <2> QED
    BY <1>1, <2>2, <2>3, <2>4, <2>5
<1>6. S = Nat
  BY <1>4, <1>5, Induction
<1>7. Len(t) \in Nat /\ Len(t) + 1 = Len(s)
  BY <1>1, <1>3
<1>8. Sums(s)[Len(t) + 1] = s[1] + Sums(t)[Len(t)]
  BY <1>6, <1>7
<1> QED
  BY <1>7, <1>8 DEF Sum, t

LEMMA SumNat ==
  ASSUME NEW s \in Seq(Nat)
  PROVE  Sum(s) \in Nat
<1> DEFINE g == Sums(s)
           S == {n \in Nat : n <= Len(s) => g[n] \in Nat}
<1>1. s \in Seq(Int) /\ Len(s) \in Nat /\ \A n \in 1 .. Len(s) : s[n] \in Nat
  OBVIOUS
<1>2. g[0] = 0 /\ \A n \in 1 .. Len(s) : g[n] = g[n - 1] + s[n]
  BY <1>1, SumsAre
<1> HIDE DEF g
<1>3. 0 \in S
  BY <1>2
<1>4. ASSUME NEW n \in S PROVE n + 1 \in S
  <2>1. SUFFICES ASSUME n + 1 <= Len(s) PROVE g[n + 1] \in Nat
    OBVIOUS
  <2>2. n + 1 \in 1 .. Len(s) /\ (n + 1) - 1 = n /\ g[n] \in Nat
    BY <1>1, <2>1
  <2>3. g[n + 1] = g[(n + 1) - 1] + s[n + 1] /\ s[n + 1] \in Nat
    BY <1>1, <1>2, <2>2
  <2> QED
    BY <2>2, <2>3
<1>5. S = Nat
  BY <1>3, <1>4, Induction
<1> QED
  BY <1>1, <1>5 DEF g, Sum

\* One element is changed: the last, and the first.
LEMMA SumLastChanged ==
  ASSUME NEW s \in Seq(Int), NEW t \in Seq(Int), Len(s) = Len(t), Len(t) # 0,
         \A n \in 1 .. Len(t) - 1 : s[n] = t[n]
  PROVE  Sum(s) - Sum(t) = s[Len(s)] - t[Len(t)]
<1>1. /\ Len(t) \in 1 .. Len(t) /\ Len(t) - 1 \in Nat /\ Len(t) - 1 <= Len(t)
      /\ s[Len(s)] \in Int /\ t[Len(t)] \in Int /\ Len(t) - 1 \in 0 .. Len(t)
  OBVIOUS
<1>2. Sums(s)[Len(t) - 1] = Sums(t)[Len(t) - 1]
  BY <1>1, SumsAgree
<1>3. /\ Sums(s)[Len(s)] = Sums(s)[Len(s) - 1] + s[Len(s)]
      /\ Sums(t)[Len(t)] = Sums(t)[Len(t) - 1] + t[Len(t)]
      /\ Sums(t)[Len(t) - 1] \in Int
  BY <1>1, SumsAre
<1> QED
  BY <1>1, <1>2, <1>3 DEF Sum

LEMMA SumFirstChanged ==
  ASSUME NEW s \in Seq(Int), NEW t \in Seq(Int), Len(s) = Len(t), Len(t) # 0,
         \A n \in 2 .. Len(t) : s[n] = t[n]
  PROVE  Sum(s) - Sum(t) = s[1] - t[1]
<1>1. s # <<>> /\ t # <<>> /\ s[1] \in Int /\ t[1] \in Int /\ Len(t) \in Nat \ {0}
  OBVIOUS
<1>2. /\ Tail(s) \in Seq(Int) /\ Len(Tail(s)) = Len(t) - 1
      /\ Tail(t) \in Seq(Int) /\ Len(Tail(t)) = Len(t) - 1
      /\ \A n \in 1 .. Len(t) - 1 : Tail(s)[n] = s[n + 1] /\ Tail(t)[n] = t[n + 1]
  BY <1>1
<1>3. \A n \in 1 .. Len(t) - 1 : s[n + 1] = t[n + 1]
  BY <1>1
<1>4. Tail(s) = Tail(t)
  BY <1>2, <1>3, SeqEqual, SMTT(30)
<1>5. Sum(s) = s[1] + Sum(Tail(s)) /\ Sum(t) = t[1] + Sum(Tail(t))
  BY <1>1, SumFirst
<1>6. PICK rest \in Int : rest = Sum(Tail(t))
  BY <1>2, SumsAre
<1>7. Sum(s) = s[1] + rest /\ Sum(t) = t[1] + rest
  BY <1>4, <1>5, <1>6, Zenon
<1> QED
  BY <1>1, <1>6, <1>7
=============================================================================
