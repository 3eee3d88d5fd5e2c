-------------------------- MODULE PagedListsProofs --------------------------
(***************************************************************************)
(* Theorems about PagedLists, for any tables, page sizes and numbers of    *)
(* commits, of requests in progress and of calls.                          *)
(*                                                                         *)
(* A list of the server is a table with some of its positions kept.  The   *)
(* rows are given their places by counting: the one at position i of K     *)
(* comes at the place Rank(K, i).  A numbering that rises through K is     *)
(* that rank (RisingIsRank), so two ways to leave rows out are equal as    *)
(* soon as they keep the same rows in rising order, and nothing has to be  *)
(* shown by induction over a sequence.                                     *)
(*                                                                         *)
(* IInv says of every list, the one shown and those that further pages on  *)
(* their way will be joined to, that it is a snapshot (ListOK), and of     *)
(* every call what it has read so far (PageOK, ReadOK) or changed          *)
(* (ChangeOK), all of it relative to the commit it was read after, which   *)
(* no later commit touches (PastGrows).                                    *)
(***************************************************************************)
EXTENDS PagedLists, FiniteSetTheorems, TLAPS

-----------------------------------------------------------------------------
(* The entries of a sequence at some positions, in their order.            *)

Positions(K) == K \in SUBSET Nat /\ IsFiniteSet(K)

\* m goes through the positions K in their order.
Rising(m, n, K) ==
    /\ m \in [1..n -> K]
    /\ \A i \in K : \E k \in 1..n : m[k] = i
    /\ \A a, b \in 1..n : a < b => m[a] < m[b]

Rank(K, i) == Cardinality({j \in K : j <= i})

\* Every position has a rank of its own, and they are the numbers up to the last.
LEMMA RankRises ==
  ASSUME NEW K, Positions(K)
  PROVE  /\ IsFiniteSet(K) /\ Cardinality(K) \in Nat
         /\ \A i \in K : Rank(K, i) \in 1..Cardinality(K)
         /\ \A i, j \in K : i < j => Rank(K, i) < Rank(K, j)
         /\ \A n \in 1..Cardinality(K) : \E i \in K : Rank(K, i) = n
  <1>1. IsFiniteSet(K)
    BY DEF Positions
  <1>2. Cardinality(K) \in Nat
    BY <1>1, FS_CardinalityType
  <1>3. ASSUME NEW i \in K PROVE Rank(K, i) \in 1..Cardinality(K)
    <2> DEFINE S == {j \in K : j <= i}
    <2>1. IsFiniteSet(S) /\ Cardinality(S) <= Cardinality(K)
      BY <1>1, FS_Subset
    <2>2. i \in S
      BY <1>3 DEF Positions
    <2>3. Cardinality(S) \in Nat /\ Cardinality(S) # 0
      BY <2>1, <2>2, FS_CardinalityType, FS_EmptySet
    <2> QED
      BY <2>1, <2>3, <1>2 DEF Rank
  <1>4. ASSUME NEW i \in K, NEW j \in K, i < j PROVE Rank(K, i) < Rank(K, j)
    <2> DEFINE S == {k \in K : k <= i}
               T == {k \in K : k <= j}
    <2>1. S \in SUBSET T /\ S # T /\ IsFiniteSet(T) /\ IsFiniteSet(S)
      <3> K \subseteq Nat
        BY DEF Positions
      <3>1. j \in T /\ j \notin S /\ S \in SUBSET K /\ T \in SUBSET K
        BY <1>4
      <3>2. S \in SUBSET T
        <4> SUFFICES ASSUME NEW k \in K, k <= i PROVE k <= j
          OBVIOUS
        <4>1. k \in Nat /\ i \in Nat /\ j \in Nat
          BY DEF Positions
        <4> QED
          BY <4>1, <1>4
      <3> QED
        BY <3>1, <3>2, <1>1, FS_Subset
    <2>2. Cardinality(S) <= Cardinality(T) /\ Cardinality(S) # Cardinality(T)
      BY <2>1, FS_Subset
    <2>3. Cardinality(S) \in Nat /\ Cardinality(T) \in Nat
      BY <2>1, FS_CardinalityType
    <2> QED
      BY <2>2, <2>3 DEF Rank
  <1>5. ASSUME NEW n \in 1..Cardinality(K) PROVE \E i \in K : Rank(K, i) = n
    <2> DEFINE f == [i \in K |-> Rank(K, i)]
               T == 1..Cardinality(K)
    <2>1. f \in [K -> T]
      BY <1>3
    <2>2. f \in Injection(K, T)
      BY <2>1, <1>3, <1>4 DEF Injection, IsInjective, Positions
    <2>3. IsFiniteSet(T) /\ Cardinality(T) = Cardinality(K)
      BY <1>2, FS_Interval
    <2>4. f \in Surjection(K, T)
      BY <2>2, <2>3, FS_Injection
    <2> QED
      BY <2>4 DEF Surjection
  <1> QED
    BY <1>1, <1>2, <1>3, <1>4, <1>5

LEMMA SameRank ==
  ASSUME NEW K, Positions(K), NEW i \in K, NEW j \in K, Rank(K, i) = Rank(K, j)
  PROVE  i = j
  <1>1. i \in Nat /\ j \in Nat /\ Rank(K, i) \in Nat
    <2>1. Rank(K, i) \in 1..Cardinality(K) /\ Cardinality(K) \in Nat
      BY RankRises
    <2> QED
      BY <2>1 DEF Positions
  <1>2. i < j => Rank(K, i) < Rank(K, j)
    BY RankRises
  <1>3. j < i => Rank(K, j) < Rank(K, i)
    BY RankRises
  <1> QED
    BY <1>1, <1>2, <1>3

LEMMA RisingIsRank ==
  ASSUME NEW K, Positions(K), NEW n \in Nat, NEW m, Rising(m, n, K)
  PROVE  n = Cardinality(K) /\ \A k \in 1..n : Rank(K, m[k]) = k
  <1>1. ASSUME NEW k \in 1..n PROVE Rank(K, m[k]) = k
    <2> DEFINE S == {j \in K : j <= m[k]}
               f == [i \in 1..k |-> m[i]]
    <2>0. \A i \in 1..n : m[i] \in K /\ m[i] \in Nat
      BY DEF Rising, Positions
    <2>1. \A i \in 1..k : i \in 1..n /\ m[i] \in K /\ m[i] \in Nat /\ m[i] <= m[k]
      <3> TAKE i \in 1..k
      <3>1. i \in 1..n /\ (i = k \/ i < k)
        OBVIOUS
      <3> QED
        BY <3>1, <2>0 DEF Rising
    <2>2. f \in [1..k -> S]
      BY <2>1
    <2>3. \A a, b \in 1..k : f[a] = f[b] => a = b
      <3> SUFFICES ASSUME NEW a \in 1..k, NEW b \in 1..k, f[a] = f[b] PROVE a = b
        OBVIOUS
      <3>1. a \in 1..n /\ b \in 1..n /\ m[a] = m[b] /\ m[a] \in Nat /\ a \in Nat /\ b \in Nat
        BY <2>1
      <3>2. ~(a < b) /\ ~(b < a)
        BY <3>1 DEF Rising
      <3> QED
        BY <3>1, <3>2
    <2>4. \A t \in S : \E i \in 1..k : f[i] = t
      <3> SUFFICES ASSUME NEW t \in S PROVE \E i \in 1..k : f[i] = t
        OBVIOUS
      <3>1. PICK i \in 1..n : m[i] = t
        BY DEF Rising
      <3>2. ~(k < i)
        BY <3>1, <2>0, <2>1 DEF Rising
      <3> QED
        BY <3>1, <3>2
    <2>5. f \in Bijection(1..k, S)
      BY <2>2, <2>3, <2>4 DEF Bijection, Injection, IsInjective, Surjection
    <2>6. ExistsBijection(1..k, S)
      BY <2>5 DEF ExistsBijection
    <2> QED
      BY <2>6, FS_CountingElements DEF Rank
  <1>2. n = Cardinality(K)
    <2>1. m \in Injection(1..n, K)
      <3> SUFFICES ASSUME NEW a \in 1..n, NEW b \in 1..n, m[a] = m[b] PROVE a = b
        BY DEF Rising, Injection, IsInjective
      <3>1. m[a] \in Nat
        BY DEF Rising, Positions
      <3> QED
        BY <3>1 DEF Rising
    <2>2. m \in Bijection(1..n, K)
      BY <2>1 DEF Rising, Bijection, Surjection
    <2> QED
      BY <2>2, FS_CountingElements DEF ExistsBijection
  <1> QED
    BY <1>1, <1>2

\* Kept is the one sequence that goes through the positions in their order.
LEMMA KeptIs ==
  ASSUME NEW K, Positions(K), NEW n \in Nat, NEW m, Rising(m, n, K), NEW s
  PROVE  Kept(s, K) = [k \in 1..n |-> s[m[k]]]
  <1>1. n = Cardinality(K) /\ \A k \in 1..n : Rank(K, m[k]) = k
    BY RisingIsRank
  <1>2. ASSUME NEW k \in 1..n PROVE (CHOOSE i \in K : Rank(K, i) = k) = m[k]
    <2>1. m[k] \in K /\ Rank(K, m[k]) = k
      BY <1>1 DEF Rising
    <2>2. \A i \in K : Rank(K, i) = k => i = m[k]
      BY <1>1 DEF Rising
    <2> QED
      BY <2>1, <2>2
  <1>3. Kept(s, K) = [k \in 1..Cardinality(K) |-> s[CHOOSE i \in K : Rank(K, i) = k]]
    BY Zenon DEF Kept, Rank
  <1> QED
    BY <1>1, <1>2, <1>3

LEMMA RisingExists ==
  ASSUME NEW K, Positions(K)
  PROVE  \E n \in Nat : \E m \in [1..n -> K] : Rising(m, n, K)
  <1> DEFINE n == Cardinality(K)
             m == [k \in 1..n |-> CHOOSE i \in K : Rank(K, i) = k]
  <1>1. n \in Nat /\ \A k \in 1..n : m[k] \in K /\ Rank(K, m[k]) = k
    BY RankRises
  <1>2. m \in [1..n -> K]
    BY <1>1
  <1>3. \A i \in K : \E k \in 1..n : m[k] = i
    <2> SUFFICES ASSUME NEW i \in K PROVE m[Rank(K, i)] = i /\ Rank(K, i) \in 1..n
      OBVIOUS
    <2>1. Rank(K, i) \in 1..n
      BY RankRises
    <2>2. m[Rank(K, i)] \in K /\ Rank(K, m[Rank(K, i)]) = Rank(K, i)
      BY <2>1, <1>1
    <2> HIDE DEF m
    <2> QED
      BY <2>1, <2>2, SameRank
  <1>4. \A a, b \in 1..n : a < b => m[a] < m[b]
    <2> SUFFICES ASSUME NEW a \in 1..n, NEW b \in 1..n, a < b PROVE m[a] < m[b]
      OBVIOUS
    <2>1. m[a] \in K /\ m[b] \in K /\ Rank(K, m[a]) = a /\ Rank(K, m[b]) = b
      BY <1>1
    <2> HIDE DEF m
    <2>2. m[a] \in Nat /\ m[b] \in Nat /\ a \in Nat /\ b \in Nat /\ m[a] # m[b]
      <3>1. a \in Nat /\ b \in Nat /\ a # b
        BY <1>1
      <3>2. m[a] \in Nat /\ m[b] \in Nat
        BY <2>1 DEF Positions
      <3> QED
        BY <3>1, <3>2, <2>1
    <2>3. ~(m[b] < m[a])
      <3> SUFFICES ASSUME m[b] < m[a] PROVE FALSE
        OBVIOUS
      <3>1. Rank(K, m[b]) < Rank(K, m[a])
        BY <2>1, RankRises
      <3> QED
        BY <3>1, <2>1, <2>2
    <2> QED
      BY <2>2, <2>3
  <1>5. Rising(m, n, K)
    BY <1>2, <1>3, <1>4 DEF Rising
  <1>n. n \in Nat
    BY <1>1
  <1> HIDE DEF n, m
  <1> QED
    BY <1>n, <1>2, <1>5

LEMMA PositionsOf ==
  ASSUME NEW T, NEW s \in Seq(T), NEW K \in SUBSET DOMAIN s
  PROVE  Positions(K)
  <1>1. DOMAIN s = 1..Len(s) /\ Len(s) \in Nat
    OBVIOUS
  <1>2. IsFiniteSet(1..Len(s))
    BY <1>1, FS_Interval
  <1>3. IsFiniteSet(K)
    BY <1>1, <1>2, FS_Subset
  <1> QED
    BY <1>1, <1>3 DEF Positions

\* What is kept is there, and nothing else is.
LEMMA KeptSeq ==
  ASSUME NEW T, NEW s \in Seq(T), NEW K \in SUBSET DOMAIN s
  PROVE  /\ Kept(s, K) \in Seq(T)
         /\ \A n \in DOMAIN Kept(s, K) : \E i \in K : Kept(s, K)[n] = s[i]
         /\ \A i \in K : \E n \in DOMAIN Kept(s, K) : Kept(s, K)[n] = s[i]
  <1>1. Positions(K)
    BY PositionsOf
  <1>2. PICK n \in Nat : \E m \in [1..n -> K] : Rising(m, n, K)
    BY <1>1, RisingExists
  <1>3. PICK m \in [1..n -> K] : Rising(m, n, K) /\ Kept(s, K) = [k \in 1..n |-> s[m[k]]]
    BY <1>2, <1>1, KeptIs
  <1>4. \A k \in 1..n : m[k] \in K /\ s[m[k]] \in T
    OBVIOUS
  <1>5. [k \in 1..n |-> s[m[k]]] \in Seq(T)
    BY <1>4
  <1>6. \A i \in K : \E k \in 1..n : m[k] = i
    BY <1>3 DEF Rising
  <1>7. DOMAIN Kept(s, K) = 1..n /\ \A k \in 1..n : Kept(s, K)[k] = s[m[k]]
    BY <1>3
  <1>8. \A i \in K : \E k \in 1..n : Kept(s, K)[k] = s[i]
    BY <1>6, <1>7
  <1>9. \A k \in 1..n : \E i \in K : Kept(s, K)[k] = s[i]
    BY <1>4, <1>7
  <1>10. Kept(s, K) \in Seq(T)
    BY <1>3, <1>5
  <1> QED
    BY <1>7, <1>8, <1>9, <1>10

Distinct(s) == \A i, j \in DOMAIN s : s[i].id = s[j].id => i = j

LEMMA KeptDistinct ==
  ASSUME NEW T, NEW s \in Seq(T), NEW K \in SUBSET DOMAIN s, Distinct(s)
  PROVE  Distinct(Kept(s, K))
  <1>1. Positions(K)
    BY PositionsOf
  <1>2. PICK n \in Nat : \E m \in [1..n -> K] : Rising(m, n, K)
    BY <1>1, RisingExists
  <1>3. PICK m \in [1..n -> K] : Rising(m, n, K) /\ Kept(s, K) = [k \in 1..n |-> s[m[k]]]
    BY <1>2, <1>1, KeptIs
  <1> SUFFICES ASSUME NEW i \in 1..n, NEW j \in 1..n, s[m[i]].id = s[m[j]].id PROVE i = j
    BY <1>3 DEF Distinct
  <1>4. m[i] = m[j] /\ m[i] \in Nat
    BY <1>1 DEF Distinct, Positions
  <1> QED
    BY <1>3, <1>4 DEF Rising

LEMMA KeptAll ==
  ASSUME NEW T, NEW s \in Seq(T)
  PROVE  Kept(s, DOMAIN s) = s
  <1>1. Positions(DOMAIN s) /\ DOMAIN s = 1..Len(s) /\ Len(s) \in Nat
    BY PositionsOf
  <1> DEFINE m == [k \in 1..Len(s) |-> k]
  <1>2. Rising(m, Len(s), DOMAIN s)
    BY <1>1 DEF Rising
  <1>m. \A k \in 1..Len(s) : m[k] = k
    OBVIOUS
  <1> HIDE DEF m
  <1>3. Kept(s, DOMAIN s) = [k \in 1..Len(s) |-> s[m[k]]]
    BY <1>1, <1>2, KeptIs
  <1> QED
    BY <1>3, <1>m

\* M are the positions of K where s does not have p.
ButFor(p, s, K, M) == M \in SUBSET K /\ \A i \in K : i \in M <=> s[i].id # p

\* To leave out p of what is left is to leave it out at once.
LEMMA KeptTwice ==
  ASSUME NEW T, NEW s \in Seq(T), NEW K \in SUBSET DOMAIN s, NEW a, a = Kept(s, K),
         NEW p, NEW J, ButFor(p, a, DOMAIN a, J), NEW M, ButFor(p, s, K, M)
  PROVE  Kept(a, J) = Kept(s, M)
  <1>0. /\ J \in SUBSET DOMAIN a /\ \A j \in DOMAIN a : j \in J <=> a[j].id # p
        /\ M \in SUBSET K /\ \A i \in K : i \in M <=> s[i].id # p
    BY DEF ButFor
  <1>1. Positions(K) /\ Positions(M)
    BY <1>0, PositionsOf
  <1>2. PICK n \in Nat : \E m \in [1..n -> K] : Rising(m, n, K)
    BY <1>1, RisingExists
  <1>3. PICK m \in [1..n -> K] : Rising(m, n, K) /\ a = [k \in 1..n |-> s[m[k]]]
    <2>1. PICK m \in [1..n -> K] : Rising(m, n, K)
      BY <1>2
    <2>2. Kept(s, K) = [k \in 1..n |-> s[m[k]]]
      BY <2>1, <1>1, KeptIs
    <2> QED
      BY <2>1, <2>2
  <1>4. a \in Seq(T)
    BY KeptSeq
  <1>5. Positions(J)
    BY <1>0, <1>4, PositionsOf
  <1>6. PICK l \in Nat : \E d \in [1..l -> J] : Rising(d, l, J)
    BY <1>5, RisingExists
  <1>7. PICK d \in [1..l -> J] : Rising(d, l, J) /\ Kept(a, J) = [k \in 1..l |-> a[d[k]]]
    BY <1>6, <1>5, KeptIs
  <1>8. \A k \in 1..l : d[k] \in 1..n /\ m[d[k]] \in K /\ a[d[k]] = s[m[d[k]]] /\ a[d[k]].id # p
    <2>1. \A k \in 1..l : d[k] \in J
      OBVIOUS
    <2> QED
      BY <1>0, <1>3, <2>1
  <1> DEFINE e == [k \in 1..l |-> m[d[k]]]
  <1>9. e \in [1..l -> M]
    <2>1. \A k \in 1..l : m[d[k]] \in M
      BY <1>0, <1>8
    <2> QED
      BY <2>1
  <1>10. \A i \in M : \E k \in 1..l : e[k] = i
    <2> SUFFICES ASSUME NEW i \in M PROVE \E k \in 1..l : e[k] = i
      OBVIOUS
    <2>1. i \in K /\ s[i].id # p
      BY <1>0
    <2>2. PICK k \in 1..n : m[k] = i
      BY <1>3, <2>1 DEF Rising
    <2>3. k \in J
      BY <1>0, <1>3, <2>1, <2>2
    <2>4. PICK b \in 1..l : d[b] = k
      BY <1>7, <2>3 DEF Rising
    <2> QED
      BY <2>2, <2>4
  <1>11. \A b, c \in 1..l : b < c => e[b] < e[c]
    BY <1>3, <1>7, <1>8 DEF Rising
  <1>12. Rising(e, l, M)
    BY <1>9, <1>10, <1>11 DEF Rising
  <1>13. \A k \in 1..l : a[d[k]] = s[e[k]]
    BY <1>8
  <1> HIDE DEF e
  <1>14. Kept(s, M) = [k \in 1..l |-> s[e[k]]]
    BY <1>1, <1>12, KeptIs
  <1> QED
    BY <1>7, <1>13, <1>14

LEMMA JoinIs ==
  ASSUME NEW T, NEW a \in Seq(T), NEW b \in Seq(T), NEW c \in Seq(T), Len(c) = Len(a) + Len(b),
         \A i \in 1..Len(a) : c[i] = a[i], \A i \in 1..Len(b) : c[Len(a) + i] = b[i]
  PROVE  a \o b = c
  <1>1. Len(a) \in Nat /\ Len(b) \in Nat /\ a \o b \in Seq(T) /\ Len(a \o b) = Len(c)
    OBVIOUS
  <1>2. ASSUME NEW i \in 1..Len(c) PROVE (a \o b)[i] = c[i]
    <2>1. CASE i <= Len(a)
      BY <2>1, <1>1
    <2>2. CASE Len(a) < i
      <3>1. i - Len(a) \in 1..Len(b) /\ i = Len(a) + (i - Len(a))
        BY <2>2, <1>1
      <3>2. c[i] = b[i - Len(a)]
        BY <3>1
      <3> QED
        BY <2>2, <3>2, <1>1
    <2> QED
      BY <2>1, <2>2, <1>1
  <1> QED
    BY <1>1, <1>2

\* s is a and then b; M are the positions K of a and all those of b.
Joined(a, b, s) ==
    /\ Len(s) = Len(a) + Len(b)
    /\ \A i \in 1..Len(a) : s[i] = a[i]
    /\ \A i \in 1..Len(b) : s[Len(a) + i] = b[i]
AndOn(a, K, s, M) ==
    /\ K \in SUBSET DOMAIN a /\ M \in SUBSET DOMAIN s
    /\ \A i \in DOMAIN s : i \in M <=> i \in K \/ Len(a) < i

\* To append to what is left is to keep all of what is appended.
LEMMA KeptJoin ==
  ASSUME NEW T, NEW a \in Seq(T), NEW b \in Seq(T), NEW s \in Seq(T), Joined(a, b, s),
         NEW K, NEW M, AndOn(a, K, s, M)
  PROVE  Kept(a, K) \o b = Kept(s, M)
  <1> USE DEF Joined, AndOn
  <1>0. /\ Len(a) \in Nat /\ Len(b) \in Nat /\ DOMAIN a = 1..Len(a)
        /\ DOMAIN s = 1..(Len(a) + Len(b)) /\ DOMAIN b = 1..Len(b)
        /\ \A i \in 1..Len(a) : s[i] = a[i]
        /\ \A i \in 1..Len(b) : s[Len(a) + i] = b[i]
    OBVIOUS
  <1>1. Positions(K) /\ Positions(M)
    BY <1>0, PositionsOf
  <1>2. PICK n \in Nat : \E m \in [1..n -> K] : Rising(m, n, K)
    BY <1>1, RisingExists
  <1>3. PICK m \in [1..n -> K] : Rising(m, n, K) /\ Kept(a, K) = [k \in 1..n |-> a[m[k]]]
    BY <1>2, <1>1, KeptIs
  <1> DEFINE l == n + Len(b)
             e == [k \in 1..l |-> IF k <= n THEN m[k] ELSE Len(a) + (k - n)]
  <1>4. \A k \in 1..n : m[k] \in K /\ m[k] \in 1..Len(a) /\ m[k] \in M
    <2>1. \A i \in K : i \in 1..Len(a) /\ i \in DOMAIN s
      BY <1>0
    <2> QED
      BY <2>1
  <1>5. \A i \in (Len(a) + 1)..(Len(a) + Len(b)) : i \in M
    <2>1. \A i \in (Len(a) + 1)..(Len(a) + Len(b)) : i \in DOMAIN s /\ Len(a) < i
      BY <1>0
    <2> QED
      BY <2>1
  <1>6. e \in [1..l -> M]
    <2> SUFFICES ASSUME NEW k \in 1..l PROVE e[k] \in M
      OBVIOUS
    <2>1. CASE k <= n
      BY <2>1, <1>4
    <2>2. CASE n < k
      <3>1. e[k] = Len(a) + (k - n) /\ e[k] \in (Len(a) + 1)..(Len(a) + Len(b))
        BY <2>2, <1>0
      <3> QED
        BY <3>1, <1>5
    <2> QED
      BY <2>1, <2>2
  <1>7. \A i \in M : \E k \in 1..l : e[k] = i
    <2> SUFFICES ASSUME NEW i \in M PROVE \E k \in 1..l : e[k] = i
      OBVIOUS
    <2>1. i \in 1..(Len(a) + Len(b))
      BY <1>0
    <2>2. CASE i \in K
      <3>1. PICK k \in 1..n : m[k] = i
        BY <1>3, <2>2 DEF Rising
      <3>2. k \in 1..l /\ e[k] = m[k]
        BY <1>0
      <3> QED
        BY <3>1, <3>2
    <2>3. CASE Len(a) < i
      <3>1. n + (i - Len(a)) \in 1..l /\ ~(n + (i - Len(a)) <= n)
        BY <1>0, <2>1, <2>3
      <3>2. e[n + (i - Len(a))] = i
        BY <1>0, <2>1, <3>1
      <3> QED
        BY <3>1, <3>2
    <2> QED
      BY <2>2, <2>3, <1>0
  <1>8. \A c, d \in 1..l : c < d => e[c] < e[d]
    <2> SUFFICES ASSUME NEW c \in 1..l, NEW d \in 1..l, c < d PROVE e[c] < e[d]
      OBVIOUS
    <2>1. CASE d <= n
      BY <2>1, <1>3 DEF Rising
    <2>2. CASE c <= n /\ n < d
      BY <2>2, <1>0, <1>4
    <2>3. CASE n < c
      BY <2>3, <1>0
    <2> QED
      BY <2>1, <2>2, <2>3
  <1>9. Rising(e, l, M)
    BY <1>6, <1>7, <1>8 DEF Rising
  <1> DEFINE c == [k \in 1..l |-> s[e[k]]]
  <1>10. Kept(a, K) \in Seq(T) /\ Len(Kept(a, K)) = n /\ \A k \in 1..n : Kept(a, K)[k] = a[m[k]]
    BY <1>3, KeptSeq
  <1>11. \A k \in 1..l : e[k] \in 1..(Len(a) + Len(b)) /\ s[e[k]] \in T
    <2>1. \A k \in 1..l : e[k] \in DOMAIN s
      BY <1>6
    <2> HIDE DEF e
    <2> QED
      BY <2>1, <1>0
  <1>12. \A k \in 1..n : e[k] = m[k] /\ k \in 1..l
    BY <1>0
  <1>13. \A k \in 1..Len(b) : e[n + k] = Len(a) + k /\ n + k \in 1..l
    BY <1>0
  <1>14. l \in Nat /\ l = n + Len(b)
    BY <1>0
  <1> HIDE DEF e, l
  <1>15. c \in Seq(T) /\ Len(c) = n + Len(b)
    BY <1>11, <1>14
  <1>16. \A k \in 1..n : c[k] = a[m[k]]
    BY <1>0, <1>4, <1>12
  <1>17. \A k \in 1..Len(b) : c[n + k] = b[k]
    BY <1>0, <1>13
  <1>18. Kept(s, M) = c
    BY <1>1, <1>9, <1>14, KeptIs
  <1> HIDE DEF c
  <1> DEFINE d == Kept(a, K)
  <1>19. d \in Seq(T) /\ Len(d) = n /\ Len(c) = Len(d) + Len(b)
    BY <1>10, <1>15
  <1>20. \A k \in 1..Len(d) : c[k] = d[k]
    BY <1>10, <1>16
  <1>21. \A k \in 1..Len(b) : c[Len(d) + k] = b[k]
    BY <1>17, <1>19
  <1> HIDE DEF d
  <1>22. d \o b = c
    BY <1>15, <1>19, <1>20, <1>21, JoinIs
  <1> QED
    BY <1>18, <1>22 DEF d

\* The next page goes on where the pages so far end.
LEMMA NextPage ==
  ASSUME NEW T, NEW s \in Seq(T), NEW l \in Nat, NEW h \in Nat, l <= h
  PROVE  SubSeq(s, 1, Lesser(l, Len(s))) \o SubSeq(s, l + 1, Lesser(h, Len(s)))
            = SubSeq(s, 1, Lesser(h, Len(s)))
  <1> DEFINE a == SubSeq(s, 1, Lesser(l, Len(s)))
             b == SubSeq(s, l + 1, Lesser(h, Len(s)))
             c == SubSeq(s, 1, Lesser(h, Len(s)))
  <1>1. Len(s) \in Nat /\ Lesser(l, Len(s)) \in 0..Len(s) /\ Lesser(h, Len(s)) \in 0..Len(s)
    BY DEF Lesser
  <1>2. a \in Seq(T) /\ Len(a) = Lesser(l, Len(s)) /\ \A i \in 1..Len(a) : a[i] = s[i]
    BY <1>1
  <1>3. c \in Seq(T) /\ Len(c) = Lesser(h, Len(s)) /\ \A i \in 1..Len(c) : c[i] = s[i]
    BY <1>1
  <1>4. /\ b \in Seq(T)
        /\ Len(b) = IF l + 1 <= Lesser(h, Len(s)) THEN Lesser(h, Len(s)) - l ELSE 0
        /\ \A i \in 1..Len(b) : b[i] = s[l + i]
    BY <1>1
  <1> HIDE DEF a, b, c
  <1>5. Len(c) = Len(a) + Len(b)
    <2>1. /\ Lesser(l, Len(s)) = IF l <= Len(s) THEN l ELSE Len(s)
          /\ Lesser(h, Len(s)) = IF h <= Len(s) THEN h ELSE Len(s)
      BY DEF Lesser
    <2>2. Len(b) = IF l + 1 <= Lesser(h, Len(s)) THEN Lesser(h, Len(s)) - l ELSE 0
      BY <1>4
    <2>3. Len(a) = Lesser(l, Len(s)) /\ Len(c) = Lesser(h, Len(s)) /\ Len(s) \in Nat
      BY <1>1, <1>2, <1>3
    <2>4. CASE l + 1 <= Lesser(h, Len(s))
      <3>1. l <= Len(s)
        BY <2>1, <2>3, <2>4
      <3> QED
        BY <3>1, <2>1, <2>2, <2>3, <2>4
    <2>5. CASE ~(l + 1 <= Lesser(h, Len(s)))
      <3>1. Lesser(h, Len(s)) = Lesser(l, Len(s))
        BY <2>1, <2>3, <2>5
      <3> QED
        BY <3>1, <2>2, <2>3, <2>5
    <2> QED
      BY <2>4, <2>5
  <1>6. \A i \in 1..Len(a) : c[i] = a[i]
    <2>1. Len(a) \in Nat /\ Len(c) \in Nat /\ Len(a) <= Len(c)
      BY <1>2, <1>3, <1>4, <1>5
    <2> QED
      BY <2>1, <1>2, <1>3
  <1>7. \A i \in 1..Len(b) : c[Len(a) + i] = b[i]
    <2> SUFFICES ASSUME NEW i \in 1..Len(b) PROVE c[Len(a) + i] = b[i]
      OBVIOUS
    <2>1. Len(b) \in Nat /\ Len(b) # 0 /\ Len(a) \in Nat /\ i \in Nat
      BY <1>2, <1>4
    <2>2. l + 1 <= Lesser(h, Len(s)) /\ Lesser(h, Len(s)) <= Len(s)
      BY <2>1, <1>1, <1>4
    <2>3. Len(a) = l
      BY <2>2, <1>1, <1>2 DEF Lesser
    <2>4. Len(a) + i \in 1..Len(c)
      BY <1>5, <2>1
    <2> QED
      BY <2>3, <2>4, <1>3, <1>4
  <1>8. a \o b = c
    BY <1>2, <1>3, <1>4, <1>5, <1>6, <1>7, JoinIs
  <1> QED
    BY <1>8 DEF a, b, c

LEMMA ItemsOf ==
  ASSUME NEW s \in Seq(Row)
  PROVE  AsItems(s) \in Seq(Item) /\ Len(AsItems(s)) = Len(s)
  <1>1. DOMAIN s = 1..Len(s) /\ Len(s) \in Nat /\ \A i \in 1..Len(s) : s[i] \in Row
    OBVIOUS
  <1>2. \A i \in 1..Len(s) : [id |-> s[i].id, status |-> s[i].status, said |-> s[i].status] \in Item
    BY <1>1 DEF Row, Item
  <1> QED
    BY <1>1, <1>2 DEF AsItems

LEMMA ItemsJoin ==
  ASSUME NEW a \in Seq(Row), NEW b \in Seq(Row)
  PROVE  AsItems(a) \o AsItems(b) = AsItems(a \o b)
  <1>1. /\ Len(a) \in Nat /\ Len(b) \in Nat /\ a \o b \in Seq(Row) /\ Len(a \o b) = Len(a) + Len(b)
        /\ \A i \in 1..Len(a) : (a \o b)[i] = a[i]
        /\ \A i \in 1..Len(b) : (a \o b)[Len(a) + i] = b[i]
    OBVIOUS
  <1>2. /\ AsItems(a) \in Seq(Item) /\ Len(AsItems(a)) = Len(a)
        /\ AsItems(b) \in Seq(Item) /\ Len(AsItems(b)) = Len(b)
    BY ItemsOf
  <1>3. AsItems(a \o b) \in Seq(Item) /\ Len(AsItems(a \o b)) = Len(a) + Len(b)
    BY <1>1, ItemsOf
  <1> DEFINE Of(r) == [id |-> r.id, status |-> r.status, said |-> r.status]
  <1>4. /\ \A i \in 1..Len(a) : AsItems(a)[i] = Of(a[i])
        /\ \A i \in 1..Len(b) : AsItems(b)[i] = Of(b[i])
        /\ \A i \in 1..(Len(a) + Len(b)) : AsItems(a \o b)[i] = Of((a \o b)[i])
    BY <1>1 DEF AsItems
  <1> HIDE DEF Of
  <1> DEFINE A == AsItems(a)
             B == AsItems(b)
             C == AsItems(a \o b)
  <1>5. \A i \in 1..Len(A) : C[i] = A[i]
    BY <1>1, <1>2, <1>4
  <1>6. \A i \in 1..Len(B) : C[Len(A) + i] = B[i]
    BY <1>1, <1>2, <1>4
  <1>7. A \in Seq(Item) /\ B \in Seq(Item) /\ C \in Seq(Item) /\ Len(C) = Len(A) + Len(B)
    BY <1>2, <1>3
  <1> HIDE DEF A, B, C
  <1>8. A \o B = C
    BY <1>5, <1>6, <1>7, JoinIs
  <1> QED
    BY <1>8 DEF A, B, C

-----------------------------------------------------------------------------
(* The tables, and the rows a list shows of them.                          *)

\* Rows, each of its own id.
Table(t) == t \in Seq(Row) /\ Distinct(t)

\* What is listed is a table again, of rows of the first one.
LEMMA VisibleTable ==
  ASSUME NEW t, Table(t)
  PROVE  /\ Table(Visible(t))
         /\ \A n \in DOMAIN Visible(t) : \E i \in DOMAIN t : Visible(t)[n] = t[i]
  <1> DEFINE P == {i \in Live(t) : t[i].status \in Undecided}
             A == {i \in Live(t) : t[i].status = "approved"}
             L == Live(t)
  <1>0. t \in Seq(Row) /\ Distinct(t)
    BY DEF Table
  <1>1. P \in SUBSET DOMAIN t /\ A \in SUBSET DOMAIN t /\ L \in SUBSET DOMAIN t
    BY DEF Live
  <1>2. ASSUME NEW K \in SUBSET DOMAIN t
        PROVE  /\ Kept(t, K) \in Seq(Row) /\ Distinct(Kept(t, K))
               /\ \A n \in DOMAIN Kept(t, K) : \E i \in K : Kept(t, K)[n] = t[i]
    BY <1>0, KeptSeq, KeptDistinct
  <1> DEFINE Fine(v) == Table(v) /\ \A n \in DOMAIN v : \E i \in DOMAIN t : v[n] = t[i]
  <1>4. Fine(Kept(t, P)) /\ Fine(Kept(t, A)) /\ Fine(Kept(t, L))
    <2> SUFFICES ASSUME NEW K \in SUBSET DOMAIN t PROVE Fine(Kept(t, K))
      BY <1>1
    <2>1. Table(Kept(t, K)) /\ \A n \in DOMAIN Kept(t, K) : \E i \in K : Kept(t, K)[n] = t[i]
      BY <1>2 DEF Table
    <2> QED
      BY <2>1
  <1>5. Fine([i \in 1..Len(Kept(t, L)) |-> Kept(t, L)[Len(Kept(t, L)) + 1 - i]])
    <2> DEFINE s == Kept(t, L)
               v == [i \in 1..Len(s) |-> s[Len(s) + 1 - i]]
    <2>1. s \in Seq(Row) /\ Distinct(s) /\ \A n \in DOMAIN s : \E i \in DOMAIN t : s[n] = t[i]
      BY <1>4 DEF Table
    <2> HIDE DEF s
    <2>2. Len(s) \in Nat /\ DOMAIN s = 1..Len(s) /\ \A i \in 1..Len(s) : Len(s) + 1 - i \in 1..Len(s)
      BY <2>1
    <2>3. v \in Seq(Row) /\ DOMAIN v = 1..Len(s)
      BY <2>1, <2>2
    <2>4. Distinct(v)
      <3> SUFFICES ASSUME NEW i \in 1..Len(s), NEW j \in 1..Len(s), v[i].id = v[j].id PROVE i = j
        BY <2>3 DEF Distinct
      <3>1. Len(s) + 1 - i = Len(s) + 1 - j
        BY <2>1, <2>2 DEF Distinct
      <3> QED
        BY <3>1, <2>2
    <2>5. \A n \in DOMAIN v : \E i \in DOMAIN t : v[n] = t[i]
      BY <2>1, <2>2
    <2> QED
      BY <2>3, <2>4, <2>5 DEF Table, s
  <1>6. kind = "pending" => Visible(t) = Kept(t, P)
    BY DEF Visible, Pending, OfOthers
  <1>7. kind # "pending" =>
           Visible(t) \in {Kept(t, A), Kept(t, L), [i \in 1..Len(Kept(t, L)) |-> Kept(t, L)[Len(Kept(t, L)) + 1 - i]]}
    BY DEF Visible, View, Listed, Author, Public, Users, Tiers
  <1> HIDE DEF P, A, L
  <1>8. Fine(Visible(t))
    BY <1>4, <1>5, <1>6, <1>7
  <1> QED
    BY <1>8

\* A page is made of rows that are listed; of an ordered list, it is the next one.
LEMMA PageRows ==
  ASSUME NEW t, Table(t), NEW s \in Orders(t), NEW n \in Nat, n # 0
  PROVE  /\ Page(s, n) \in Seq(Row)
         /\ \A k \in DOMAIN Page(s, n) : \E i \in DOMAIN Visible(t) : Page(s, n)[k] = Visible(t)[i]
         /\ Ordered => s = Visible(t)
  <1> DEFINE v == Visible(t)
  <1>1. v \in Seq(Row)
    BY VisibleTable DEF Table
  <1>2. Ordered => s = v
    BY DEF Orders
  <1>3. Len(v) \in Nat /\ DOMAIN v = 1..Len(v)
    BY <1>1
  <1>4. ~Ordered => s \in [1..Len(v) -> Range(v)]
    BY <1>3 DEF Orders, Surjection
  <1> HIDE DEF v
  <1>5. s \in Seq(Row) /\ \A k \in DOMAIN s : \E i \in DOMAIN v : s[k] = v[i]
    <2>1. Range(v) \in SUBSET Row /\ \A x \in Range(v) : \E i \in DOMAIN v : x = v[i]
      BY <1>1, <1>3 DEF Range
    <2> QED
      BY <1>1, <1>2, <1>3, <1>4, <2>1
  <1>6. Offset(n) \in Nat
    <2>1. n - 1 \in Nat /\ PageSize \in Nat
      BY PageAssumption
    <2> QED
      BY <2>1 DEF Offset
  <1> DEFINE h == Lesser(Offset(n) + PageSize, Len(s))
             p == SubSeq(s, Offset(n) + 1, h)
  <1>7. h \in 0..Len(s) /\ Len(s) \in Nat
    BY <1>5, <1>6, PageAssumption DEF Lesser
  <1>8. p \in Seq(Row) /\ \A k \in DOMAIN p : \E i \in DOMAIN s : p[k] = s[i]
    <2> HIDE DEF h
    <2>1. /\ p \in Seq(Row)
          /\ Len(p) = IF Offset(n) + 1 <= h THEN h - Offset(n) ELSE 0
          /\ \A k \in 1..Len(p) : p[k] = s[Offset(n) + k]
      BY <1>5, <1>6, <1>7
    <2> HIDE DEF p
    <2>2. \A k \in 1..Len(p) : Offset(n) + k \in 1..Len(s)
      BY <1>6, <1>7, <2>1
    <2> QED
      BY <2>1, <2>2, <1>5
  <1>9. p = Page(s, n)
    BY DEF Page
  <1> HIDE DEF p
  <1>10. \A k \in DOMAIN p : \E i \in DOMAIN v : p[k] = v[i]
    BY <1>5, <1>8
  <1> QED
    BY <1>2, <1>8, <1>9, <1>10 DEF v

-----------------------------------------------------------------------------
(* The invariant.                                                          *)

\* A list, shown or the base of a further page, is a snapshot if all it was
\* put together from was read after the same commit.
Shows(l, v) ==
    Ordered => LET asked == Asked(v, l.page) IN
               /\ l.items = Kept(asked, {i \in DOMAIN asked : asked[i].id \notin l.left})
               /\ \A p \in l.left : \E i \in DOMAIN asked : asked[i].id = p
ListOK(l) ==
    /\ l.vs \in SUBSET DOMAIN past
    /\ l.st # "loaded" => l = Blank(l.st)
    /\ l.st = "loaded" => l.vs # {}
    /\ \A v \in l.vs : l.vs = {v} => /\ Shows(l, v)
                                     /\ l.hasMore <=> l.page * PageSize < Len(Visible(past[v]))

HasRow(p)  == \E i \in DOMAIN table : table[i].id = p

Reading == {"count", "rows", "logs", "answer"}

\* What a call has read, of a page that follows its base.
PageOK(q) ==
    /\ q.vs \in SUBSET DOMAIN past
    /\ q.page = 0 => q.base.items = <<>> /\ q.rows = <<>>
    /\ q.pc \in Reading => q.page = q.base.page + 1 /\ q.base.st \in {"loading", "loaded"}
    /\ q.pc = "count" => q.vs = {}
    /\ q.pc \in Reading \ {"count"} => q.vs # {}
    /\ q.pc = "logs" => \A i \in DOMAIN q.rows : HasRow(q.rows[i].id)
ReadOK(q) ==
    q.pc \in Reading => \A v \in q.vs : q.vs = {v} =>
       /\ q.total = Len(Visible(past[v]))
       /\ q.pc \in {"logs", "answer"} /\ Ordered => q.rows = AsItems(Page(Visible(past[v]), q.page))

\* What a call changes.
ChangeOK(q) ==
    /\ q.pc \in {"change", "write", "changed"} => q.id \in Ids /\ q.page = 0
    /\ q.pc = "write" => HasRow(q.id)

\* What was seen off, and not listed since, is on no list or page.
Away(p)       == gone[p] # 0 /\ ~Returned(p)
Off(p, items) == \A i \in DOMAIN items : items[i].id # p
GoneOK(p) ==
    Away(p) =>
       /\ Off(p, list.items)
       /\ \A c \in Calls : Off(p, call[c].base.items) /\ Off(p, call[c].rows)

\* No two rows of a table have the same id, and none is ever dropped.
PastOK  == \A v \in DOMAIN past :
              Distinct(past[v]) /\ \A i \in DOMAIN past[v] : HasRow(past[v][i].id)
CallsOK == \A c \in Calls : ListOK(call[c].base) /\ PageOK(call[c]) /\ ReadOK(call[c]) /\ ChangeOK(call[c])
AllGone == \A p \in Ids : GoneOK(p)
IInv == TypeOK /\ PastOK /\ ListOK(list) /\ CallsOK /\ AllGone

-----------------------------------------------------------------------------
(* What was read stays so, whatever commits.                               *)

LEMMA KindStays ==
  ASSUME kind' = kind
  PROVE  (Ordered <=> Ordered') /\ \A t : Visible(t)' = Visible(t)
  BY DEF Ordered, Visible, View, Listed

\* Commits only add a table, which keeps the ids.
PastGrows ==
    /\ kind' = kind
    /\ \A v \in DOMAIN past : v \in DOMAIN past' /\ past'[v] = past[v]
    /\ \A p : HasRow(p) => HasRow(p)'

LEMMA AwayStays ==
  ASSUME PastGrows, gone' = gone, NEW p, Away(p)'
  PROVE  Away(p)
  <1>1. \A t : Visible(t)' = Visible(t)
    BY KindStays DEF PastGrows
  <1>2. \A v \in DOMAIN past : v \in DOMAIN past' /\ past'[v] = past[v]
    BY DEF PastGrows
  <1>3. Returned(p) => Returned(p)'
    <2> SUFFICES ASSUME Returned(p) PROVE Returned(p)'
      OBVIOUS
    <2>1. PICK v \in DOMAIN past : v >= gone[p] /\ \E r \in Range(Visible(past[v])) : r.id = p
      BY DEF Returned
    <2>2. Visible(past[v])' = Visible(past[v])
      BY <1>1, <1>2
    <2> QED
      BY <2>1, <2>2, <1>2 DEF Returned
  <1> QED
    BY <1>3 DEF Away

LEMMA ListStays ==
  ASSUME PastGrows, NEW l, ListOK(l)
  PROVE  ListOK(l)'
  <1>1. (Ordered <=> Ordered') /\ \A t : Visible(t)' = Visible(t)
    BY KindStays DEF PastGrows
  <1>2. \A v \in DOMAIN past : v \in DOMAIN past' /\ past'[v] = past[v]
    BY DEF PastGrows
  <1>3. \A v \in DOMAIN past : \A n : Asked(v, n)' = Asked(v, n)
    BY <1>1, <1>2 DEF Asked
  <1>4. ASSUME NEW v \in DOMAIN past, Shows(l, v) PROVE Shows(l, v)'
    BY <1>1, <1>3, <1>4 DEF Shows
  <1>5. l.vs \in SUBSET DOMAIN past'
    BY <1>2 DEF ListOK
  <1>6. ASSUME NEW v \in l.vs, l.vs = {v}
        PROVE  Shows(l, v)' /\ (l.hasMore <=> l.page * PageSize < Len(Visible(past[v])'))
    <2>1. v \in DOMAIN past /\ Shows(l, v) /\ (l.hasMore <=> l.page * PageSize < Len(Visible(past[v])))
      BY <1>6 DEF ListOK
    <2> QED
      BY <2>1, <1>1, <1>2, <1>4
  <1> QED
    BY <1>5, <1>6 DEF ListOK

LEMMA PageStays ==
  ASSUME PastGrows, NEW q, PageOK(q), ReadOK(q)
  PROVE  PageOK(q)' /\ ReadOK(q)'
  <1>1. (Ordered <=> Ordered') /\ \A t : Visible(t)' = Visible(t)
    BY KindStays DEF PastGrows
  <1>2. \A v \in DOMAIN past : v \in DOMAIN past' /\ past'[v] = past[v]
    BY DEF PastGrows
  <1>3. PageOK(q)'
    BY <1>2 DEF PageOK, PastGrows
  <1>4. ReadOK(q)'
    BY <1>1, <1>2 DEF PageOK, ReadOK
  <1> QED
    BY <1>3, <1>4

LEMMA CallStays ==
  ASSUME PastGrows, NEW q, PageOK(q), ReadOK(q), ChangeOK(q)
  PROVE  PageOK(q)' /\ ReadOK(q)' /\ ChangeOK(q)'
  <1>1. ChangeOK(q)'
    BY DEF ChangeOK, PastGrows
  <1> QED
    BY <1>1, PageStays

LEMMA NoCommit ==
  ASSUME UNCHANGED <<kind, past>>
  PROVE  PastGrows /\ (PastOK => PastOK')
  BY DEF PastGrows, PastOK, HasRow, table

LEMMA TheTable ==
  ASSUME TypeOK, PastOK
  PROVE  /\ \A v \in DOMAIN past : Table(past[v])
         /\ Len(past) \in DOMAIN past /\ DOMAIN past = 1..Len(past) /\ Len(past) \in Nat
         /\ Table(table)
  <1>1. past \in Seq(Seq(Row)) /\ past # <<>>
    BY DEF TypeOK
  <1>2. DOMAIN past = 1..Len(past) /\ Len(past) \in Nat /\ Len(past) # 0
    BY <1>1
  <1>3. \A v \in DOMAIN past : past[v] \in Seq(Row)
    BY <1>1
  <1> QED
    BY <1>2, <1>3 DEF PastOK, Table, table

LEMMA Commit ==
  ASSUME TypeOK, PastOK, kind' = kind, NEW t, Table(t), past' = Append(past, t),
         \A p : HasRow(p) => \E i \in DOMAIN t : t[i].id = p
  PROVE  PastGrows /\ PastOK' /\ past' \in Seq(Seq(Row)) /\ past' # <<>>
  <1>1. past \in Seq(Seq(Row)) /\ Len(past) \in Nat /\ DOMAIN past = 1..Len(past) /\ t \in Seq(Row)
    BY DEF TypeOK, Table
  <1>2. /\ past' \in Seq(Seq(Row)) /\ Len(past') = Len(past) + 1 /\ DOMAIN past' = 1..(Len(past) + 1)
        /\ past'[Len(past) + 1] = t /\ \A v \in 1..Len(past) : past'[v] = past[v]
    BY <1>1
  <1>3. table' = t /\ past' # <<>>
    BY <1>1, <1>2 DEF table
  <1>4. \A v \in DOMAIN past : v \in DOMAIN past' /\ past'[v] = past[v]
    BY <1>1, <1>2
  <1>5. \A p : HasRow(p) => HasRow(p)'
    BY <1>3 DEF HasRow
  <1>6. PastOK'
    <2> SUFFICES ASSUME NEW v \in DOMAIN past'
                 PROVE  /\ Distinct(past'[v])
                        /\ \A i \in DOMAIN past'[v] : \E j \in DOMAIN table' : table'[j].id = past'[v][i].id
      BY DEF PastOK, HasRow
    <2> v \in 1..(Len(past) + 1)
      BY <1>2
    <2>1. CASE v \in 1..Len(past)
      <3>1. past'[v] = past[v] /\ v \in DOMAIN past
        BY <2>1, <1>1, <1>2
      <3> QED
        BY <3>1, <1>2, <1>3 DEF PastOK
    <2>2. CASE v = Len(past) + 1
      BY <2>2, <1>2, <1>3 DEF Table
    <2> QED
      BY <2>1, <2>2, <1>1
  <1> QED
    BY <1>2, <1>3, <1>4, <1>5, <1>6 DEF PastGrows

\* A change of one row: the table keeps its ids.
LEMMA PutTable ==
  ASSUME Table(table), NEW p \in Ids, NEW s \in Statuses, NEW d \in BOOLEAN
  PROVE  /\ Table(Put(p, s, d)) /\ DOMAIN Put(p, s, d) = DOMAIN table
         /\ \A i \in DOMAIN table : Put(p, s, d)[i].id = table[i].id
  <1> DEFINE t == Put(p, s, d)
  <1>1. table \in Seq(Row) /\ Distinct(table) /\ DOMAIN table = 1..Len(table) /\ Len(table) \in Nat
    BY DEF Table
  <1>2. \A i \in DOMAIN table : t[i] = IF table[i].id = p THEN [id |-> p, status |-> s, deleted |-> d]
                                       ELSE table[i]
    BY DEF Put
  <1>3. DOMAIN t = DOMAIN table
    BY DEF Put
  <1>4. ASSUME NEW i \in DOMAIN table PROVE t[i] \in Row /\ t[i].id = table[i].id
    <2>1. table[i] \in Row
      BY <1>1
    <2> QED
      BY <1>2, <2>1 DEF Row
  <1>5. t = [i \in 1..Len(table) |-> t[i]]
    BY <1>1 DEF Put
  <1> HIDE DEF t
  <1>6. t \in Seq(Row)
    BY <1>1, <1>4, <1>5
  <1>8. Distinct(t)
    BY <1>1, <1>3, <1>4 DEF Distinct
  <1> QED
    BY <1>3, <1>4, <1>6, <1>8 DEF t, Table

-----------------------------------------------------------------------------
(* The steps of the server.                                                *)

\* The table is the last of its past, and a commit may be its successor.
LEMMA GoneType ==
  ASSUME TypeOK, PastGrows, past' \in Seq(Seq(Row)), gone' = gone
  PROVE  gone' \in [Ids -> 0..Len(past')]
  <1>1. past \in Seq(Seq(Row)) /\ past # <<>> /\ gone \in [Ids -> 0..Len(past)]
    BY DEF TypeOK
  <1>2. Len(past) \in DOMAIN past /\ Len(past) \in Nat
    BY <1>1
  <1>3. Len(past) \in DOMAIN past'
    BY <1>2 DEF PastGrows
  <1>4. Len(past') \in Nat /\ Len(past) <= Len(past')
    BY <1>3
  <1> QED
    BY <1>1, <1>2, <1>4

\* A step of call c, which becomes q, and of the list.
LEMMA StepOfOne ==
  ASSUME IInv, PastGrows, PastOK', past' \in Seq(Seq(Row)), past' # <<>>, gone' = gone,
         made' \in 0..MaxCalls, NEW c \in Calls, NEW q \in Call, call' = [call EXCEPT ![c] = q],
         list' \in List, ListOK(list)', ListOK(q.base)', PageOK(q)', ReadOK(q)', ChangeOK(q)',
         \A p \in Ids : Away(p) =>
            Off(p, list'.items) /\ Off(p, q.base.items) /\ Off(p, q.rows)
  PROVE  IInv'
  <1>1. TypeOK /\ call' \in [Calls -> Call] /\ call'[c] = q /\ \A d \in Calls \ {c} : call'[d] = call[d]
    BY DEF IInv, TypeOK
  <1>2. TypeOK'
    BY <1>1, GoneType DEF TypeOK, PastGrows
  <1>3. CallsOK'
    <2> SUFFICES ASSUME NEW d \in Calls
                 PROVE ListOK(call[d].base)' /\ PageOK(call[d])' /\ ReadOK(call[d])' /\ ChangeOK(call[d])'
      BY DEF CallsOK
    <2>1. CASE d = c
      BY <2>1, <1>1
    <2>2. CASE d # c
      <3>1. ListOK(call[d].base) /\ PageOK(call[d]) /\ ReadOK(call[d]) /\ ChangeOK(call[d])
        BY DEF IInv, CallsOK
      <3> QED
        BY <3>1, <2>2, <1>1, ListStays, CallStays
    <2> QED
      BY <2>1, <2>2
  <1>4. AllGone'
    <2> SUFFICES ASSUME NEW p \in Ids, Away(p)' PROVE GoneOK(p)'
      BY DEF AllGone, GoneOK
    <2>1. Away(p)
      BY AwayStays
    <2>2. /\ Off(p, list'.items) /\ Off(p, q.base.items) /\ Off(p, q.rows)
          /\ \A d \in Calls : Off(p, call[d].base.items) /\ Off(p, call[d].rows)
      BY <2>1 DEF IInv, AllGone, GoneOK
    <2>3. \A d \in Calls : Off(p, call'[d].base.items) /\ Off(p, call'[d].rows)
      BY <2>2, <1>1
    <2> QED
      BY <2>2, <2>3 DEF GoneOK
  <1> QED
    BY <1>2, <1>3, <1>4 DEF IInv

\* What the invariant says of one call, and of the posts that are gone.
LEMMA OneCall ==
  ASSUME IInv, NEW c \in Calls
  PROVE  /\ TypeOK /\ PastOK /\ ListOK(list) /\ list \in List /\ made \in 0..MaxCalls
         /\ past \in Seq(Seq(Row)) /\ past # <<>>
         /\ call[c] \in Call /\ call[c].base \in List
         /\ ListOK(call[c].base) /\ PageOK(call[c]) /\ ReadOK(call[c]) /\ ChangeOK(call[c])
         /\ \A p \in Ids : Away(p) =>
               Off(p, list.items) /\ Off(p, call[c].base.items) /\ Off(p, call[c].rows)
  BY DEF IInv, TypeOK, CallsOK, AllGone, GoneOK, Call

\* A step that commits nothing.
LEMMA StepOfCall ==
  ASSUME IInv, NEW c \in Calls, UNCHANGED <<kind, past, gone>>, made' \in 0..MaxCalls,
         NEW q \in Call, call' = [call EXCEPT ![c] = q],
         ListOK(q.base), PageOK(q), ReadOK(q), ChangeOK(q),
         NEW l \in List, list' = l, ListOK(l),
         \A p \in Ids : Away(p) => Off(p, l.items) /\ Off(p, q.base.items) /\ Off(p, q.rows)
  PROVE  IInv'
  <1>1. TypeOK /\ PastOK /\ past \in Seq(Seq(Row)) /\ past # <<>>
    BY OneCall
  <1>2. PastGrows /\ PastOK'
    BY <1>1, NoCommit
  <1>3. ListOK(l)' /\ ListOK(q.base)' /\ PageOK(q)' /\ ReadOK(q)' /\ ChangeOK(q)'
    BY <1>2, ListStays, CallStays
  <1> QED
    BY <1>1, <1>2, <1>3, StepOfOne

\* A statement of call c.
LEMMA StepOfRead ==
  ASSUME IInv, NEW c \in Calls, UNCHANGED <<kind, past, list, made, gone>>, NEW q \in Call,
         call' = [call EXCEPT ![c] = q], q.base = call[c].base, q.to = call[c].to, q.pc \in Reading,
         q.page = call[c].page, call[c].pc \in Reading,
         PageOK(q), ReadOK(q), \A p \in Ids : Away(p) => Off(p, q.rows)
  PROVE  IInv'
  <1>1. /\ TypeOK /\ PastOK /\ ListOK(list) /\ list \in List /\ made \in 0..MaxCalls
        /\ past \in Seq(Seq(Row)) /\ past # <<>>
        /\ ListOK(call[c].base) /\ ChangeOK(call[c])
        /\ \A p \in Ids : Away(p) => Off(p, list.items) /\ Off(p, call[c].base.items)
    BY OneCall
  <1>2. PastGrows /\ PastOK'
    BY <1>1, NoCommit
  <1>3. ChangeOK(q)
    BY <1>1 DEF ChangeOK, Reading
  <1>4. ListOK(list)' /\ ListOK(q.base)' /\ PageOK(q)' /\ ReadOK(q)' /\ ChangeOK(q)'
    BY <1>1, <1>2, <1>3, ListStays, CallStays
  <1> QED
    BY <1>1, <1>2, <1>4, StepOfOne

LEMMA CountStep ==
  ASSUME IInv, NEW c \in Calls, Count(c)
  PROVE  IInv'
  <1> DEFINE n == Len(Visible(table))
             o == call[c]
             q == [[o EXCEPT !.total = n, !.pc = "rows"] EXCEPT !.vs = @ \cup {Len(past)}]
  <1>1. TypeOK /\ PastOK /\ o \in Call /\ PageOK(o) /\ ReadOK(o)
        /\ \A p \in Ids : Away(p) => Off(p, o.rows)
    BY OneCall
  <1>2. o.pc = "count" /\ call' = [call EXCEPT ![c] = q] /\ UNCHANGED <<kind, past, list, made, gone>>
    BY DEF Count, Read, At
  <1>3. Len(past) \in DOMAIN past /\ Len(past) \in Nat /\ table = past[Len(past)]
    BY <1>1, TheTable DEF table
  <1>4. n \in Nat
    <2>1. Visible(table) \in Seq(Row)
      BY <1>1, TheTable, VisibleTable DEF Table
    <2> QED
      BY <2>1
  <1> HIDE DEF n
  <1>5. /\ q.pc = "rows" /\ q.page = o.page /\ q.base = o.base /\ q.total = n /\ q.rows = o.rows
        /\ q.vs = o.vs \cup {Len(past)} /\ q.id = o.id /\ q.to = o.to
    BY <1>1 DEF Call
  <1>6. q \in Call
    BY <1>1, <1>3, <1>4 DEF Call
  <1> HIDE DEF q
  <1>7. o.vs = {}
    BY <1>1, <1>2 DEF PageOK
  <1>8. PageOK(q)
    BY <1>1, <1>2, <1>3, <1>5 DEF PageOK, Reading
  <1>9. ReadOK(q)
    BY <1>3, <1>5, <1>7 DEF ReadOK, n
  <1> QED
    BY <1>1, <1>2, <1>5, <1>6, <1>8, <1>9, StepOfRead DEF Reading

LEMMA OneCommit ==
  ASSUME NEW S, S # {}, NEW n, NEW v, S \cup {n} = {v}
  PROVE  v = n /\ S = {v}
  <1>1. n \in {v} /\ \A x \in S : x \in {v}
    OBVIOUS
  <1>2. PICK x \in S : TRUE
    OBVIOUS
  <1> QED
    BY <1>1, <1>2

LEMMA RowsStep ==
  ASSUME IInv, NEW c \in Calls, Rows(c)
  PROVE  IInv'
  <1> DEFINE o == call[c]
  <1>1. /\ TypeOK /\ PastOK /\ o \in Call /\ PageOK(o) /\ ReadOK(o)
        /\ o.base \in List
        /\ gone \in [Ids -> 0..Len(past)]
    BY OneCall DEF TypeOK
  <1>2. o.pc = "rows" /\ UNCHANGED <<kind, past, list, made, gone>>
    BY DEF Rows, Read, At
  <1>3. PICK s \in Orders(table) :
           call' = [call EXCEPT ![c] =
              [[o EXCEPT !.rows = AsItems(Page(s, o.page)),
                         !.pc = IF kind = "pending" /\ Page(s, o.page) # <<>> THEN "logs" ELSE "answer"]
                 EXCEPT !.vs = @ \cup {Len(past)}]]
    BY DEF Rows, Read
  <1>4. Len(past) \in DOMAIN past /\ Len(past) \in Nat /\ table = past[Len(past)] /\ Table(table)
    BY <1>1, TheTable DEF table
  <1>5. o.page \in Nat /\ o.page # 0 /\ o.vs # {} /\ o.vs \in SUBSET DOMAIN past
        /\ o.page = o.base.page + 1 /\ o.base.st \in {"loading", "loaded"}
    <2>1. o.base.page \in Nat
      BY <1>1 DEF List
    <2> QED
      BY <1>1, <1>2, <2>1 DEF PageOK, Reading
  <1> DEFINE page == Page(s, o.page)
             rows == AsItems(page)
             pc   == IF kind = "pending" /\ page # <<>> THEN "logs" ELSE "answer"
             q    == [[o EXCEPT !.rows = rows, !.pc = pc] EXCEPT !.vs = @ \cup {Len(past)}]
  <1>6. /\ page \in Seq(Row) /\ (Ordered => s = Visible(table))
        /\ \A k \in DOMAIN page : \E i \in DOMAIN Visible(table) : page[k] = Visible(table)[i]
    BY <1>4, <1>5, PageRows
  <1>7. rows \in Seq(Item) /\ DOMAIN rows = DOMAIN page /\ \A k \in DOMAIN rows : rows[k].id = page[k].id
    BY <1>6, ItemsOf DEF AsItems
  <1>8. Ordered => rows = AsItems(Page(Visible(table), o.page))
    BY <1>6
  <1>p. pc \in {"logs", "answer"}
    OBVIOUS
  <1>c. call' = [call EXCEPT ![c] = q]
    BY <1>3
  <1> HIDE DEF page, rows, pc
  <1>9. /\ q.pc = pc /\ q.page = o.page /\ q.base = o.base /\ q.total = o.total /\ q.rows = rows
        /\ q.vs = o.vs \cup {Len(past)} /\ q.id = o.id /\ q.to = o.to
    BY <1>1 DEF Call
  <1>10. q \in Call
    BY <1>1, <1>4, <1>7, <1>p DEF Call
  <1> HIDE DEF q
  <1>11. ASSUME NEW k \in DOMAIN rows
         PROVE  HasRow(rows[k].id) /\ \E r \in Range(Visible(table)) : r.id = rows[k].id
    <2>1. PICK n \in DOMAIN Visible(table) : page[k] = Visible(table)[n]
      BY <1>6, <1>7
    <2>2. PICK i \in DOMAIN table : Visible(table)[n] = table[i]
      BY <1>4, VisibleTable
    <2>3. rows[k].id = table[i].id
      BY <1>7, <2>1, <2>2
    <2>4. rows[k].id = Visible(table)[n].id
      BY <1>7, <2>1
    <2> QED
      BY <2>3, <2>4 DEF HasRow, Range
  <1>12. PageOK(q)
    BY <1>4, <1>5, <1>9, <1>11, <1>p DEF PageOK, Reading
  <1>13. ReadOK(q)
    <2> SUFFICES ASSUME NEW v \in q.vs, q.vs = {v}
                 PROVE  q.total = Len(Visible(past[v])) /\ (Ordered => q.rows = AsItems(Page(Visible(past[v]), q.page)))
      BY DEF ReadOK
    <2>1. v = Len(past) /\ o.vs = {v}
      <3>1. o.vs # {}
        BY <1>5
      <3>2. o.vs \cup {Len(past)} = {v}
        BY <1>9
      <3> QED
        BY <3>1, <3>2, OneCommit
    <2>2. q.total = Len(Visible(past[v]))
      BY <2>1, <1>1, <1>2, <1>9 DEF ReadOK, Reading
    <2> QED
      BY <2>1, <2>2, <1>4, <1>8, <1>9
  <1>14. ASSUME NEW p \in Ids, Away(p) PROVE Off(p, q.rows)
    <2>1. Len(past) >= gone[p]
      BY <1>1, <1>4
    <2>2. \A r \in Range(Visible(table)) : r.id # p
      BY <2>1, <1>4, <1>14 DEF Away, Returned
    <2> QED
      BY <2>2, <1>9, <1>11 DEF Off
  <1> QED
    BY <1>2, <1>c, <1>9, <1>10, <1>12, <1>13, <1>14, <1>p, StepOfRead DEF Reading

\* The row of a post that was listed is there still.
LEMMA RowIsThere ==
  ASSUME Table(table), NEW p, HasRow(p)
  PROVE  /\ RowOf(p) \in Row
         /\ \A i \in DOMAIN table : table[i].id = p => RowOf(p) = table[i]
  <1>1. PICK i \in DOMAIN table : table[i].id = p
    BY DEF HasRow
  <1>2. table[i] \in Range(table)
    BY DEF Range
  <1>3. \A r \in Range(table) : r.id = p => r = table[i]
    BY <1>1 DEF Range, Table, Distinct
  <1>4. RowOf(p) = table[i]
    BY <1>1, <1>2, <1>3 DEF RowOf
  <1>5. table[i] \in Row
    BY DEF Table
  <1> QED
    BY <1>1, <1>4, <1>5 DEF Table, Distinct

LEMMA SaidAs ==
  ASSUME NEW e \in Item, NEW st \in Statuses
  PROVE  /\ [e EXCEPT !.said = st] \in Item /\ [e EXCEPT !.said = st].id = e.id
         /\ st = e.said => [e EXCEPT !.said = st] = e
  BY DEF Item

LEMMA LogsStep ==
  ASSUME IInv, NEW c \in Calls, Logs(c)
  PROVE  IInv'
  <1> DEFINE o == call[c]
  <1>1. /\ TypeOK /\ PastOK /\ o \in Call /\ PageOK(o) /\ ReadOK(o)
        /\ \A p \in Ids : Away(p) => Off(p, o.rows)
    BY OneCall
  <1>2. o.pc = "logs" /\ UNCHANGED <<kind, past, list, made, gone>>
    BY DEF Logs, Read, At
  <1>4. Len(past) \in DOMAIN past /\ Len(past) \in Nat /\ table = past[Len(past)] /\ Table(table)
    BY <1>1, TheTable DEF table
  <1> DEFINE rows == [i \in DOMAIN o.rows |-> [o.rows[i] EXCEPT !.said = RowOf(o.rows[i].id).status]]
             q    == [[o EXCEPT !.rows = rows, !.pc = "answer"] EXCEPT !.vs = @ \cup {Len(past)}]
  <1>c. call' = [call EXCEPT ![c] = q]
    BY DEF Logs, Read
  <1>5. /\ o.rows \in Seq(Item) /\ DOMAIN o.rows = 1..Len(o.rows) /\ Len(o.rows) \in Nat
        /\ \A i \in DOMAIN o.rows : o.rows[i] \in Item /\ HasRow(o.rows[i].id)
    BY <1>1, <1>2 DEF Call, PageOK
  <1>6. \A i \in DOMAIN o.rows : RowOf(o.rows[i].id) \in Row
    BY <1>4, <1>5, RowIsThere
  <1>7. ASSUME NEW i \in DOMAIN o.rows
        PROVE  rows[i] \in Item /\ rows[i].id = o.rows[i].id
               /\ (RowOf(o.rows[i].id).status = o.rows[i].said => rows[i] = o.rows[i])
    <2>1. PICK e : e = o.rows[i]
      OBVIOUS
    <2>2. PICK st : st = RowOf(o.rows[i].id).status
      OBVIOUS
    <2>3. e \in Item /\ st \in Statuses
      BY <2>1, <2>2, <1>5, <1>6 DEF Row
    <2>4. rows[i] = [e EXCEPT !.said = st]
      BY <2>1, <2>2
    <2>5. /\ [e EXCEPT !.said = st] \in Item /\ [e EXCEPT !.said = st].id = e.id
          /\ st = e.said => [e EXCEPT !.said = st] = e
      BY <2>3, SaidAs
    <2> HIDE DEF rows
    <2> QED
      BY <2>1, <2>2, <2>4, <2>5
  <1>8. DOMAIN rows = DOMAIN o.rows /\ rows = [i \in 1..Len(o.rows) |-> rows[i]]
    BY <1>5
  <1> HIDE DEF rows
  <1>r. rows \in Seq(Item)
    <2>1. \A i \in 1..Len(o.rows) : rows[i] \in Item
      BY <1>5, <1>7
    <2>2. rows \in [1..Len(o.rows) -> Item]
      BY <2>1, <1>8
    <2> QED
      BY <2>2, <1>5
  <1>9. /\ q.pc = "answer" /\ q.page = o.page /\ q.base = o.base /\ q.total = o.total /\ q.rows = rows
        /\ q.vs = o.vs \cup {Len(past)} /\ q.id = o.id /\ q.to = o.to
    BY <1>1 DEF Call
  <1>10. q \in Call
    BY <1>1, <1>4, <1>r DEF Call
  <1> HIDE DEF q
  <1>11. /\ o.vs # {} /\ o.vs \in SUBSET DOMAIN past /\ o.page \in Nat /\ o.page # 0
         /\ o.page = o.base.page + 1 /\ o.base.st \in {"loading", "loaded"}
    <2>1. o.base.page \in Nat
      BY <1>1 DEF Call, List
    <2> QED
      BY <1>1, <1>2, <2>1 DEF PageOK, Reading
  <1>12. PageOK(q)
    BY <1>4, <1>9, <1>11 DEF PageOK, Reading
  <1>13. ReadOK(q)
    <2> SUFFICES ASSUME NEW v \in q.vs, q.vs = {v}
                 PROVE  q.total = Len(Visible(past[v])) /\ (Ordered => q.rows = AsItems(Page(Visible(past[v]), q.page)))
      BY DEF ReadOK
    <2>1. v = Len(past) /\ o.vs = {v}
      BY <1>9, <1>11, OneCommit
    <2>2. q.total = Len(Visible(table)) /\ (Ordered => o.rows = AsItems(Page(Visible(table), o.page)))
      BY <2>1, <1>1, <1>2, <1>4, <1>9 DEF ReadOK, Reading
    <2>3. ASSUME Ordered PROVE rows = o.rows
      <3> DEFINE page == Page(Visible(table), o.page)
      <3>1. Visible(table) \in Orders(table)
        BY <2>3 DEF Orders
      <3>2. \A k \in DOMAIN page : \E i \in DOMAIN Visible(table) : page[k] = Visible(table)[i]
        BY <3>1, <1>4, <1>11, PageRows
      <3>3. DOMAIN o.rows = DOMAIN page
            /\ \A k \in DOMAIN page : o.rows[k].id = page[k].id /\ o.rows[k].said = page[k].status
        BY <2>2, <2>3 DEF AsItems
      <3> HIDE DEF page
      <3>4. ASSUME NEW k \in DOMAIN o.rows PROVE rows[k] = o.rows[k]
        <4>1. PICK n \in DOMAIN Visible(table) : page[k] = Visible(table)[n]
          BY <3>2, <3>3
        <4>2. PICK i \in DOMAIN table : Visible(table)[n] = table[i]
          BY <1>4, VisibleTable
        <4>3. RowOf(o.rows[k].id) = table[i]
          BY <4>1, <4>2, <3>3, <1>4, <1>5, RowIsThere
        <4> QED
          BY <4>1, <4>2, <4>3, <3>3, <1>7
      <3>5. o.rows = [k \in 1..Len(o.rows) |-> o.rows[k]]
        BY <1>5
      <3> QED
        BY <3>4, <3>5, <1>5, <1>8
    <2> QED
      BY <2>1, <2>2, <2>3, <1>4, <1>9
  <1>14. ASSUME NEW p \in Ids, Away(p) PROVE Off(p, q.rows)
    <2>1. Off(p, o.rows)
      BY <1>1, <1>14
    <2>2. \A i \in DOMAIN rows : rows[i].id = o.rows[i].id
      BY <1>7, <1>8
    <2> QED
      BY <2>1, <2>2, <1>8, <1>9 DEF Off
  <1> QED
    BY <1>2, <1>c, <1>9, <1>10, <1>12, <1>13, <1>14, StepOfRead DEF Reading

\* The commit of a change to the row of p.
LEMMA PutCommit ==
  ASSUME TypeOK, PastOK, kind' = kind, NEW p \in Ids, NEW s \in Statuses, NEW d \in BOOLEAN,
         Commits(Put(p, s, d))
  PROVE  PastGrows /\ PastOK' /\ past' \in Seq(Seq(Row)) /\ past' # <<>>
  <1> DEFINE t == Put(p, s, d)
  <1>1. Table(table) /\ past \in Seq(Seq(Row))
    BY TheTable DEF TypeOK
  <1>2. Table(t) /\ DOMAIN t = DOMAIN table /\ \A i \in DOMAIN table : t[i].id = table[i].id
    BY <1>1, PutTable
  <1>3. past' = Append(past, t)
    BY DEF Commits
  <1> HIDE DEF t
  <1>4. \A e : HasRow(e) => \E i \in DOMAIN t : t[i].id = e
    BY <1>2 DEF HasRow
  <1> QED
    BY <1>2, <1>3, <1>4, Commit

\* The writes of the server, to a row that is there.
LEMMA WriteCommit ==
  ASSUME TypeOK, PastOK, kind' = kind, NEW p \in Ids, HasRow(p), NEW s \in Statuses,
         Erase(p) \/ Store(p, s)
  PROVE  PastGrows /\ PastOK' /\ past' \in Seq(Seq(Row)) /\ past' # <<>>
  <1>1. RowOf(p).status \in Statuses /\ RowOf(p).deleted \in BOOLEAN
    BY TheTable, RowIsThere DEF Row
  <1>2. CASE Erase(p)
    BY <1>1, <1>2, PutCommit DEF Erase
  <1>3. CASE Store(p, s)
    BY <1>1, <1>3, PutCommit DEF Store
  <1> QED
    BY <1>2, <1>3

\* The commit of a new row.
LEMMA NewCommit ==
  ASSUME TypeOK, PastOK, kind' = kind, NEW p \in Ids, ~HasRow(p),
         past' = Append(past, <<[id |-> p, status |-> New, deleted |-> FALSE]>> \o table)
  PROVE  PastGrows /\ PastOK' /\ past' \in Seq(Seq(Row)) /\ past' # <<>>
  <1> DEFINE r == [id |-> p, status |-> New, deleted |-> FALSE]
             t == <<r>> \o table
  <1>1. Table(table)
    BY TheTable
  <1>2. r \in Row /\ r.id = p
    BY DEF Row, New, Statuses
  <1> HIDE DEF r
  <1>3. table \in Seq(Row) /\ Distinct(table) /\ Len(table) \in Nat /\ DOMAIN table = 1..Len(table)
    BY <1>1 DEF Table
  <1>4. /\ t \in Seq(Row) /\ DOMAIN t = 1..(Len(table) + 1) /\ t[1] = r
        /\ \A i \in 1..Len(table) : t[i + 1] = table[i]
    BY <1>2, <1>3
  <1>6. past' = Append(past, t)
    BY DEF r
  <1> HIDE DEF t
  <1>5. \A i \in DOMAIN t : i # 1 => i - 1 \in DOMAIN table /\ t[i] = table[i - 1]
    <2> SUFFICES ASSUME NEW i \in DOMAIN t, i # 1 PROVE i - 1 \in DOMAIN table /\ t[i] = table[i - 1]
      OBVIOUS
    <2>1. i - 1 \in 1..Len(table) /\ i = (i - 1) + 1
      BY <1>3, <1>4
    <2> QED
      BY <2>1, <1>3, <1>4
  <1>7. \A i \in DOMAIN table : table[i].id # p
    BY DEF HasRow
  <1>8. Distinct(t)
    <2> SUFFICES ASSUME NEW i \in DOMAIN t, NEW j \in DOMAIN t, t[i].id = t[j].id PROVE i = j
      BY DEF Distinct
    <2>1. i = 1 <=> j = 1
      BY <1>2, <1>4, <1>5, <1>7
    <2>2. i # 1 => i - 1 = j - 1
      BY <2>1, <1>3, <1>5 DEF Distinct
    <2> QED
      BY <2>1, <2>2, <1>3, <1>4
  <1>9. \A i \in DOMAIN table : \E j \in DOMAIN t : t[j] = table[i]
    <2> SUFFICES ASSUME NEW i \in DOMAIN table PROVE i + 1 \in DOMAIN t /\ t[i + 1] = table[i]
      OBVIOUS
    <2> QED
      BY <1>3, <1>4
  <1>10. \A e : HasRow(e) => \E i \in DOMAIN t : t[i].id = e
    BY <1>9 DEF HasRow
  <1> QED
    BY <1>4, <1>6, <1>8, <1>10, Commit DEF Table

LEMMA OtherStep ==
  ASSUME IInv, Other
  PROVE  IInv'
  <1>1. TypeOK /\ PastOK /\ UNCHANGED <<kind, list, call, made, gone>>
    BY DEF IInv, Other
  <1>2. PastGrows /\ PastOK' /\ past' \in Seq(Seq(Row)) /\ past' # <<>>
    <2>1. PICK p \in Ids :
             \/ /\ \A r \in Range(table) : r.id # p
                /\ Commits(<<[id |-> p, status |-> New, deleted |-> FALSE]>> \o table)
             \/ \E v \in DOMAIN past : \E r \in Range(past[v]) :
                   /\ r.id = p
                   /\ \/ MayErase(r) /\ Erase(p)
                      \/ MayRevise(r) /\ Store(p, "pending_review")
                      \/ MayDecide(r) /\ \E s \in {"approved", "changes_requested"} : Store(p, s)
      BY DEF Other
    <2>2. CASE /\ \A r \in Range(table) : r.id # p
               /\ Commits(<<[id |-> p, status |-> New, deleted |-> FALSE]>> \o table)
      <3>1. ~HasRow(p)
        BY <2>2 DEF HasRow, Range
      <3> QED
        BY <2>2, <3>1, <1>1, NewCommit DEF Commits
    <2>3. CASE \E v \in DOMAIN past : \E r \in Range(past[v]) :
                  /\ r.id = p
                  /\ Erase(p) \/ \E s \in Statuses : Store(p, s)
      <3>1. PICK v \in DOMAIN past : \E r \in Range(past[v]) : r.id = p
        BY <2>3
      <3>2. HasRow(p)
        BY <3>1, <1>1 DEF PastOK, Range
      <3>3. PICK s \in Statuses : Erase(p) \/ Store(p, s)
        BY <2>3 DEF Statuses
      <3> QED
        BY <3>2, <3>3, <1>1, WriteCommit
    <2> QED
      BY <2>1, <2>2, <2>3 DEF Statuses
  <1>3. TypeOK'
    BY <1>1, <1>2, GoneType DEF TypeOK
  <1>4. ListOK(list)'
    BY <1>1, <1>2, ListStays DEF IInv
  <1>5. CallsOK'
    <2> SUFFICES ASSUME NEW d \in Calls
                 PROVE ListOK(call[d].base)' /\ PageOK(call[d])' /\ ReadOK(call[d])' /\ ChangeOK(call[d])'
      BY DEF CallsOK
    <2>1. ListOK(call[d].base) /\ PageOK(call[d]) /\ ReadOK(call[d]) /\ ChangeOK(call[d])
      BY DEF IInv, CallsOK
    <2> QED
      BY <2>1, <1>1, <1>2, ListStays, CallStays
  <1>6. AllGone'
    <2> SUFFICES ASSUME NEW p \in Ids, Away(p)' PROVE GoneOK(p)'
      BY DEF AllGone, GoneOK
    <2>1. Away(p)
      BY <1>1, <1>2, AwayStays
    <2> QED
      BY <2>1, <1>1 DEF IInv, AllGone, GoneOK
  <1> QED
    BY <1>2, <1>3, <1>4, <1>5, <1>6 DEF IInv

LEMMA BlankList ==
  ASSUME NEW st \in {"initial", "loading", "error"}
  PROVE  Blank(st) \in List /\ ListOK(Blank(st)) /\ Blank(st).items = <<>> /\ Blank(st).st = st
  <1>1. <<>> \in Seq(Item)
    OBVIOUS
  <1>2. Blank(st) \in List
    BY <1>1 DEF Blank, List
  <1> QED
    BY <1>2 DEF Blank, ListOK

\* Calls that read nothing, or nothing any more.
LEMMA BlankCall ==
  /\ NoCall \in Call /\ ListOK(NoCall.base) /\ PageOK(NoCall) /\ ReadOK(NoCall) /\ ChangeOK(NoCall)
  /\ NoCall.rows = <<>> /\ NoCall.base.items = <<>>
  <1>1. Blank("initial") \in List /\ ListOK(Blank("initial")) /\ Blank("initial").items = <<>>
    BY BlankList
  <1>2. <<>> \in Seq(Item)
    OBVIOUS
  <1>3. NoCall \in Call
    BY <1>1, <1>2 DEF NoCall, Call
  <1>4. /\ NoCall.pc = "free" /\ NoCall.base = Blank("initial") /\ NoCall.rows = <<>> /\ NoCall.vs = {}
        /\ NoCall.to = "deleted"
    BY DEF NoCall
  <1> QED
    BY <1>1, <1>3, <1>4 DEF PageOK, ReadOK, ChangeOK, Reading

LEMMA FailedCall ==
  ASSUME NEW q \in Call, PageOK(q)
  PROVE  /\ Failed(q) \in Call /\ PageOK(Failed(q)) /\ ReadOK(Failed(q)) /\ ChangeOK(Failed(q))
         /\ Failed(q).base = q.base /\ Failed(q).rows = <<>>
  <1>1. NoCall \in Call /\ NoCall.rows = <<>> /\ NoCall.vs = {} /\ NoCall.to = "deleted"
    BY BlankCall DEF NoCall
  <1> DEFINE f == Failed(q)
  <1>2. /\ f.pc = "failed" /\ f.base = q.base /\ f.page = q.page /\ f.id = q.id
        /\ f.rows = <<>> /\ f.vs = {} /\ f.to = "deleted"
    BY <1>1 DEF Failed, NoCall
  <1>3. f \in Call
    BY <1>1 DEF Failed, Call
  <1> HIDE DEF f
  <1>4. PageOK(f) /\ ReadOK(f) /\ ChangeOK(f)
    BY <1>2 DEF PageOK, ReadOK, ChangeOK, Reading
  <1> QED
    BY <1>2, <1>3, <1>4 DEF f

\* A call fails, and its list stays as it is for now.
LEMMA StepToFailed ==
  ASSUME IInv, NEW c \in Calls, call' = [call EXCEPT ![c] = Failed(call[c])],
         UNCHANGED <<kind, past, list, made, gone>>
  PROVE  IInv'
  <1> PICK q : q = Failed(call[c])
    OBVIOUS
  <1>1. /\ TypeOK /\ PastOK /\ ListOK(list) /\ list \in List /\ made \in 0..MaxCalls
        /\ past \in Seq(Seq(Row)) /\ past # <<>>
        /\ call[c] \in Call /\ ListOK(call[c].base) /\ PageOK(call[c])
        /\ \A p \in Ids : Away(p) => Off(p, list.items) /\ Off(p, call[c].base.items)
    BY OneCall
  <1>2. PastGrows /\ PastOK'
    BY <1>1, NoCommit
  <1>3. q \in Call /\ PageOK(q) /\ ReadOK(q) /\ ChangeOK(q) /\ q.base = call[c].base /\ q.rows = <<>>
    BY <1>1, FailedCall
  <1>4. ListOK(list)' /\ ListOK(q.base)' /\ PageOK(q)' /\ ReadOK(q)' /\ ChangeOK(q)'
    BY <1>1, <1>2, <1>3, ListStays, CallStays
  <1>5. \A p : Off(p, q.rows)
    BY <1>3 DEF Off
  <1>6. call' = [call EXCEPT ![c] = q]
    OBVIOUS
  <1> QED
    BY <1>1, <1>2, <1>3, <1>4, <1>5, <1>6, StepOfOne

LEMMA FailStep ==
  ASSUME IInv, NEW c \in Calls, Fail(c)
  PROVE  IInv'
  BY StepToFailed DEF Fail

LEMMA DecideStep ==
  ASSUME IInv, NEW c \in Calls, Decide(c)
  PROVE  IInv'
  <1> DEFINE o == call[c]
  <1> PICK q : q = [o EXCEPT !.pc = "write"]
    OBVIOUS
  <1>1. /\ TypeOK /\ PastOK /\ ListOK(list) /\ list \in List /\ made \in 0..MaxCalls
        /\ past \in Seq(Seq(Row)) /\ past # <<>>
        /\ o \in Call /\ ListOK(o.base) /\ PageOK(o) /\ ReadOK(o) /\ ChangeOK(o)
        /\ \A e \in Ids : Away(e) => Off(e, list.items) /\ Off(e, o.base.items) /\ Off(e, o.rows)
    BY OneCall
  <1>2. /\ o.pc = "change" /\ UNCHANGED <<kind, past, list, made, gone>> /\ HasRow(o.id)
        /\ \/ call' = [call EXCEPT ![c] = Failed(@)]
           \/ call' = [call EXCEPT ![c].pc = "write"]
    BY DEF Decide, At, HasRow, Range
  <1>3. CASE call' = [call EXCEPT ![c] = Failed(@)]
    <2>1. call' = [call EXCEPT ![c] = Failed(call[c])]
      BY <1>3
    <2> QED
      BY <2>1, <1>2, StepToFailed
  <1>4. CASE call' = [call EXCEPT ![c].pc = "write"]
    <2>1. /\ q.pc = "write" /\ q.page = o.page /\ q.base = o.base /\ q.rows = o.rows /\ q.vs = o.vs
          /\ q.id = o.id /\ q.to = o.to
      BY <1>1 DEF Call
    <2>2. q \in Call
      BY <1>1 DEF Call
    <2>3. call' = [call EXCEPT ![c] = q]
      BY <1>4
    <2>4. PageOK(q) /\ ReadOK(q) /\ ChangeOK(q)
      BY <1>1, <1>2, <2>1 DEF PageOK, ReadOK, ChangeOK, Reading
    <2>5. UNCHANGED <<kind, past, gone>> /\ made' \in 0..MaxCalls
      BY <1>1, <1>2
    <2>6. PICK l \in List : list' = l /\ ListOK(l) /\ \A e \in Ids : Away(e) => Off(e, l.items)
      BY <1>1, <1>2
    <2> QED
      BY <1>1, <2>1, <2>2, <2>3, <2>4, <2>5, <2>6, StepOfCall
  <1> QED
    BY <1>2, <1>3, <1>4

LEMMA ChangeStep ==
  ASSUME IInv, NEW c \in Calls, Change(c)
  PROVE  IInv'
  <1> DEFINE o == call[c]
  <1> PICK q : q = [o EXCEPT !.pc = "changed"]
    OBVIOUS
  <1>1. /\ TypeOK /\ PastOK /\ ListOK(list) /\ list \in List /\ made \in 0..MaxCalls
        /\ o \in Call /\ ListOK(o.base) /\ PageOK(o) /\ ReadOK(o) /\ ChangeOK(o)
        /\ \A e \in Ids : Away(e) => Off(e, list.items) /\ Off(e, o.base.items) /\ Off(e, o.rows)
    BY OneCall
  <1>2. /\ o.pc = "write" /\ UNCHANGED <<kind, list, made, gone>>
        /\ IF o.to = "deleted" THEN Erase(o.id) ELSE Store(o.id, o.to)
        /\ call' = [call EXCEPT ![c].pc = "changed"]
    BY DEF Change, At
  <1>3. o.id \in Ids /\ HasRow(o.id) /\ o.page = 0
    BY <1>1, <1>2 DEF ChangeOK
  <1>4. PastGrows /\ PastOK' /\ past' \in Seq(Seq(Row)) /\ past' # <<>>
    <2>1. PICK p \in Ids : p = o.id
      BY <1>3
    <2>2. PICK s \in Statuses : Erase(p) \/ Store(p, s)
      <3>1. CASE o.to = "deleted"
        BY <3>1, <2>1, <1>2 DEF Statuses
      <3>2. CASE o.to # "deleted"
        BY <3>2, <2>1, <1>1, <1>2 DEF Call
      <3> QED
        BY <3>1, <3>2
    <2> QED
      BY <2>1, <2>2, <1>1, <1>2, <1>3, WriteCommit
  <1>5. /\ q.pc = "changed" /\ q.page = o.page /\ q.base = o.base /\ q.rows = o.rows /\ q.vs = o.vs
        /\ q.id = o.id /\ q.to = o.to
    BY <1>1 DEF Call
  <1>6. q \in Call
    BY <1>1 DEF Call
  <1>7. call' = [call EXCEPT ![c] = q]
    BY <1>2
  <1>8. PageOK(q) /\ ReadOK(q) /\ ChangeOK(q)
    BY <1>1, <1>3, <1>5 DEF PageOK, ReadOK, ChangeOK, Reading
  <1>9. PICK l \in List : l = list
    BY <1>1
  <1>10. ListOK(l)' /\ ListOK(q.base)' /\ PageOK(q)' /\ ReadOK(q)' /\ ChangeOK(q)'
    BY <1>1, <1>4, <1>5, <1>8, <1>9, ListStays, CallStays
  <1> QED
    BY <1>1, <1>2, <1>4, <1>5, <1>6, <1>7, <1>9, <1>10, StepOfOne

-----------------------------------------------------------------------------
(* The steps of the client.                                                *)

LEMMA SendStep ==
  ASSUME IInv, NEW c \in Calls, NEW q, Send(c, q)
  PROVE  made' \in 0..MaxCalls /\ call' = [call EXCEPT ![c] = q]
  <1>1. made \in 0..MaxCalls /\ made' = made + 1 /\ made < MaxCalls /\ MaxCalls \in Nat
    BY PageAssumption DEF IInv, TypeOK, Send
  <1> QED
    BY <1>1 DEF Send

LEMMA FirstCall ==
  /\ FirstPage \in Call /\ ListOK(FirstPage.base) /\ PageOK(FirstPage) /\ ReadOK(FirstPage)
  /\ ChangeOK(FirstPage) /\ FirstPage.base.items = <<>> /\ FirstPage.rows = <<>>
  <1>1. /\ Blank("loading") \in List /\ ListOK(Blank("loading")) /\ Blank("loading").items = <<>>
        /\ Blank("loading").st = "loading" /\ Blank("loading").page = 0
    BY BlankList DEF Blank
  <1>2. NoCall \in Call /\ NoCall.rows = <<>> /\ NoCall.vs = {} /\ NoCall.to = "deleted"
    BY BlankCall DEF NoCall
  <1>3. FirstPage \in Call
    BY <1>1, <1>2 DEF FirstPage, Call
  <1>4. /\ FirstPage.pc = "count" /\ FirstPage.page = 1 /\ FirstPage.base = Blank("loading")
        /\ FirstPage.rows = <<>> /\ FirstPage.vs = {} /\ FirstPage.to = "deleted"
    BY <1>2 DEF FirstPage, NoCall
  <1> QED
    BY <1>1, <1>3, <1>4 DEF PageOK, ReadOK, ChangeOK, Reading

LEMMA LoadStep ==
  ASSUME IInv, NEW c \in Calls, Load(c) \/ Refresh(c)
  PROVE  IInv'
  <1>1. UNCHANGED <<kind, past, gone>> /\ Send(c, FirstPage) /\ list' \in {list, Blank("loading")}
    BY DEF Load, Refresh
  <1>2. made' \in 0..MaxCalls /\ call' = [call EXCEPT ![c] = FirstPage]
    BY <1>1, SendStep
  <1>3. Blank("loading") \in List /\ ListOK(Blank("loading")) /\ Blank("loading").items = <<>>
    BY BlankList
  <1>4. list \in List /\ ListOK(list) /\ \A p \in Ids : Away(p) => Off(p, list.items)
    BY OneCall
  <1>5. \A p : Off(p, <<>>)
    BY DEF Off
  <1>6. /\ FirstPage \in Call /\ ListOK(FirstPage.base) /\ PageOK(FirstPage) /\ ReadOK(FirstPage)
        /\ ChangeOK(FirstPage) /\ FirstPage.base.items = <<>> /\ FirstPage.rows = <<>>
    BY FirstCall
  <1>7. PICK l \in List : list' = l /\ ListOK(l) /\ \A p \in Ids : Away(p) => Off(p, l.items)
    BY <1>1, <1>3, <1>4, <1>5
  <1> QED
    BY <1>1, <1>2, <1>5, <1>6, <1>7, StepOfCall

\* A list is as good as one that differs in its spinner.
LEMMA SameList ==
  ASSUME NEW l, ListOK(l), l.st = "loaded", NEW k, k.st = "loaded", k.items = l.items, k.page = l.page,
         k.hasMore = l.hasMore, k.vs = l.vs, k.left = l.left
  PROVE  ListOK(k)
  <1>1. \A v : Shows(l, v) => Shows(k, v)
    BY DEF Shows
  <1> QED
    BY <1>1 DEF ListOK

LEMMA LoadMoreStep ==
  ASSUME IInv, NEW c \in Calls, LoadMore(c)
  PROVE  IInv'
  <1> DEFINE q == [NoCall EXCEPT !.pc = "count", !.page = list.page + 1, !.base = list]
             l == [list EXCEPT !.more = "loading"]
  <1>1. list.st = "loaded" /\ list' = l /\ UNCHANGED <<kind, past, gone>> /\ Send(c, q)
    BY DEF LoadMore
  <1>2. made' \in 0..MaxCalls /\ call' = [call EXCEPT ![c] = q]
    BY <1>1, SendStep
  <1>3. list \in List /\ ListOK(list) /\ \A p \in Ids : Away(p) => Off(p, list.items)
    BY OneCall
  <1>4. NoCall \in Call /\ NoCall.rows = <<>> /\ NoCall.vs = {} /\ NoCall.to = "deleted"
    BY BlankCall DEF NoCall
  <1>5. /\ q.pc = "count" /\ q.page = list.page + 1 /\ q.base = list
        /\ q.rows = <<>> /\ q.vs = {} /\ q.to = "deleted"
    BY <1>4 DEF NoCall
  <1>6. list.page \in Nat
    BY <1>3 DEF List
  <1>7. q \in Call
    <2>1. PICK n \in Nat : n = list.page + 1
      BY <1>6
    <2>2. [NoCall EXCEPT !.pc = "count", !.page = n, !.base = list] \in Call
      BY <1>3, <1>4 DEF Call
    <2> QED
      BY <2>1, <2>2
  <1>8. /\ l.st = "loaded" /\ l.items = list.items /\ l.page = list.page
        /\ l.hasMore = list.hasMore /\ l.vs = list.vs /\ l.left = list.left
    BY <1>1, <1>3 DEF List
  <1>9. l \in List
    BY <1>3 DEF List
  <1> HIDE DEF q, l
  <1>10. ListOK(l)
    BY <1>1, <1>3, <1>8, SameList
  <1>11. PageOK(q) /\ ReadOK(q) /\ ChangeOK(q)
    BY <1>1, <1>5, <1>6 DEF PageOK, ReadOK, ChangeOK, Reading
  <1>12. \A p : Off(p, q.rows)
    BY <1>5 DEF Off
  <1> QED
    BY <1>1, <1>2, <1>3, <1>5, <1>7, <1>8, <1>9, <1>10, <1>11, <1>12, StepOfCall

LEMMA AskStep ==
  ASSUME IInv, NEW c \in Calls, Ask(c)
  PROVE  IInv'
  <1>1. UNCHANGED <<kind, past, list, gone>>
    BY DEF Ask
  <1>2. PICK i \in DOMAIN list.items, to \in {"approved", "changes_requested", "deleted"} :
           /\ (kind = "pending") <=> (to # "deleted")
           /\ Send(c, [NoCall EXCEPT !.pc = "change", !.id = list.items[i].id, !.to = to])
    BY DEF Ask
  <1> DEFINE q == [NoCall EXCEPT !.pc = "change", !.id = list.items[i].id, !.to = to]
  <1>3. made' \in 0..MaxCalls /\ call' = [call EXCEPT ![c] = q]
    BY <1>2, SendStep
  <1>4. list \in List /\ ListOK(list) /\ \A p \in Ids : Away(p) => Off(p, list.items)
    BY OneCall
  <1>5. list.items[i].id \in Ids
    <2>1. list.items \in Seq(Item)
      BY <1>4 DEF List
    <2>2. list.items[i] \in Item
      BY <2>1
    <2> QED
      BY <2>2 DEF Item
  <1>6. /\ NoCall \in Call /\ NoCall.rows = <<>> /\ NoCall.vs = {} /\ NoCall.page = 0
        /\ NoCall.base.items = <<>> /\ ListOK(NoCall.base)
    BY BlankCall DEF NoCall
  <1>7. /\ q.pc = "change" /\ q.page = 0 /\ q.base = NoCall.base /\ q.rows = <<>> /\ q.vs = {}
        /\ q.to = to /\ q.id = list.items[i].id
    BY <1>6 DEF NoCall
  <1>8. q \in Call
    BY <1>5, <1>6 DEF Call, Statuses
  <1> HIDE DEF q
  <1>9. PageOK(q) /\ ReadOK(q) /\ ChangeOK(q)
    BY <1>2, <1>5, <1>6, <1>7 DEF PageOK, ReadOK, ChangeOK, Reading
  <1>10. \A p : Off(p, <<>>)
    BY DEF Off
  <1> QED
    BY <1>1, <1>3, <1>4, <1>6, <1>7, <1>8, <1>9, <1>10, StepOfCall

\* What the first n pages of a table show.
LEMMA AskedItems ==
  ASSUME TypeOK, PastOK, NEW v \in DOMAIN past, NEW n \in Nat
  PROVE  /\ Asked(v, n) \in Seq(Item) /\ Distinct(Asked(v, n))
         /\ n = 0 => Asked(v, n) = <<>>
         /\ Asked(v, n) \o AsItems(Page(Visible(past[v]), n + 1)) = Asked(v, n + 1)
  <1> DEFINE full == Visible(past[v])
             l == n * PageSize
             h == l + PageSize
             a == SubSeq(full, 1, Lesser(l, Len(full)))
             b == SubSeq(full, l + 1, Lesser(h, Len(full)))
             d == SubSeq(full, 1, Lesser(h, Len(full)))
  <1>1. full \in Seq(Row) /\ Distinct(full) /\ Len(full) \in Nat
    BY TheTable, VisibleTable DEF Table
  <1>2. l \in Nat /\ h \in Nat /\ l <= h /\ (n + 1) * PageSize = h /\ Offset(n + 1) = l /\ (n = 0 => l = 0)
    <2>1. PageSize \in Nat
      BY PageAssumption
    <2>2. ((n + 1) - 1) * PageSize = l /\ (n + 1) * PageSize = h
      BY <2>1
    <2> QED
      BY <2>1, <2>2 DEF Offset
  <1>3. /\ Asked(v, n) = AsItems(a) /\ Asked(v, n + 1) = AsItems(d)
        /\ Page(full, n + 1) = b
    BY <1>2, Zenon DEF Asked, Page
  <1> HIDE DEF full, l, h
  <1>4. Lesser(l, Len(full)) \in 0..Len(full) /\ Lesser(h, Len(full)) \in 0..Len(full)
        /\ (l = 0 => Lesser(l, Len(full)) = 0)
    BY <1>1, <1>2 DEF Lesser
  <1>5. a \in Seq(Row) /\ Len(a) = Lesser(l, Len(full)) /\ \A i \in 1..Len(a) : a[i] = full[i]
    BY <1>1, <1>4
  <1>6. b \in Seq(Row)
    BY <1>1, <1>2, <1>4
  <1>7. a \o b = d
    BY <1>1, <1>2, NextPage
  <1>8. Distinct(AsItems(a))
    <2> SUFFICES ASSUME NEW i \in 1..Len(a), NEW j \in 1..Len(a), a[i].id = a[j].id PROVE i = j
      BY <1>5 DEF Distinct, AsItems
    <2>1. i \in DOMAIN full /\ j \in DOMAIN full
      BY <1>1, <1>4, <1>5
    <2> QED
      BY <2>1, <1>1, <1>5 DEF Distinct
  <1>9. n = 0 => AsItems(a) = <<>>
    <2>1. n = 0 => Len(AsItems(a)) = 0
      BY <1>2, <1>4, <1>5, ItemsOf
    <2>2. AsItems(a) \in Seq(Item)
      BY <1>5, ItemsOf
    <2> QED
      BY <2>1, <2>2
  <1> HIDE DEF a, b, d
  <1>10. AsItems(a) \in Seq(Item) /\ AsItems(a) \o AsItems(b) = AsItems(d)
    BY <1>5, <1>6, <1>7, ItemsOf, ItemsJoin
  <1> QED
    BY <1>3, <1>8, <1>9, <1>10 DEF full

\* The positions of what is left of s without L, which are ids of s.
Less(s, L) == {i \in DOMAIN s : s[i].id \notin L}
Covers(s, L) == \A p \in L : \E i \in DOMAIN s : s[i].id = p

\* To append what follows leaves nothing out that was not left out before.
LEMMA KeptMore ==
  ASSUME NEW a \in Seq(Item), NEW r \in Seq(Item), NEW s \in Seq(Item), Joined(a, r, s), Distinct(s),
         NEW L, Covers(a, L)
  PROVE  Kept(a, Less(a, L)) \o r = Kept(s, Less(s, L)) /\ Covers(s, L)
  <1>1. /\ Len(a) \in Nat /\ Len(r) \in Nat /\ Len(s) = Len(a) + Len(r)
        /\ DOMAIN a = 1..Len(a) /\ DOMAIN s = 1..Len(s)
        /\ \A i \in 1..Len(a) : s[i] = a[i]
        /\ \A i \in 1..Len(r) : s[Len(a) + i] = r[i]
    BY DEF Joined
  <1>2. ASSUME NEW i \in DOMAIN s PROVE i \in Less(s, L) <=> i \in Less(a, L) \/ Len(a) < i
    <2>1. CASE i <= Len(a)
      BY <2>1, <1>1 DEF Less
    <2>2. CASE Len(a) < i
      <3> SUFFICES ASSUME s[i].id \in L PROVE FALSE
        BY <2>2 DEF Less
      <3>1. PICK j \in DOMAIN a : a[j].id = s[i].id
        BY DEF Covers
      <3>2. j \in DOMAIN s /\ s[j].id = s[i].id
        BY <3>1, <1>1
      <3>3. j = i
        BY <3>2 DEF Distinct
      <3> QED
        BY <3>3, <2>2, <1>1
    <2> QED
      BY <2>1, <2>2, <1>1
  <1>3. AndOn(a, Less(a, L), s, Less(s, L))
    <2>1. Less(a, L) \in SUBSET DOMAIN a /\ Less(s, L) \in SUBSET DOMAIN s
      BY DEF Less
    <2> QED
      BY <1>2, <2>1 DEF AndOn
  <1>4. Kept(a, Less(a, L)) \o r = Kept(s, Less(s, L))
    BY <1>3, KeptJoin
  <1>5. Covers(s, L)
    <2>1. \A i \in DOMAIN a : i \in DOMAIN s /\ s[i].id = a[i].id
      BY <1>1
    <2> QED
      BY <2>1 DEF Covers
  <1> QED
    BY <1>4, <1>5

\* The next page of a table goes on where the pages so far leave off.
LEMMA AskedMore ==
  ASSUME TypeOK, PastOK, Ordered, NEW v \in DOMAIN past, NEW n \in Nat, NEW L, Covers(Asked(v, n), L)
  PROVE  /\ Kept(Asked(v, n), Less(Asked(v, n), L)) \o AsItems(Page(Visible(past[v]), n + 1))
               = Kept(Asked(v, n + 1), Less(Asked(v, n + 1), L))
         /\ Covers(Asked(v, n + 1), L)
  <1>1. PICK a : a = Asked(v, n)
    OBVIOUS
  <1>2. PICK s : s = Asked(v, n + 1)
    OBVIOUS
  <1>3. PICK r : r = AsItems(Page(Visible(past[v]), n + 1))
    OBVIOUS
  <1>4. a \in Seq(Item) /\ s \in Seq(Item) /\ Distinct(s) /\ a \o r = s
    <2>1. /\ Asked(v, n) \in Seq(Item)
          /\ Asked(v, n) \o AsItems(Page(Visible(past[v]), n + 1)) = Asked(v, n + 1)
      BY AskedItems
    <2>2. Asked(v, n + 1) \in Seq(Item) /\ Distinct(Asked(v, n + 1))
      <3>1. n + 1 \in Nat
        OBVIOUS
      <3> QED
        BY <3>1, AskedItems
    <2> QED
      BY <1>1, <1>2, <1>3, <2>1, <2>2
  <1>5. r \in Seq(Item)
    <2>1. Visible(past[v]) \in Seq(Row)
      BY TheTable, VisibleTable DEF Table
    <2>2. Page(Visible(past[v]), n + 1) \in Seq(Row)
      <3>1. Visible(past[v]) \in Orders(past[v])
        BY DEF Orders
      <3> QED
        BY <3>1, TheTable, PageRows
    <2> QED
      BY <2>2, <1>3, ItemsOf
  <1>6. a \in Seq(Item) /\ s \in Seq(Item) /\ Distinct(s)
    BY <1>4
  <1>7. Joined(a, r, s)
    BY <1>4, <1>5 DEF Joined
  <1>8. Covers(a, L)
    BY <1>1
  <1>9. Kept(a, Less(a, L)) \o r = Kept(s, Less(s, L)) /\ Covers(s, L)
    BY <1>5, <1>6, <1>7, <1>8, KeptMore
  <1> QED
    BY <1>1, <1>2, <1>3, <1>9

\* A page that was read after the same commit as its base makes a snapshot of both.
LEMMA ShowsMore ==
  ASSUME TypeOK, PastOK, NEW b \in List, NEW v \in DOMAIN past, Shows(b, v), Ordered,
         NEW l, l.page = b.page + 1, l.left = b.left,
         l.items = b.items \o AsItems(Page(Visible(past[v]), b.page + 1))
  PROVE  Shows(l, v)
  <1>1. b.page \in Nat
    BY DEF List
  <1>2. b.items = Kept(Asked(v, b.page), Less(Asked(v, b.page), b.left)) /\ Covers(Asked(v, b.page), b.left)
    BY DEF Shows, Less, Covers
  <1>3. /\ Kept(Asked(v, b.page), Less(Asked(v, b.page), b.left)) \o AsItems(Page(Visible(past[v]), b.page + 1))
               = Kept(Asked(v, b.page + 1), Less(Asked(v, b.page + 1), b.left))
        /\ Covers(Asked(v, b.page + 1), b.left)
    BY <1>1, <1>2, AskedMore
  <1> QED
    BY <1>2, <1>3 DEF Shows, Less, Covers

LEMMA BlankShows ==
  ASSUME TypeOK, PastOK, NEW v \in DOMAIN past
  PROVE  Shows(Blank("loading"), v)
  <1> DEFINE b == Blank("loading")
             a == Asked(v, 0)
  <1>1. b.page = 0 /\ b.items = <<>> /\ b.left = {}
    BY DEF Blank
  <1>2. a = <<>>
    BY AskedItems
  <1>3. Less(a, {}) = DOMAIN a
    BY DEF Less
  <1>4. Kept(a, Less(a, {})) = a
    <2>1. <<>> \in Seq(Item)
      OBVIOUS
    <2> QED
      BY <1>2, <1>3, <2>1, KeptAll
  <1> QED
    BY <1>1, <1>2, <1>4 DEF Shows, Less

\* The list an answer makes of the base its call was given.
LEMMA Answered ==
  ASSUME TypeOK, PastOK, NEW q \in Call, q.pc = "answer", ListOK(q.base), PageOK(q), ReadOK(q),
         NEW l, l.st = "loaded", l.items = q.base.items \o q.rows, l.page = q.page,
         l.hasMore = HasMore(q.page, q.total), l.vs = q.base.vs \cup q.vs, l.left = q.base.left
  PROVE  ListOK(l)
  <1>1. /\ q.base \in List /\ q.vs # {} /\ q.vs \in SUBSET DOMAIN past /\ q.base.vs \in SUBSET DOMAIN past
        /\ q.page = q.base.page + 1 /\ q.base.st \in {"loading", "loaded"}
    BY DEF Call, PageOK, ListOK, Reading
  <1>2. l.vs \in SUBSET DOMAIN past /\ l.vs # {}
    BY <1>1
  <1>3. ASSUME NEW v \in l.vs, l.vs = {v}
        PROVE  Shows(l, v) /\ (l.hasMore <=> l.page * PageSize < Len(Visible(past[v])))
    <2>1. q.vs = {v} /\ v \in DOMAIN past
      <3>1. PICK w \in q.vs : TRUE
        BY <1>1
      <3>2. \A x \in q.base.vs \cup q.vs : x = v
        BY <1>3
      <3> QED
        BY <3>1, <3>2, <1>1
    <2>2. /\ q.total = Len(Visible(past[v]))
          /\ Ordered => q.rows = AsItems(Page(Visible(past[v]), q.page))
      BY <2>1 DEF ReadOK, Reading
    <2>3. Shows(q.base, v)
      <3>1. CASE q.base.st = "loaded"
        <4>1. q.base.vs # {} /\ \A x \in q.base.vs : x = v
          <5>1. \A x \in q.base.vs \cup q.vs : x = v
            BY <1>3
          <5> QED
            BY <3>1, <5>1 DEF ListOK
        <4>2. q.base.vs = {v}
          BY <4>1
        <4> QED
          BY <4>2 DEF ListOK
      <3>2. CASE q.base.st = "loading"
        <4>1. q.base = Blank("loading")
          BY <3>2 DEF ListOK
        <4> QED
          BY <4>1, <2>1, BlankShows
      <3> QED
        BY <3>1, <3>2, <1>1
    <2>4. Shows(l, v)
      <3>1. CASE Ordered
        <4>1. l.items = q.base.items \o AsItems(Page(Visible(past[v]), q.base.page + 1))
          BY <3>1, <1>1, <2>2
        <4>2. l.page = q.base.page + 1 /\ l.left = q.base.left
          BY <1>1
        <4> QED
          BY <3>1, <4>1, <4>2, <1>1, <2>1, <2>3, ShowsMore
      <3>2. CASE ~Ordered
        BY <3>2 DEF Shows
      <3> QED
        BY <3>1, <3>2
    <2>5. l.hasMore <=> l.page * PageSize < Len(Visible(past[v]))
      BY <2>2 DEF HasMore
    <2> QED
      BY <2>4, <2>5
  <1> QED
    BY <1>2, <1>3 DEF ListOK

\* Two lists without an entry, joined.
LEMMA OffJoin ==
  ASSUME NEW T, NEW a \in Seq(T), NEW b \in Seq(T), NEW p, Off(p, a), Off(p, b)
  PROVE  Off(p, a \o b)
  <1>1. /\ Len(a) \in Nat /\ Len(b) \in Nat
        /\ DOMAIN (a \o b) = 1..(Len(a) + Len(b))
        /\ \A i \in 1..Len(a) : (a \o b)[i] = a[i]
        /\ \A i \in 1..Len(b) : (a \o b)[Len(a) + i] = b[i]
    OBVIOUS
  <1>2. /\ \A i \in 1..Len(a) : a[i].id # p
        /\ \A i \in 1..Len(b) : b[i].id # p
    BY DEF Off
  <1> DEFINE s == a \o b
  <1>3. /\ DOMAIN s = 1..(Len(a) + Len(b))
        /\ \A i \in 1..Len(a) : s[i] = a[i]
        /\ \A i \in 1..Len(b) : s[Len(a) + i] = b[i]
    BY <1>1
  <1> HIDE DEF s
  <1>4. ASSUME NEW i \in DOMAIN s PROVE s[i].id # p
    <2>1. CASE i <= Len(a)
      BY <2>1, <1>1, <1>2, <1>3
    <2>2. CASE Len(a) < i
      <3>1. PICK j \in 1..Len(b) : i = Len(a) + j
        <4>1. i - Len(a) \in 1..Len(b) /\ i = Len(a) + (i - Len(a))
          BY <2>2, <1>1, <1>3
        <4> QED
          BY <4>1
      <3> QED
        BY <3>1, <1>2, <1>3
    <2> QED
      BY <2>1, <2>2, <1>1, <1>3
  <1>5. Off(p, s)
    BY <1>4 DEF Off
  <1> QED
    BY <1>5 DEF s

LEMMA ShowStep ==
  ASSUME IInv, NEW c \in Calls, Show(c)
  PROVE  IInv'
  <1> DEFINE q == call[c]
             l == [st |-> "loaded", items |-> q.base.items \o q.rows, page |-> q.page, more |-> "idle",
                   hasMore |-> HasMore(q.page, q.total), vs |-> q.base.vs \cup q.vs, left |-> q.base.left]
  <1>1. /\ q.pc = "answer" /\ call' = [call EXCEPT ![c] = NoCall] /\ list' = l
        /\ UNCHANGED <<kind, past, made, gone>>
    BY DEF Show, At, Free
  <1>2. /\ TypeOK /\ PastOK /\ q \in Call /\ q.base \in List /\ made \in 0..MaxCalls
        /\ ListOK(q.base) /\ PageOK(q) /\ ReadOK(q)
        /\ \A p \in Ids : Away(p) => Off(p, q.base.items) /\ Off(p, q.rows)
    BY OneCall
  <1>3. /\ q.base.items \in Seq(Item) /\ q.rows \in Seq(Item) /\ q.page \in Nat /\ q.total \in Nat
        /\ q.base.vs \in SUBSET Nat /\ q.vs \in SUBSET Nat /\ q.base.left \in SUBSET Ids
    BY <1>2 DEF Call, List
  <1>4. l \in List
    <2>1. q.base.items \o q.rows \in Seq(Item)
      BY <1>3
    <2>2. HasMore(q.page, q.total) \in BOOLEAN
      BY DEF HasMore
    <2> QED
      BY <1>3, <2>1, <2>2 DEF List
  <1>5. ListOK(l)
    <2> HIDE DEF q
    <2>1. /\ l.st = "loaded" /\ l.items = q.base.items \o q.rows /\ l.page = q.page
          /\ l.hasMore = HasMore(q.page, q.total) /\ l.vs = q.base.vs \cup q.vs /\ l.left = q.base.left
      OBVIOUS
    <2> HIDE DEF l
    <2> QED
      BY <1>1, <1>2, <2>1, Answered
  <1>6. ASSUME NEW p \in Ids, Away(p) PROVE Off(p, l.items)
    <2>1. Off(p, q.base.items) /\ Off(p, q.rows)
      BY <1>2, <1>6
    <2> QED
      BY <1>3, <2>1, OffJoin
  <1>7. /\ NoCall \in Call /\ ListOK(NoCall.base) /\ PageOK(NoCall) /\ ReadOK(NoCall) /\ ChangeOK(NoCall)
        /\ NoCall.rows = <<>> /\ NoCall.base.items = <<>>
    BY BlankCall
  <1>8. \A p : Off(p, <<>>)
    BY DEF Off
  <1> HIDE DEF l
  <1>9. UNCHANGED <<kind, past, gone>> /\ made' \in 0..MaxCalls
    BY <1>1, <1>2
  <1> QED
    BY <1>1, <1>4, <1>5, <1>6, <1>7, <1>8, <1>9, StepOfCall

LEMMA ShowFailureStep ==
  ASSUME IInv, NEW c \in Calls, ShowFailure(c)
  PROVE  IInv'
  <1> DEFINE b == call[c].base
             e == [b EXCEPT !.more = "error"]
  <1>1. /\ call' = [call EXCEPT ![c] = NoCall] /\ UNCHANGED <<kind, past, made, gone>>
        /\ list' = list \/ list' = WithError(b)
    BY DEF ShowFailure, Free
  <1>2. /\ list \in List /\ ListOK(list) /\ b \in List /\ ListOK(b) /\ made \in 0..MaxCalls
        /\ \A p \in Ids : Away(p) => Off(p, list.items) /\ Off(p, b.items)
    BY OneCall
  <1>3. \A p : Off(p, <<>>)
    BY DEF Off
  <1>4. Blank("error") \in List /\ ListOK(Blank("error")) /\ Blank("error").items = <<>>
    BY BlankList
  <1>5. e \in List /\ e.items = b.items
    BY <1>2 DEF List
  <1>6. b.st = "loaded" => ListOK(e)
    <2>1. /\ e.st = b.st /\ e.items = b.items /\ e.page = b.page /\ e.hasMore = b.hasMore
          /\ e.vs = b.vs /\ e.left = b.left
      BY <1>2 DEF List
    <2> HIDE DEF e, b
    <2> QED
      BY <1>2, <2>1, SameList
  <1>7. WithError(b) = IF b.st = "loaded" THEN e ELSE Blank("error")
    BY DEF WithError
  <1> HIDE DEF e
  <1>8. PICK l \in List : list' = l /\ ListOK(l) /\ \A p \in Ids : Away(p) => Off(p, l.items)
    BY <1>1, <1>2, <1>3, <1>4, <1>5, <1>6, <1>7
  <1>9. /\ NoCall \in Call /\ ListOK(NoCall.base) /\ PageOK(NoCall) /\ ReadOK(NoCall) /\ ChangeOK(NoCall)
        /\ NoCall.rows = <<>> /\ NoCall.base.items = <<>>
    BY BlankCall
  <1> QED
    BY <1>1, <1>2, <1>3, <1>8, <1>9, StepOfCall

\* A list without an entry.
LEMMA WithoutIs ==
  ASSUME NEW T, NEW s \in Seq(T), NEW p
  PROVE  /\ Without(s, p) \in Seq(T) /\ Off(p, Without(s, p))
         /\ \A e : Off(e, s) => Off(e, Without(s, p))
  <1> DEFINE K == {i \in DOMAIN s : s[i].id # p}
             w == Kept(s, K)
  <1>1. w = Without(s, p)
    BY DEF Without
  <1>2. w \in Seq(T) /\ \A n \in DOMAIN w : \E i \in K : w[n] = s[i]
    <2>1. K \in SUBSET DOMAIN s
      OBVIOUS
    <2> HIDE DEF K
    <2> QED
      BY <2>1, KeptSeq
  <1>3. \A i \in K : i \in DOMAIN s /\ s[i].id # p
    OBVIOUS
  <1> HIDE DEF K, w
  <1>4. Off(p, w) /\ \A e : Off(e, s) => Off(e, w)
    BY <1>2, <1>3 DEF Off
  <1> QED
    BY <1>1, <1>2, <1>4

LEMMA WithoutNothing ==
  ASSUME NEW T, NEW s \in Seq(T), NEW p, Off(p, s)
  PROVE  Without(s, p) = s
  <1>1. {i \in DOMAIN s : s[i].id # p} = DOMAIN s
    BY DEF Off
  <1> QED
    BY <1>1, KeptAll DEF Without

\* To take an entry off what is left of s is to leave it out of s as well.
LEMMA WithoutOne ==
  ASSUME NEW s \in Seq(Item), NEW L, NEW M, NEW p, M = L \cup {p}, Covers(s, L),
         NEW a, a = Kept(s, Less(s, L)), ~Off(p, a)
  PROVE  Without(a, p) = Kept(s, Less(s, M)) /\ Covers(s, M)
  <1>1. Less(s, L) \in SUBSET DOMAIN s
    BY DEF Less
  <1>2. Less(s, M) \in SUBSET Less(s, L) /\ \A i \in Less(s, L) : i \in Less(s, M) <=> s[i].id # p
    BY DEF Less
  <1> DEFINE J == {j \in DOMAIN a : a[j].id # p}
  <1>3. J \in SUBSET DOMAIN a /\ \A j \in DOMAIN a : j \in J <=> a[j].id # p
    OBVIOUS
  <1>4. Without(a, p) = Kept(a, J)
    BY DEF Without
  <1> HIDE DEF J
  <1>5. Kept(a, J) = Kept(s, Less(s, M))
    <2>1. PICK k : k = Less(s, L)
      OBVIOUS
    <2>2. PICK m : m = Less(s, M)
      OBVIOUS
    <2>3. k \in SUBSET DOMAIN s /\ ButFor(p, s, k, m)
      BY <2>1, <2>2, <1>1, <1>2 DEF ButFor
    <2>4. ButFor(p, a, DOMAIN a, J)
      BY <1>3 DEF ButFor
    <2>5. a = Kept(s, k)
      BY <2>1
    <2>6. Kept(a, J) = Kept(s, m)
      BY <2>3, <2>5, <2>4, KeptTwice
    <2> QED
      BY <2>2, <2>6
  <1>6. \E i \in DOMAIN s : s[i].id = p
    <2>1. PICK n \in DOMAIN a : a[n].id = p
      BY DEF Off
    <2>2. \A k \in DOMAIN a : \E i \in Less(s, L) : a[k] = s[i]
      BY <1>1, KeptSeq
    <2>3. PICK i \in Less(s, L) : a[n] = s[i]
      BY <2>1, <2>2
    <2> QED
      BY <2>1, <2>3, <1>1
  <1>7. Covers(s, M)
    BY <1>6 DEF Covers
  <1> QED
    BY <1>4, <1>5, <1>7

LEMMA ShowsLess ==
  ASSUME TypeOK, PastOK, NEW b \in List, NEW v \in DOMAIN past, Shows(b, v), NEW p,
         NEW l, l.page = b.page, l.items = Without(b.items, p),
         l.left = IF Off(p, b.items) THEN b.left ELSE b.left \cup {p}
  PROVE  Shows(l, v)
  <1> SUFFICES ASSUME Ordered PROVE Shows(l, v)
    BY DEF Shows
  <1>1. b.page \in Nat /\ b.items \in Seq(Item)
    BY DEF List
  <1>2. PICK s : s = Asked(v, b.page)
    OBVIOUS
  <1>3. s \in Seq(Item)
    BY <1>1, <1>2, AskedItems
  <1>4. b.items = Kept(s, Less(s, b.left)) /\ Covers(s, b.left)
    BY <1>2 DEF Shows, Less, Covers
  <1>5. l.items = Kept(s, Less(s, l.left)) /\ Covers(s, l.left)
    <2>1. CASE Off(p, b.items)
      <3>1. Without(b.items, p) = b.items
        BY <2>1, <1>1, WithoutNothing
      <3> QED
        BY <3>1, <2>1, <1>4
    <2>2. CASE ~Off(p, b.items)
      <3>1. l.left = b.left \cup {p}
        BY <2>2
      <3>2. Without(b.items, p) = Kept(s, Less(s, l.left)) /\ Covers(s, l.left)
        BY <2>2, <3>1, <1>3, <1>4, WithoutOne
      <3> QED
        BY <3>2
    <2> QED
      BY <2>1, <2>2
  <1> QED
    BY <1>2, <1>5 DEF Shows, Less, Covers

\* The list without a post that this client has seen off.
OffList(b, p) == [b EXCEPT !.items = Without(@, p),
                           !.left = @ \cup ({p} \cap {i.id : i \in Range(b.items)})]

LEMMA TakenOff ==
  ASSUME TypeOK, PastOK, NEW b \in List, ListOK(b), b.st = "loaded", NEW p \in Ids
  PROVE  /\ OffList(b, p) \in List /\ ListOK(OffList(b, p)) /\ Off(p, OffList(b, p).items)
         /\ \A e : Off(e, b.items) => Off(e, OffList(b, p).items)
  <1> PICK l : l = OffList(b, p)
    OBVIOUS
  <1>1. b.items \in Seq(Item) /\ b.left \in SUBSET Ids
    BY DEF List
  <1>2. /\ Without(b.items, p) \in Seq(Item) /\ Off(p, Without(b.items, p))
        /\ \A e : Off(e, b.items) => Off(e, Without(b.items, p))
    BY <1>1, WithoutIs
  <1>3. p \in {i.id : i \in Range(b.items)} <=> ~Off(p, b.items)
    BY DEF Off, Range
  <1> DEFINE L == b.left \cup ({p} \cap {i.id : i \in Range(b.items)})
  <1>4. L = IF Off(p, b.items) THEN b.left ELSE b.left \cup {p}
    BY <1>3
  <1>5. l = [b EXCEPT !.items = Without(b.items, p), !.left = L]
    BY DEF List, OffList
  <1> HIDE DEF L
  <1>6. L \in SUBSET Ids
    BY <1>1, <1>4
  <1>7. /\ l.st = b.st /\ l.items = Without(b.items, p) /\ l.page = b.page /\ l.hasMore = b.hasMore
        /\ l.vs = b.vs /\ l.left = L
    BY <1>5 DEF List
  <1>8. l \in List
    BY <1>2, <1>5, <1>6 DEF List
  <1>9. \A v \in DOMAIN past : Shows(b, v) => Shows(l, v)
    BY <1>4, <1>7, ShowsLess
  <1>10. ListOK(l)
    BY <1>7, <1>9 DEF ListOK
  <1> QED
    BY <1>2, <1>7, <1>8, <1>10

LEMMA ToldStep ==
  ASSUME IInv, NEW c \in Calls, Told(c)
  PROVE  IInv'
  <1> PICK q : q = call[c]
    OBVIOUS
  <1> PICK p : p = q.id
    OBVIOUS
  <1>1. /\ q.pc = "changed" /\ call' = [call EXCEPT ![c] = NoCall] /\ UNCHANGED <<kind, past, made>>
        /\ list' = IF list.st = "loaded"
                   THEN [list EXCEPT !.items = Without(@, p),
                                     !.left = @ \cup ({p} \cap {i.id : i \in Range(list.items)})]
                   ELSE list
        /\ gone' = [gone EXCEPT ![p] =
                       IF kind = "pending" /\ \A d \in Calls : call[d].page = 0 THEN Len(past) ELSE 0]
    BY DEF Told, At, Free
  <1>2. /\ TypeOK /\ PastOK /\ list \in List /\ ListOK(list) /\ ChangeOK(q)
        /\ past \in Seq(Seq(Row)) /\ past # <<>>
    BY OneCall
  <1>3. p \in Ids
    BY <1>1, <1>2 DEF ChangeOK
  <1>4. PastGrows /\ PastOK'
    BY <1>1, <1>2, NoCommit
  <1>5. \A e : Off(e, <<>>)
    BY DEF Off
  <1>6. PICK l \in List : /\ list' = l /\ ListOK(l) /\ Off(p, l.items)
                          /\ \A e : Off(e, list.items) => Off(e, l.items)
    <2>1. CASE list.st = "loaded"
      <3>1. PICK l : l = OffList(list, p)
        OBVIOUS
      <3>2. /\ l \in List /\ ListOK(l) /\ Off(p, l.items)
            /\ \A e : Off(e, list.items) => Off(e, l.items)
        BY <3>1, <2>1, <1>2, <1>3, TakenOff
      <3>3. list' = l
        BY <3>1, <2>1, <1>1 DEF OffList
      <3> QED
        BY <3>2, <3>3
    <2>2. CASE list.st # "loaded"
      <3>1. list.items = <<>>
        <4>1. list = Blank(list.st)
          BY <2>2, <1>2 DEF ListOK
        <4> QED
          BY <4>1 DEF Blank
      <3> QED
        BY <2>2, <3>1, <1>1, <1>2, <1>5
    <2> QED
      BY <2>1, <2>2
  <1>7. ListOK(list)'
    <2>1. ListOK(l)'
      BY <1>4, <1>6, ListStays
    <2> QED
      BY <2>1, <1>6
  <1>8. /\ NoCall \in Call /\ ListOK(NoCall.base) /\ PageOK(NoCall) /\ ReadOK(NoCall) /\ ChangeOK(NoCall)
        /\ NoCall.rows = <<>> /\ NoCall.base.items = <<>>
    BY BlankCall
  <1>9. /\ call' \in [Calls -> Call] /\ call'[c] = NoCall
        /\ \A d \in Calls \ {c} : call'[d] = call[d]
    BY <1>1, <1>2, <1>8 DEF TypeOK
  <1>10. /\ gone' \in [Ids -> 0..Len(past)] /\ (\A e \in Ids \ {p} : gone'[e] = gone[e])
         /\ gone'[p] # 0 => \A d \in Calls : call[d].page = 0
    <2>1. gone \in [Ids -> 0..Len(past)] /\ Len(past) \in Nat
      BY <1>2 DEF TypeOK
    <2> QED
      BY <2>1, <1>1, <1>3
  <1>11. TypeOK'
    BY <1>1, <1>2, <1>6, <1>9, <1>10 DEF TypeOK
  <1>12. CallsOK'
    <2> SUFFICES ASSUME NEW d \in Calls
                 PROVE ListOK(call[d].base)' /\ PageOK(call[d])' /\ ReadOK(call[d])' /\ ChangeOK(call[d])'
      BY DEF CallsOK
    <2>1. ListOK(call[d].base) /\ PageOK(call[d]) /\ ReadOK(call[d]) /\ ChangeOK(call[d])
      BY DEF IInv, CallsOK
    <2>2. PICK o : /\ o = call'[d]
                   /\ ListOK(o.base) /\ PageOK(o) /\ ReadOK(o) /\ ChangeOK(o)
      BY <2>1, <1>8, <1>9
    <2>3. ListOK(o.base)' /\ PageOK(o)' /\ ReadOK(o)' /\ ChangeOK(o)'
      BY <2>2, <1>4, ListStays, CallStays
    <2> QED
      BY <2>2, <2>3
  <1>13. AllGone'
    <2> SUFFICES ASSUME NEW e \in Ids, Away(e)' PROVE GoneOK(e)'
      BY DEF AllGone, GoneOK
    <2>1. CASE e # p
      <3>1. Away(e)
        <4>1. \A t : Visible(t)' = Visible(t)
          BY <1>1, KindStays
        <4> QED
          BY <4>1, <2>1, <1>1, <1>10 DEF Away, Returned
      <3>2. /\ Off(e, list.items)
            /\ \A d \in Calls : Off(e, call[d].base.items) /\ Off(e, call[d].rows)
        BY <3>1 DEF IInv, AllGone, GoneOK
      <3>3. \A d \in Calls : Off(e, call'[d].base.items) /\ Off(e, call'[d].rows)
        BY <3>2, <1>5, <1>8, <1>9
      <3> QED
        BY <3>2, <3>3, <1>6 DEF GoneOK
    <2>2. CASE e = p
      <3>1. \A d \in Calls : call[d].page = 0
        BY <2>2, <1>10 DEF Away
      <3>2. \A d \in Calls : call[d].base.items = <<>> /\ call[d].rows = <<>>
        <4>1. \A d \in Calls : PageOK(call[d])
          BY DEF IInv, CallsOK
        <4> QED
          BY <4>1, <3>1 DEF PageOK
      <3>3. \A d \in Calls : Off(p, call'[d].base.items) /\ Off(p, call'[d].rows)
        BY <3>2, <1>5, <1>8, <1>9
      <3>4. GoneOK(p)'
        BY <3>3, <1>6 DEF GoneOK
      <3> QED
        BY <3>4, <2>2
    <2> QED
      BY <2>1, <2>2
  <1> QED
    BY <1>4, <1>7, <1>11, <1>12, <1>13 DEF IInv

-----------------------------------------------------------------------------
(* The invariant holds.                                                    *)

LEMMA InitIInv == Init => IInv
  <1> SUFFICES ASSUME Init PROVE IInv
    OBVIOUS
  <1>0. PICK n \in 0..Cardinality(Ids) : \E s \in Injection(1..n, Ids) :
           past = <<[i \in 1..n |-> [id |-> s[i], status |-> First, deleted |-> FALSE]]>>
    BY DEF Init
  <1>1. PICK s \in Injection(1..n, Ids) :
           past = <<[i \in 1..n |-> [id |-> s[i], status |-> First, deleted |-> FALSE]]>>
    BY <1>0
  <1>2. s \in [1..n -> Ids] /\ \A i, j \in 1..n : s[i] = s[j] => i = j
    BY DEF Injection, IsInjective
  <1>3. n \in Nat
    BY PageAssumption, FS_CardinalityType
  <1>4. First \in Statuses
    BY DEF First, New, Statuses
  <1> PICK t : t = [i \in 1..n |-> [id |-> s[i], status |-> First, deleted |-> FALSE]]
    OBVIOUS
  <1>5. t \in [1..n -> Row] /\ \A i \in 1..n : t[i].id = s[i]
    BY <1>2, <1>4 DEF Row
  <1>6. t \in Seq(Row) /\ DOMAIN t = 1..n
    BY <1>3, <1>5
  <1>7. Distinct(t)
    BY <1>2, <1>5, <1>6 DEF Distinct
  <1>8. past = <<t>> /\ past \in Seq(Seq(Row)) /\ past # <<>> /\ DOMAIN past = {1} /\ past[1] = t
    <2>1. past = <<t>>
      BY <1>1
    <2> QED
      BY <2>1, <1>6
  <1>9. list \in List /\ ListOK(list)
    BY BlankList DEF Init
  <1>10. /\ NoCall \in Call /\ ListOK(NoCall.base) /\ PageOK(NoCall) /\ ReadOK(NoCall) /\ ChangeOK(NoCall)
    BY BlankCall
  <1>11. call \in [Calls -> Call] /\ \A c \in Calls : call[c] = NoCall
    BY <1>10 DEF Init
  <1>12. gone \in [Ids -> 0..Len(past)] /\ \A p \in Ids : gone[p] = 0
    BY <1>8 DEF Init
  <1>13. kind \in Kinds /\ made \in 0..MaxCalls
    BY PageAssumption DEF Init
  <1>14. TypeOK
    BY <1>8, <1>9, <1>11, <1>12, <1>13 DEF TypeOK
  <1>15. PastOK
    BY <1>7, <1>8 DEF PastOK, HasRow, table
  <1>16. CallsOK
    BY <1>10, <1>11 DEF CallsOK
  <1>17. AllGone
    BY <1>12 DEF AllGone, GoneOK, Away
  <1> QED
    BY <1>9, <1>14, <1>15, <1>16, <1>17 DEF IInv

LEMMA SameIInv ==
  ASSUME IInv, UNCHANGED vars
  PROVE  IInv'
  <1>1. UNCHANGED <<kind, past, list, call, made, gone>>
    BY DEF vars
  <1>2. TypeOK /\ PastOK /\ ListOK(list)
    BY DEF IInv
  <1>3. PastGrows /\ PastOK'
    BY <1>1, <1>2, NoCommit
  <1>4. TypeOK'
    BY <1>1, <1>2 DEF TypeOK
  <1>5. ListOK(list)'
    <2>1. PICK l : l = list /\ ListOK(l)
      BY <1>2
    <2>2. ListOK(l)'
      BY <1>3, <2>1, ListStays
    <2> QED
      BY <1>1, <2>1, <2>2
  <1>6. CallsOK'
    <2> SUFFICES ASSUME NEW d \in Calls
                 PROVE ListOK(call[d].base)' /\ PageOK(call[d])' /\ ReadOK(call[d])' /\ ChangeOK(call[d])'
      BY DEF CallsOK
    <2>1. PICK o : /\ o = call[d]
                   /\ ListOK(o.base) /\ PageOK(o) /\ ReadOK(o) /\ ChangeOK(o)
      BY DEF IInv, CallsOK
    <2>2. ListOK(o.base)' /\ PageOK(o)' /\ ReadOK(o)' /\ ChangeOK(o)'
      BY <2>1, <1>3, ListStays, CallStays
    <2> QED
      BY <1>1, <2>1, <2>2
  <1>7. AllGone'
    <2> SUFFICES ASSUME NEW p \in Ids, Away(p)' PROVE GoneOK(p)'
      BY DEF AllGone, GoneOK
    <2>1. Away(p)
      BY <1>1, <1>3, AwayStays
    <2> QED
      BY <1>1, <2>1 DEF IInv, AllGone, GoneOK
  <1> QED
    BY <1>3, <1>4, <1>5, <1>6, <1>7 DEF IInv

LEMMA NextIInv == IInv /\ [Next]_vars => IInv'
  <1> SUFFICES ASSUME IInv, [Next]_vars PROVE IInv'
    OBVIOUS
  <1>1. ASSUME NEW c \in Calls, Serve(c) PROVE IInv'
    BY <1>1, CountStep, RowsStep, LogsStep, DecideStep, ChangeStep DEF Serve
  <1>2. ASSUME NEW c \in Calls, Receive(c) PROVE IInv'
    BY <1>2, ShowStep, ShowFailureStep, ToldStep DEF Receive
  <1>3. ASSUME NEW c \in Calls, Fail(c) PROVE IInv'
    BY <1>3, FailStep
  <1>4. ASSUME NEW c \in Calls, Load(c) \/ Refresh(c) PROVE IInv'
    BY <1>4, LoadStep
  <1>5. ASSUME NEW c \in Calls, LoadMore(c) PROVE IInv'
    BY <1>5, LoadMoreStep
  <1>6. ASSUME NEW c \in Calls, Ask(c) PROVE IInv'
    BY <1>6, AskStep
  <1>7. CASE Other
    BY <1>7, OtherStep
  <1>8. CASE Quiet
    BY <1>8, SameIInv DEF Quiet
  <1>9. CASE UNCHANGED vars
    BY <1>9, SameIInv
  <1> QED
    BY <1>1, <1>2, <1>3, <1>4, <1>5, <1>6, <1>7, <1>8, <1>9 DEF Next

THEOREM Invariance == Spec => []IInv
  BY InitIInv, NextIInv, PTL DEF Spec

\* The state keeps its type, however many requests and commits there are.
THEOREM TypeCorrect == Spec => []TypeOK
  <1>1. IInv => TypeOK
    BY DEF IInv
  <1> QED
    BY <1>1, Invariance, PTL

\* A loaded list whose statements all followed one commit is the first pages
\* of the table as it was then, less the posts this client has seen off, and
\* offers more exactly when there is more: whatever the sizes of the table and
\* of a page, however many refreshes, further pages, decisions and late answers
\* of the cubit overlap, and whatever other requests commit.
THEOREM SnapshotHolds == Spec => []ListIsASnapshot
  <1>1. IInv => ListIsASnapshot
    BY DEF IInv, ListOK, Shows, ListIsASnapshot
  <1> QED
    BY <1>1, Invariance, PTL

\* A post seen off the queue when no page was on its way is shown in it again
\* only if the queue on the server has held it, then or later, because another
\* decision overwrote this one or sent it back: never by a list that was put
\* together before, or by an answer or a failure that arrives late.
THEOREM GoneForGood == Spec => []GoneStaysGone
  <1>1. IInv => GoneStaysGone
    BY DEF IInv, AllGone, GoneOK, Away, Off, GoneStaysGone
  <1> QED
    BY <1>1, Invariance, PTL

=============================================================================
