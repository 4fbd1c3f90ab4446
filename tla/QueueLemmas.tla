---------------------------- MODULE QueueLemmas -----------------------------
(***************************************************************************)
(* Facts about queues and orders that the proofs of all components cite.   *)
(***************************************************************************)
EXTENDS Queues, FiniteSetTheorems, SequenceTheorems, WellFoundedInduction, TLAPS

\* A set of naturals that is not empty has a least element.
LEMMA LeastExists ==
  ASSUME NEW T \in SUBSET Nat, T # {}
  PROVE  \E x \in T : \A y \in T : x <= y
<1> DEFINE R == OpToRel(<, Nat)
<1>1. IsWellFoundedOn(R, Nat)
  BY NatLessThanWellFounded
<1>2. \E x \in T : \A y \in T : ~ (<<y, x>> \in R)
  <2> HIDE DEF R
  <2> QED BY <1>1, WFMin
<1>3. ASSUME NEW x \in T, NEW y \in T, ~ (<<y, x>> \in R)
      PROVE  x <= y
  BY <1>3 DEF OpToRel
<1> QED BY <1>2, <1>3

\* A set of places of a queue that is not empty has a greatest element: Max.
LEMMA MaxExists ==
  ASSUME NEW n \in Nat, NEW P \in SUBSET (1..n), P # {}
  PROVE  Max(P) \in P /\ \A j \in P : j <= Max(P)
<1> DEFINE T == {n - k : k \in P}
<1>1. T \in SUBSET Nat /\ T # {}
  <2>1. ASSUME NEW k \in P PROVE n - k \in Nat
    <3>1. k \in Nat /\ k <= n
      OBVIOUS
    <3> QED BY <3>1
  <2>2. T \in SUBSET Nat
    BY <2>1
  <2>3. PICK k \in P : TRUE
    OBVIOUS
  <2>4. n - k \in T
    OBVIOUS
  <2> QED BY <2>2, <2>4
<1>2. PICK x \in T : \A y \in T : x <= y
  <2> HIDE DEF T
  <2> QED BY <1>1, LeastExists
<1>3. PICK k \in P : x = n - k
  OBVIOUS
<1>4. ASSUME NEW j \in P PROVE j <= k
  <2>1. n - j \in T
    OBVIOUS
  <2>2. x <= n - j
    BY <2>1, <1>2
  <2> QED BY <2>2, <1>3
<1> QED BY <1>4 DEF Max

\* Every ordering of a finite set is a sequence that lists its elements once.
LEMMA OrderLists ==
  ASSUME NEW S, IsFiniteSet(S), NEW s \in SetToSeqs(S)
  PROVE  /\ s \in Seq(S)
         /\ DOMAIN s = 1..Len(s)
         /\ \A j, k \in DOMAIN s : s[j] = s[k] => j = k
         /\ \A x \in S : \E k \in DOMAIN s : s[k] = x
<1>1. Cardinality(S) \in Nat
  BY FS_CardinalityType
<1>2. s \in [1..Cardinality(S) -> S] /\ \A j, k \in DOMAIN s : s[j] = s[k] => j = k
  BY DEF SetToSeqs
<1>3. s \in Seq(S) /\ DOMAIN s = 1..Len(s)
  BY <1>1, <1>2
<1>4. s \in Injection(1..Cardinality(S), S)
  BY <1>2 DEF Injection, IsInjective
<1>5. Cardinality(1..Cardinality(S)) = Cardinality(S)
  BY <1>1, FS_Interval
<1>6. s \in Surjection(1..Cardinality(S), S)
  BY <1>4, <1>5, FS_Injection
<1> QED BY <1>2, <1>3, <1>6 DEF Surjection

\* An entry of two queues put together is an entry of one of the two.
LEMMA ElementOfEither ==
  ASSUME NEW A, NEW q \in Seq(A), NEW r \in Seq(A), NEW k \in DOMAIN (q \o r)
  PROVE  \/ \E j \in DOMAIN q : (q \o r)[k] = q[j]
         \/ \E j \in DOMAIN r : (q \o r)[k] = r[j]
<1>1. /\ k \in 1..(Len(q) + Len(r)) /\ Len(q) \in Nat /\ Len(r) \in Nat
      /\ (q \o r)[k] = IF k <= Len(q) THEN q[k] ELSE r[k - Len(q)]
  OBVIOUS
<1>2. CASE k <= Len(q)
  BY <1>1, <1>2
<1>3. CASE ~(k <= Len(q))
  <2>1. k - Len(q) \in 1..Len(r)
    BY <1>1, <1>3
  <2> QED BY <1>1, <1>3, <2>1
<1> QED BY <1>2, <1>3

\* The places of a queue are finitely many.
LEMMA PlacesFinite ==
  ASSUME NEW n \in Nat, NEW K \in SUBSET (1..n)
  PROVE  IsFiniteSet(K) /\ Cardinality(K) \in Nat
<1>1. IsFiniteSet(1..n)
  BY FS_Interval
<1>2. IsFiniteSet(K)
  BY <1>1, FS_Subset
<1> QED BY <1>2, FS_CardinalityType

\* Places counted from the first: each has a number of its own.
Upto(K, k) == {j \in K : j <= k}

\* The places of a set are numbered by how many of them come before.
LEMMA PlacesCounted ==
  ASSUME NEW n \in Nat, NEW K \in SUBSET (1..n)
  PROVE  /\ \A k \in K : Cardinality(Upto(K, k)) \in 1..Cardinality(K)
         /\ \A j, k \in K : Cardinality(Upto(K, j)) = Cardinality(Upto(K, k)) => j = k
         /\ \A i \in 1..Cardinality(K) : \E k \in K : Cardinality(Upto(K, k)) = i
<1> DEFINE f == [k \in K |-> Cardinality(Upto(K, k))]
<1>1. IsFiniteSet(K) /\ Cardinality(K) \in Nat
  BY PlacesFinite
<1>2. ASSUME NEW k \in K
      PROVE  /\ IsFiniteSet(Upto(K, k)) /\ Upto(K, k) \in SUBSET K
             /\ Cardinality(Upto(K, k)) \in 1..Cardinality(K)
  <2>1. Upto(K, k) \in SUBSET K /\ k \in Upto(K, k)
    BY DEF Upto
  <2>2. /\ IsFiniteSet(Upto(K, k)) /\ Cardinality(Upto(K, k)) \in Nat
        /\ Cardinality(Upto(K, k)) <= Cardinality(K)
    BY <1>1, <2>1, FS_Subset, FS_CardinalityType
  <2>3. Cardinality(Upto(K, k)) # 0
    BY <2>1, <2>2, FS_EmptySet
  <2> QED BY <1>1, <2>1, <2>2, <2>3
<1>3. ASSUME NEW j \in K, NEW k \in K, j < k
      PROVE  f[j] # f[k]
  <2>1. Upto(K, j) \in SUBSET Upto(K, k) /\ k \in Upto(K, k) /\ k \notin Upto(K, j)
    <3>1. j \in Nat /\ k \in Nat /\ \A x \in K : x \in Nat
      OBVIOUS
    <3>2. ASSUME NEW x \in Upto(K, j) PROVE x \in Upto(K, k)
      <4>1. x \in K /\ x <= j /\ x \in Nat
        BY <3>1 DEF Upto
      <4>2. x <= k
        BY <4>1, <3>1, <1>3
      <4> QED BY <4>1, <4>2 DEF Upto
    <3>3. k \in Upto(K, k)
      BY <3>1 DEF Upto
    <3>4. k \notin Upto(K, j)
      BY <3>1, <1>3 DEF Upto
    <3> QED BY <3>2, <3>3, <3>4
  <2>2. Upto(K, j) # Upto(K, k)
    BY <2>1
  <2>3. f[j] = Cardinality(Upto(K, j)) /\ f[k] = Cardinality(Upto(K, k))
    OBVIOUS
  <2> HIDE DEF f
  <2> QED BY <1>2, <2>1, <2>2, <2>3, FS_Subset
<1>4. f \in [K -> 1..Cardinality(K)]
  BY <1>2
<1>5. \A j, k \in K : f[j] = f[k] => j = k
  <2> SUFFICES ASSUME NEW j \in K, NEW k \in K, f[j] = f[k], j # k PROVE FALSE
    OBVIOUS
  <2>1. j \in Int /\ k \in Int
    OBVIOUS
  <2>2. j < k \/ k < j
    BY <2>1
  <2> HIDE DEF f
  <2> QED BY <1>3, <2>2
<1>6. f \in Injection(K, 1..Cardinality(K))
  <2> HIDE DEF f
  <2> QED BY <1>4, <1>5 DEF Injection, IsInjective
<1>7. Cardinality(1..Cardinality(K)) = Cardinality(K) /\ IsFiniteSet(1..Cardinality(K))
  BY <1>1, FS_Interval
<1>8. f \in Surjection(K, 1..Cardinality(K))
  <2> HIDE DEF f
  <2> QED BY <1>6, <1>7, FS_Injection
<1>9. \A i \in 1..Cardinality(K) : \E k \in K : f[k] = i
  <2> HIDE DEF f
  <2> QED BY <1>8 DEF Surjection
<1> QED BY <1>2, <1>5, <1>9

\* There is an i-th place for every i up to the number of places, and every place is one.
LEMMA PlaceExists ==
  ASSUME NEW n \in Nat, NEW K \in SUBSET (1..n)
  PROVE  /\ \A i \in 1..Cardinality(K) : Place(K, i) \in K
         /\ \A k \in K : \E i \in 1..Cardinality(K) : Place(K, i) = k
         /\ \A i, j \in 1..Cardinality(K) : Place(K, i) = Place(K, j) => i = j
<1>1. \A i : Place(K, i) = CHOOSE k \in K : Cardinality(Upto(K, k)) = i
  BY DEF Place, Upto
<1> DEFINE num(k) == Cardinality(Upto(K, k))
<1>2. /\ \A k \in K : num(k) \in 1..Cardinality(K)
      /\ \A j, k \in K : num(j) = num(k) => j = k
      /\ \A i \in 1..Cardinality(K) : \E k \in K : num(k) = i
  BY PlacesCounted
<1>3. \A i : Place(K, i) = CHOOSE k \in K : num(k) = i
  BY <1>1
<1> HIDE DEF num
<1>4. \A i \in 1..Cardinality(K) : Place(K, i) \in K /\ num(Place(K, i)) = i
  BY <1>2, <1>3
<1>5. \A k \in K : Place(K, num(k)) = k
  BY <1>2, <1>4
<1> QED BY <1>2, <1>4, <1>5

\* Places are counted from the first.
LEMMA PlaceGrows ==
  ASSUME NEW n \in Nat, NEW K \in SUBSET (1..n),
         NEW i \in 1..Cardinality(K), NEW j \in 1..Cardinality(K), i < j
  PROVE  Place(K, i) < Place(K, j)
<1> DEFINE num(k) == Cardinality(Upto(K, k))
<1>1. /\ \A k \in K : num(k) \in 1..Cardinality(K)
      /\ \A m \in 1..Cardinality(K) : \E k \in K : num(k) = m
  BY PlacesCounted
<1>2. \A m : Place(K, m) = CHOOSE k \in K : num(k) = m
  BY DEF Place, Upto
<1>3. \A m \in 1..Cardinality(K) : Place(K, m) \in K /\ num(Place(K, m)) = m
  <2> HIDE DEF num
  <2> QED BY <1>1, <1>2
<1>4. PICK x \in K, y \in K : /\ x = Place(K, i) /\ y = Place(K, j)
                              /\ num(x) = i /\ num(y) = j
  BY <1>3
<1>5. x \in Nat /\ y \in Nat
  OBVIOUS
<1>6. ASSUME y <= x PROVE FALSE
  <2>1. Upto(K, y) \subseteq Upto(K, x)
    <3>1. \A z \in K : z \in Nat
      OBVIOUS
    <3>2. \A z \in K : z <= y => z <= x
      BY <1>5, <1>6, <3>1
    <3> QED BY <3>2 DEF Upto
  <2>2. IsFiniteSet(Upto(K, x))
    BY PlacesFinite, FS_Subset DEF Upto
  <2>3. num(y) <= num(x)
    BY <2>1, <2>2, FS_Subset
  <2> HIDE DEF num
  <2> QED BY <1>4, <2>3
<1> QED BY <1>4, <1>5, <1>6

\* What is picked from a queue is a queue of entries at the places picked.
LEMMA PickedQueue ==
  ASSUME NEW A, NEW q \in Seq(A), NEW K \in SUBSET DOMAIN q
  PROVE  /\ Picked(q, K) \in Seq({q[k] : k \in K})
         /\ Picked(q, K) \in Seq(A)
<1>1. K \in SUBSET (1..Len(q)) /\ Len(q) \in Nat
  OBVIOUS
<1>2. IsFiniteSet(K) /\ Cardinality(K) \in Nat
  BY <1>1, PlacesFinite
<1>3. ASSUME NEW i \in 1..Cardinality(K) PROVE Place(K, i) \in K
  BY <1>1, PlaceExists
<1>4. Picked(q, K) \in [1..Cardinality(K) -> {q[k] : k \in K}]
  BY <1>3 DEF Picked
<1>5. {q[k] : k \in K} \subseteq A
  BY <1>1
<1> QED BY <1>2, <1>4, <1>5

\* An entry taken out of a queue: the others move up.
LEMMA RemoveAtQueue ==
  ASSUME NEW A, NEW s \in Seq(A), NEW m \in 1..Len(s)
  PROVE  /\ RemoveAt(s, m) \in Seq(A)
         /\ Len(RemoveAt(s, m)) = Len(s) - 1
         /\ \A k \in 1..(Len(s) - 1) : RemoveAt(s, m)[k] = IF k < m THEN s[k] ELSE s[k + 1]
<1> DEFINE a == SubSeq(s, 1, m - 1)
           b == SubSeq(s, m + 1, Len(s))
           t == RemoveAt(s, m)
<1>1. Len(s) \in Nat /\ m \in Nat /\ 1 <= m /\ m <= Len(s)
  OBVIOUS
<1>2. /\ a \in Seq(A) /\ Len(a) = m - 1
      /\ \A k \in 1..(m - 1) : a[k] = s[k]
  BY <1>1, SubSeqProperties
<1>3. /\ b \in Seq(A) /\ Len(b) = Len(s) - m
      /\ \A k \in 1..(Len(s) - m) : b[k] = s[m + k]
  BY <1>1, SubSeqProperties
<1>4. t = a \o b
  BY DEF RemoveAt
<1> HIDE DEF a, b, t
<1>5. t \in Seq(A) /\ Len(t) = Len(s) - 1
  BY <1>4, <1>1, <1>2, <1>3
<1>6. ASSUME NEW k \in 1..Len(t)
      PROVE  t[k] = IF k < m THEN s[k] ELSE s[k + 1]
  <2>1. t[k] = IF k <= Len(a) THEN a[k] ELSE b[k - Len(a)]
    BY <1>4, <1>1, <1>2, <1>3, <1>5, ConcatProperties
  <2>2. CASE k < m
    BY <2>1, <2>2, <1>1, <1>2
  <2>3. CASE ~(k < m)
    <3>1. k - (m - 1) \in 1..(Len(s) - m) /\ m + (k - (m - 1)) = k + 1
      BY <2>3, <1>1, <1>5
    <3> QED BY <2>1, <2>3, <3>1, <1>1, <1>2, <1>3
  <2> QED BY <2>2, <2>3
<1> QED BY <1>5, <1>6 DEF t

\* The first entry that is e taken out: a queue of entries that were there.
LEMMA RemoveFirstQueue ==
  ASSUME NEW A, NEW s \in Seq(A), NEW e
  PROVE  /\ RemoveFirst(s, e) \in Seq(A)
         /\ \A k \in DOMAIN RemoveFirst(s, e) :
               \E j \in DOMAIN s : RemoveFirst(s, e)[k] = s[j]
<1> DEFINE I == {k \in 1..Len(s) : s[k] = e}
           t == RemoveFirst(s, e)
<1>1. CASE I = {}
  <2>1. t = s
    BY <1>1 DEF RemoveFirst
  <2> QED BY <2>1
<1>2. CASE I # {}
  <2>1. I \in SUBSET Nat
    OBVIOUS
  <2>2. Min(I) \in I
    BY <2>1, <1>2, LeastExists DEF Min
  <2>3. t = RemoveAt(s, Min(I))
    BY <1>2 DEF RemoveFirst, SelectInSeq
  <2> DEFINE m == Min(I)
  <2>4. m \in 1..Len(s) /\ Len(s) \in Nat
    BY <2>2
  <2> HIDE DEF m, t
  <2>5. /\ t \in Seq(A) /\ Len(t) = Len(s) - 1
        /\ \A k \in 1..(Len(s) - 1) : t[k] = IF k < m THEN s[k] ELSE s[k + 1]
    BY <2>3, <2>4, RemoveAtQueue DEF m
  <2>6. ASSUME NEW k \in DOMAIN t PROVE \E j \in DOMAIN s : t[k] = s[j]
    <3>1. k \in 1..(Len(s) - 1) /\ DOMAIN s = 1..Len(s)
      BY <2>5
    <3>2. (IF k < m THEN k ELSE k + 1) \in DOMAIN s
      BY <2>4, <3>1
    <3> QED BY <2>5, <3>1, <3>2
  <2> QED BY <2>5, <2>6 DEF t
<1> QED BY <1>1, <1>2

\* What a queue without the first e holds: every other entry, and e itself only if it
\* held it twice.
LEMMA RemoveFirstHolds ==
  ASSUME NEW A, NEW s \in Seq(A), NEW e, NEW x
  PROVE  /\ x # e => (x \in Range(RemoveFirst(s, e)) <=> x \in Range(s))
         /\ (\A j, k \in DOMAIN s : s[j] = x /\ s[k] = x => j = k)
              => /\ x = e => x \notin Range(RemoveFirst(s, e))
                 /\ \A j, k \in DOMAIN RemoveFirst(s, e) :
                       RemoveFirst(s, e)[j] = x /\ RemoveFirst(s, e)[k] = x => j = k
<1> DEFINE I == {k \in 1..Len(s) : s[k] = e}
           t == RemoveFirst(s, e)
<1>1. DOMAIN s = 1..Len(s) /\ Len(s) \in Nat
  OBVIOUS
<1>2. CASE I = {}
  <2>1. t = s
    BY <1>2 DEF RemoveFirst
  <2> HIDE DEF t
  <2> QED BY <1>1, <1>2, <2>1 DEF t, Range
<1>3. CASE I # {}
  <2>1. I \in SUBSET Nat
    OBVIOUS
  <2>2. Min(I) \in I
    BY <2>1, <1>3, LeastExists DEF Min
  <2>3. t = RemoveAt(s, Min(I))
    BY <1>3 DEF RemoveFirst, SelectInSeq
  <2> DEFINE m == Min(I)
             to(k) == IF k < m THEN k ELSE k + 1
  <2>4. m \in 1..Len(s) /\ s[m] = e
    BY <2>2
  <2> HIDE DEF m, t, I
  <2>5. /\ t \in Seq(A) /\ Len(t) = Len(s) - 1
        /\ \A k \in 1..(Len(s) - 1) : t[k] = IF k < m THEN s[k] ELSE s[k + 1]
    BY <2>3, <2>4, RemoveAtQueue DEF m
  <2>6. DOMAIN t = 1..(Len(s) - 1)
    BY <2>5
  <2>7. ASSUME NEW k \in DOMAIN t
        PROVE  to(k) \in DOMAIN s /\ to(k) # m /\ t[k] = s[to(k)]
    BY <1>1, <2>4, <2>5, <2>6
  <2>8. ASSUME NEW j \in DOMAIN t, NEW k \in DOMAIN t, to(j) = to(k)
        PROVE  j = k
    BY <1>1, <2>4, <2>6, <2>8
  <2>9. ASSUME NEW j \in DOMAIN s, j # m
        PROVE  \E k \in DOMAIN t : t[k] = s[j]
    <3>1. CASE j < m
      <4>1. j \in 1..(Len(s) - 1)
        BY <1>1, <2>4, <3>1
      <4> QED BY <2>5, <2>6, <3>1, <4>1
    <3>2. CASE ~(j < m)
      <4>1. j - 1 \in 1..(Len(s) - 1) /\ ~(j - 1 < m) /\ (j - 1) + 1 = j
        BY <1>1, <2>4, <2>9, <3>2
      <4> QED BY <2>5, <2>6, <4>1
    <3> QED BY <3>1, <3>2
  <2>10. ASSUME x # e PROVE x \in Range(t) <=> x \in Range(s)
    <3>1. ASSUME NEW j \in DOMAIN s, s[j] = x PROVE x \in Range(t)
      <4>1. j # m
        BY <2>4, <2>10, <3>1
      <4> QED BY <2>9, <3>1, <4>1 DEF Range
    <3>2. ASSUME NEW k \in DOMAIN t, t[k] = x PROVE x \in Range(s)
      <4> HIDE DEF to
      <4> QED BY <2>7, <3>2 DEF Range
    <3> QED BY <3>1, <3>2 DEF Range
  <2>11. ASSUME \A j, k \in DOMAIN s : s[j] = x /\ s[k] = x => j = k
         PROVE  /\ x = e => x \notin Range(t)
                /\ \A j, k \in DOMAIN t : t[j] = x /\ t[k] = x => j = k
    <3> HIDE DEF to
    <3>1. ASSUME x = e, NEW k \in DOMAIN t PROVE t[k] # x
      BY <1>1, <2>4, <2>7, <2>11, <3>1
    <3>2. ASSUME NEW j \in DOMAIN t, NEW k \in DOMAIN t, t[j] = x, t[k] = x PROVE j = k
      BY <2>7, <2>8, <2>11, <3>2
    <3> QED BY <3>1, <3>2 DEF Range
  <2> QED BY <2>10, <2>11 DEF t
<1> QED BY <1>2, <1>3

\* A request that joins a queue, and one that leaves it.
LEMMA ContainsSteps ==
  ASSUME NEW A, NEW q \in Seq(A), NEW w \in A, NEW x
  PROVE  /\ Contains(Append(q, w), x) <=> Contains(q, x) \/ x = w
         /\ q # <<>> => (Contains(q, x) <=> Head(q) = x \/ Contains(Tail(q), x))
<1> DEFINE n == Len(q)
<1>1. n \in Nat /\ DOMAIN q = 1..n
  OBVIOUS
<1>2. Contains(Append(q, w), x) <=> Contains(q, x) \/ x = w
  <2> DEFINE r == Append(q, w)
  <2>1. Len(r) = n + 1 /\ r[n + 1] = w /\ \A k \in 1..n : r[k] = q[k]
    OBVIOUS
  <2> HIDE DEF r, n
  <2>2. \A k \in 1..(n + 1) : k \in 1..n \/ k = n + 1
    BY <1>1
  <2>3. n + 1 \in 1..(n + 1) /\ 1..n \subseteq 1..(n + 1)
    BY <1>1
  <2>4. Contains(r, x) <=> \E k \in 1..(n + 1) : r[k] = x
    BY <2>1 DEF Contains
  <2>5. Contains(q, x) <=> \E k \in 1..n : q[k] = x
    BY DEF Contains, n
  <2> QED BY <2>1, <2>2, <2>3, <2>4, <2>5 DEF r
<1>3. ASSUME q # <<>> PROVE Contains(q, x) <=> Head(q) = x \/ Contains(Tail(q), x)
  <2> DEFINE t == Tail(q)
  <2>1. /\ n \in Nat \ {0} /\ Len(t) = n - 1 /\ Head(q) = q[1]
        /\ \A k \in 1..(n - 1) : t[k] = q[k + 1]
    BY <1>3, HeadTailProperties
  <2>2. Contains(t, x) <=> \E k \in 1..(n - 1) : t[k] = x
    BY <2>1 DEF Contains
  <2>3. Contains(q, x) <=> \E k \in 1..n : q[k] = x
    BY DEF Contains
  <2> HIDE DEF t, n
  <2>4. \A k \in 1..n : k = 1 \/ (k - 1 \in 1..(n - 1) /\ (k - 1) + 1 = k)
    BY <2>1
  <2>5. 1 \in 1..n /\ \A k \in 1..(n - 1) : k + 1 \in 1..n
    BY <2>1
  <2> QED BY <2>1, <2>2, <2>3, <2>4, <2>5 DEF t
<1> QED BY <1>2, <1>3
-----------------------------------------------------------------------------
(***************************************************************************)
(* The callbacks of a childAdded/childRemoved listener in a queue of       *)
(* callbacks: what the last of them says is what the queue leaves behind.  *)
(***************************************************************************)

\* The places of e that announce or withdraw child i
Tellings(e, i) == {k \in DOMAIN e : e[k].type \in {"added", "removed"} /\ e[k].id = i}

\* The last of them, if there is one, announces i if there is TRUE, else withdraws it
LastTells(e, i, there) ==
    \A k \in Tellings(e, i) :
        \/ e[k].type = "added" <=> there
        \/ \E j \in Tellings(e, i) : j > k

\* Callbacks s turn a queue that leaves old behind into one that leaves new
Retold(s, i, old, new) ==
    IF Tellings(s, i) = {} THEN old <=> new ELSE LastTells(s, i, new)

\* The greatest place is the one no other exceeds.
LEMMA MaxIs ==
  ASSUME NEW P \in SUBSET Nat, NEW m \in P, \A j \in P : j <= m
  PROVE  Max(P) = m
<1>1. m \in P /\ \A y \in P : m >= y
  OBVIOUS
<1>2. Max(P) \in P /\ \A y \in P : Max(P) >= y
  BY <1>1 DEF Max
<1>3. Max(P) >= m /\ m >= Max(P) /\ m \in Nat /\ Max(P) \in Nat
  BY <1>1, <1>2
<1> QED BY <1>3

\* The oldest callback is handled: what the others say is as before.
LEMMA TellingsTail ==
  ASSUME NEW A, NEW e \in Seq(A), e # <<>>, NEW i, NEW there, LastTells(e, i, there)
  PROVE  /\ LastTells(Tail(e), i, there)
         /\ Tellings(Tail(e), i) = {} =>
              IF Head(e).type \in {"added", "removed"} /\ Head(e).id = i
                THEN Head(e).type = "added" <=> there
                ELSE Tellings(e, i) = {}
         /\ Tellings(e, i) = {} => Tellings(Tail(e), i) = {}
<1>1. /\ Len(e) \in Nat \ {0} /\ DOMAIN e = 1..Len(e)
      /\ Tail(e) \in Seq(A) /\ Len(Tail(e)) = Len(e) - 1
      /\ Head(e) = e[1]
  BY HeadTailProperties
<1>2. ASSUME NEW k \in DOMAIN Tail(e)
      PROVE  k \in Nat \ {0} /\ k + 1 \in DOMAIN e /\ Tail(e)[k] = e[k + 1]
  BY <1>1
<1>3. ASSUME NEW k \in DOMAIN e, k # 1
      PROVE  k - 1 \in DOMAIN Tail(e) /\ Tail(e)[k - 1] = e[k]
  <2>1. k - 1 \in DOMAIN Tail(e) /\ (k - 1) + 1 = k
    BY <1>1, <1>3
  <2> QED BY <2>1, <1>2
<1> DEFINE T == Tellings(e, i)
           U == Tellings(Tail(e), i)
<1>4. ASSUME NEW k \in U PROVE k \in Nat \ {0} /\ k + 1 \in T /\ Tail(e)[k] = e[k + 1]
  BY <1>2 DEF Tellings
<1>5. ASSUME NEW k \in T, k # 1 PROVE k \in Nat \ {0} /\ k - 1 \in U
  BY <1>1, <1>3, <1>5 DEF Tellings
<1>6. LastTells(Tail(e), i, there)
  <2>1. ASSUME NEW k \in U, ~(Tail(e)[k].type = "added" <=> there)
        PROVE  \E j \in U : j > k
    <3>1. k \in Nat \ {0} /\ k + 1 \in T /\ ~(e[k + 1].type = "added" <=> there)
      BY <1>4, <2>1
    <3>2. PICK j \in T : j > k + 1
      BY <3>1 DEF LastTells
    <3>3. j \in Nat /\ j # 1
      BY <3>1, <3>2, <1>1 DEF Tellings
    <3>4. j - 1 \in U /\ j - 1 > k
      BY <3>1, <3>2, <3>3, <1>5
    <3> QED BY <3>4
  <2> QED BY <2>1 DEF LastTells
<1>7. ASSUME U = {} PROVE T \subseteq {1}
  BY <1>5, <1>7
<1>8. ASSUME U = {}, Head(e).type \in {"added", "removed"}, Head(e).id = i
      PROVE  Head(e).type = "added" <=> there
  <2>1. 1 \in T
    BY <1>1, <1>8 DEF Tellings
  <2>2. ~ \E j \in T : j > 1
    BY <1>7, <1>8
  <2> QED BY <2>1, <2>2, <1>1 DEF LastTells
<1>9. ASSUME U = {}, ~(Head(e).type \in {"added", "removed"} /\ Head(e).id = i)
      PROVE  T = {}
  <2>1. 1 \notin T
    BY <1>1, <1>9 DEF Tellings
  <2> QED BY <2>1, <1>7, <1>9
<1>10. ASSUME T = {} PROVE U = {}
  BY <1>4, <1>10
<1> QED BY <1>6, <1>8, <1>9, <1>10

\* Callbacks join a queue: their last word counts, if they say anything.
LEMMA TellingsJoined ==
  ASSUME NEW A, NEW e \in Seq(A), NEW s \in Seq(A), NEW i
  PROVE  /\ Tellings(e \o s, i) = {} <=> Tellings(e, i) = {} /\ Tellings(s, i) = {}
         /\ \A old, new : LastTells(e, i, old) /\ Retold(s, i, old, new)
                            => LastTells(e \o s, i, new)
<1> DEFINE T == Tellings(e, i)
           S == Tellings(s, i)
           B == Tellings(e \o s, i)
           n == Len(e)
<1>1. /\ n \in Nat /\ Len(s) \in Nat /\ e \o s \in Seq(A) /\ Len(e \o s) = n + Len(s)
      /\ DOMAIN e = 1..n /\ DOMAIN s = 1..Len(s) /\ DOMAIN (e \o s) = 1..(n + Len(s))
      /\ \A k \in 1..n : (e \o s)[k] = e[k]
      /\ \A k \in 1..Len(s) : (e \o s)[k + n] = s[k]
  OBVIOUS
<1>2. ASSUME NEW k \in T PROVE k \in 1..n /\ k \in B /\ (e \o s)[k] = e[k]
  BY <1>1 DEF Tellings
<1>3. ASSUME NEW k \in S PROVE k \in 1..Len(s) /\ k + n \in B /\ (e \o s)[k + n] = s[k]
  BY <1>1 DEF Tellings
<1>4. ASSUME NEW k \in B
      PROVE  \/ k \in T /\ (e \o s)[k] = e[k]
             \/ k - n \in S /\ (e \o s)[k] = s[k - n]
  <2>1. k \in 1..(n + Len(s)) /\ (e \o s)[k].type \in {"added", "removed"}
        /\ (e \o s)[k].id = i
    BY <1>1 DEF Tellings
  <2>2. CASE k <= n
    BY <2>1, <2>2, <1>1 DEF Tellings
  <2>3. CASE ~(k <= n)
    <3>1. k - n \in 1..Len(s) /\ (k - n) + n = k
      BY <2>1, <2>3, <1>1
    <3> QED BY <2>1, <3>1, <1>1 DEF Tellings
  <2> QED BY <2>2, <2>3
<1>5. B = {} <=> T = {} /\ S = {}
  BY <1>2, <1>3, <1>4
<1>6. ASSUME NEW old, NEW new, LastTells(e, i, old), Retold(s, i, old, new)
      PROVE  LastTells(e \o s, i, new)
  <2>1. CASE S = {}
    <3>1. old <=> new
      BY <2>1, <1>6 DEF Retold
    <3>2. ASSUME NEW k \in B, ~((e \o s)[k].type = "added" <=> new)
          PROVE  \E j \in B : j > k
      <4>1. k \in T /\ ~(e[k].type = "added" <=> old)
        BY <3>1, <3>2, <2>1, <1>4
      <4>2. PICK j \in T : j > k
        BY <4>1, <1>6 DEF LastTells
      <4> QED BY <4>2, <1>2
    <3> QED BY <3>2 DEF LastTells
  <2>2. CASE S # {}
    <3>1. LastTells(s, i, new)
      BY <2>2, <1>6 DEF Retold
    <3>2. ASSUME NEW k \in B, ~((e \o s)[k].type = "added" <=> new)
          PROVE  \E j \in B : j > k
      <4>1. CASE k \in T
        <5>1. PICK j \in S : TRUE
          BY <2>2
        <5>2. j + n \in B /\ j + n > k
          BY <1>1, <1>2, <1>3, <4>1
        <5> QED BY <5>2
      <4>2. CASE k - n \in S /\ (e \o s)[k] = s[k - n]
        <5>1. ~(s[k - n].type = "added" <=> new)
          BY <3>2, <4>2
        <5>2. PICK j \in S : j > k - n
          BY <3>1, <4>2, <5>1 DEF LastTells
        <5>3. j + n \in B /\ j + n > k
          <6>1. k \in 1..(n + Len(s)) /\ j \in 1..Len(s)
            BY <1>1, <1>3 DEF Tellings
          <6> QED BY <6>1, <5>2, <1>1, <1>3
        <5> QED BY <5>3
      <4> QED BY <4>1, <4>2, <1>4
    <3> QED BY <3>2 DEF LastTells
  <2> QED BY <2>1, <2>2
<1> QED BY <1>5, <1>6

\* A set of children announced in some order: each is announced, and no other.
LEMMA Announced ==
  ASSUME NEW S, IsFiniteSet(S), NEW order \in SetToSeqs(S), NEW s, NEW i,
         DOMAIN s = DOMAIN order,
         \A k \in DOMAIN order : s[k].type = "added" /\ s[k].id = order[k]
  PROVE  /\ i \in S => Tellings(s, i) # {}
         /\ i \notin S => Tellings(s, i) = {}
         /\ LastTells(s, i, TRUE)
<1>1. /\ order \in Seq(S) /\ DOMAIN order = 1..Len(order)
      /\ \A x \in S : \E k \in DOMAIN order : order[k] = x
  BY OrderLists
<1>2. \A k \in DOMAIN order : order[k] \in S
  BY <1>1
<1> QED BY <1>1, <1>2 DEF Tellings, LastTells
-----------------------------------------------------------------------------
(***************************************************************************)
(* How many entries of a queue are of a kind.                              *)
(***************************************************************************)
Places(q, X)  == {k \in DOMAIN q : q[k] \in X}
HowMany(q, X) == Cardinality(Places(q, X))

\* Sets that correspond one to one have as many elements.
LEMMA SameNumber ==
  ASSUME NEW S, IsFiniteSet(S), NEW T, NEW f \in [S -> T],
         \A x, y \in S : f[x] = f[y] => x = y,
         \A t \in T : \E x \in S : f[x] = t
  PROVE  IsFiniteSet(T) /\ Cardinality(T) = Cardinality(S)
<1>1. f \in Surjection(S, T) /\ f \in Injection(S, T)
  BY DEF Surjection, Injection, IsInjective
<1> QED BY <1>1, FS_Surjection

\* A queue has finitely many entries of a kind; it may have none.
LEMMA HowManyType ==
  ASSUME NEW A, NEW q \in Seq(A), NEW X
  PROVE  /\ IsFiniteSet(Places(q, X)) /\ HowMany(q, X) \in Nat
         /\ HowMany(q, X) = 0 <=> \A k \in DOMAIN q : q[k] \notin X
<1>1. Places(q, X) \in SUBSET (1..Len(q)) /\ Len(q) \in Nat
  BY DEF Places
<1>2. IsFiniteSet(Places(q, X)) /\ HowMany(q, X) \in Nat
  BY <1>1, PlacesFinite DEF HowMany
<1>3. HowMany(q, X) = 0 <=> Places(q, X) = {}
  BY <1>2, FS_EmptySet DEF HowMany
<1> QED BY <1>2, <1>3 DEF Places

\* Without its head a queue has one less of the head's kind.
LEMMA HowManyTail ==
  ASSUME NEW A, NEW q \in Seq(A), q # <<>>, NEW X
  PROVE  HowMany(q, X) = HowMany(Tail(q), X) + (IF Head(q) \in X THEN 1 ELSE 0)
<1> DEFINE T == Places(Tail(q), X)
           U == Places(q, X) \ {1}
           f == [k \in T |-> k + 1]
<1>1. /\ Len(q) \in Nat \ {0} /\ DOMAIN q = 1..Len(q) /\ Head(q) = q[1]
      /\ Tail(q) \in Seq(A) /\ DOMAIN Tail(q) = 1..(Len(q) - 1)
      /\ \A k \in 1..(Len(q) - 1) : Tail(q)[k] = q[k + 1]
  BY HeadTailProperties
<1>2. ASSUME NEW k \in T PROVE k \in 1..(Len(q) - 1) /\ k + 1 \in U
  BY <1>1 DEF Places
<1>3. ASSUME NEW k \in U PROVE k - 1 \in T /\ (k - 1) + 1 = k
  <2>1. k \in 1..Len(q) /\ k # 1 /\ q[k] \in X
    BY <1>1 DEF Places
  <2>2. k - 1 \in 1..(Len(q) - 1) /\ (k - 1) + 1 = k
    BY <2>1, <1>1
  <2>3. Tail(q)[k - 1] = q[k]
    BY <2>2, <1>1
  <2> QED BY <2>1, <2>2, <2>3, <1>1 DEF Places
<1>4. f \in [T -> U]
  BY <1>2
<1>5. \A x, y \in T : f[x] = f[y] => x = y
  BY <1>2
<1>6. \A t \in U : \E x \in T : f[x] = t
  BY <1>3
<1>7. IsFiniteSet(T)
  BY <1>1, HowManyType
<1>8. IsFiniteSet(U) /\ Cardinality(U) = Cardinality(T)
  <2> HIDE DEF T, U, f
  <2> QED BY <1>4, <1>5, <1>6, <1>7, SameNumber
<1>9. Places(q, X) = IF Head(q) \in X THEN U \cup {1} ELSE U
  BY <1>1 DEF Places
<1>10. Cardinality(T) \in Nat /\ 1 \notin U
  BY <1>7, FS_CardinalityType
<1>11. HowMany(q, X) = Cardinality(Places(q, X)) /\ HowMany(Tail(q), X) = Cardinality(T)
  BY DEF HowMany
<1> HIDE DEF U, T, f
<1>12. Cardinality(U \cup {1}) = Cardinality(U) + 1
  BY <1>8, <1>10, FS_AddElement
<1> QED BY <1>8, <1>9, <1>10, <1>11, <1>12

\* Two queues together have as many as both.
LEMMA HowManyJoined ==
  ASSUME NEW A, NEW q \in Seq(A), NEW r \in Seq(A), NEW X
  PROVE  HowMany(q \o r, X) = HowMany(q, X) + HowMany(r, X)
<1> DEFINE n == Len(q)
           T == Places(r, X)
           U == {k \in Places(q \o r, X) : k > n}
           f == [k \in T |-> k + n]
<1>1. /\ n \in Nat /\ Len(r) \in Nat /\ q \o r \in Seq(A)
      /\ DOMAIN q = 1..n /\ DOMAIN r = 1..Len(r) /\ DOMAIN (q \o r) = 1..(n + Len(r))
      /\ \A k \in 1..n : (q \o r)[k] = q[k]
      /\ \A k \in 1..Len(r) : (q \o r)[k + n] = r[k]
  OBVIOUS
<1>2. ASSUME NEW k \in T PROVE k \in 1..Len(r) /\ k + n \in U
  BY <1>1 DEF Places
<1>3. ASSUME NEW k \in U PROVE k - n \in T /\ (k - n) + n = k
  <2>1. k \in 1..(n + Len(r)) /\ k > n /\ (q \o r)[k] \in X
    BY <1>1 DEF Places
  <2>2. k - n \in 1..Len(r) /\ (k - n) + n = k
    BY <2>1, <1>1
  <2> QED BY <2>1, <2>2, <1>1 DEF Places
<1>4. f \in [T -> U]
  BY <1>2
<1>5. \A x, y \in T : f[x] = f[y] => x = y
  BY <1>1, <1>2
<1>6. \A t \in U : \E x \in T : f[x] = t
  BY <1>3
<1>7. IsFiniteSet(T) /\ Cardinality(T) \in Nat
  BY HowManyType DEF HowMany
<1>8. IsFiniteSet(U) /\ Cardinality(U) = Cardinality(T)
  <2> HIDE DEF T, U, f
  <2> QED BY <1>4, <1>5, <1>6, <1>7, SameNumber
<1>9. Places(q \o r, X) = Places(q, X) \cup U
  <2>1. ASSUME NEW k \in Places(q \o r, X), ~(k > n) PROVE k \in Places(q, X)
    BY <1>1, <2>1 DEF Places
  <2>2. ASSUME NEW k \in Places(q, X) PROVE k \in Places(q \o r, X)
    BY <1>1 DEF Places
  <2> QED BY <2>1, <2>2
<1>10. Places(q, X) \cap U = {}
  BY <1>1 DEF Places
<1>11. IsFiniteSet(Places(q, X)) /\ Cardinality(Places(q, X)) \in Nat
  BY HowManyType DEF HowMany
<1> HIDE DEF U, T
<1>12. Cardinality(Places(q, X) \cup U)
          = Cardinality(Places(q, X)) + Cardinality(U) - Cardinality({})
  BY <1>8, <1>10, <1>11, FS_Union
<1> QED BY <1>7, <1>8, <1>9, <1>11, <1>12, FS_EmptySet DEF HowMany, T

\* A queue of one entry, of its kind or not; an empty one.
LEMMA HowManyOne ==
  ASSUME NEW A, NEW e \in A, NEW X
  PROVE  /\ HowMany(<<>>, X) = 0
         /\ HowMany(<<e>>, X) = IF e \in X THEN 1 ELSE 0
<1> DEFINE one == <<e>>
<1>1. one \in Seq(A) /\ one # <<>> /\ Head(one) = e /\ Tail(one) = <<>>
  OBVIOUS
<1>2. HowMany(<<>>, X) = 0
  BY FS_EmptySet DEF HowMany, Places
<1> HIDE DEF one
<1>3. HowMany(one, X) = HowMany(<<>>, X) + (IF e \in X THEN 1 ELSE 0)
  BY <1>1, HowManyTail
<1>4. HowMany(one, X) = IF e \in X THEN 1 ELSE 0
  BY <1>2, <1>3
<1> QED BY <1>2, <1>4 DEF one

\* An entry joins a queue.
LEMMA HowManyAppend ==
  ASSUME NEW A, NEW q \in Seq(A), NEW e \in A, NEW X
  PROVE  HowMany(Append(q, e), X) = HowMany(q, X) + (IF e \in X THEN 1 ELSE 0)
<1> DEFINE one == <<e>>
<1>1. one \in Seq(A) /\ Append(q, e) = q \o one
  BY AppendIsConcat
<1>2. HowMany(one, X) = IF e \in X THEN 1 ELSE 0
  BY HowManyOne
<1> HIDE DEF one
<1> QED BY <1>1, <1>2, HowManyJoined

\* Two entries.
LEMMA HowManyTwo ==
  ASSUME NEW A, NEW e \in A, NEW f \in A, NEW X
  PROVE  HowMany(<<e, f>>, X) = (IF e \in X THEN 1 ELSE 0) + (IF f \in X THEN 1 ELSE 0)
<1> DEFINE two == <<e, f>>
           one == <<f>>
<1>1. two \in Seq(A) /\ two # <<>> /\ Head(two) = e
  OBVIOUS
<1>2. Tail(two) = one
  OBVIOUS
<1>3. HowMany(one, X) = IF f \in X THEN 1 ELSE 0
  BY HowManyOne
<1> HIDE DEF one, two
<1>4. HowMany(two, X) = HowMany(one, X) + (IF e \in X THEN 1 ELSE 0)
  BY <1>1, <1>2, HowManyTail
<1>5. HowMany(two, X) = (IF e \in X THEN 1 ELSE 0) + (IF f \in X THEN 1 ELSE 0)
  BY <1>3, <1>4
<1> QED BY <1>5 DEF two

-----------------------------------------------------------------------------
(***************************************************************************)
(* Queues of at most two entries, written out.                             *)
(***************************************************************************)

\* Two entries are a pair.
LEMMA PairMade ==
  ASSUME NEW a, NEW b
  PROVE  <<a>> \o <<b>> = <<a, b>> /\ Append(<<a>>, b) = <<a, b>>
<1> DEFINE A == {a, b}
           s == <<a>>
           r == <<b>>
           c == s \o r
           p == <<a, b>>
<1>1. s \in Seq(A) /\ r \in Seq(A) /\ p \in Seq(A) /\ b \in A
  OBVIOUS
<1>2. /\ Len(s) = 1 /\ s[1] = a /\ Len(r) = 1 /\ r[1] = b
      /\ Len(p) = 2 /\ p[1] = a /\ p[2] = b
  OBVIOUS
<1>3. Append(s, b) = c
  BY <1>1, AppendIsConcat
<1> HIDE DEF A, s, r, p
<1>4. /\ c \in Seq(A) /\ Len(c) = Len(s) + Len(r)
      /\ \A i \in 1 .. Len(s) + Len(r) : c[i] = IF i <= Len(s) THEN s[i] ELSE r[i - Len(s)]
  BY <1>1, ConcatProperties
<1> HIDE DEF c
<1>5. /\ \A i \in 1 .. 2 : c[i] = IF i <= 1 THEN s[i] ELSE r[i - 1]
      /\ Len(c) = 2
  BY <1>2, <1>4
<1>6. c[1] = s[1] /\ c[2] = r[1]
  BY <1>5
<1>7. \A k \in 1 .. Len(c) : c[k] = p[k]
  <2>1. 1 .. Len(c) = {1, 2}
    BY <1>5
  <2> QED BY <1>2, <1>6, <2>1
<1>8. c = p
  BY <1>1, <1>2, <1>4, <1>5, <1>7, SeqEqual
<1> QED BY <1>3, <1>8 DEF c, p, s, r

\* The head, the rest and the entries of a short queue, and what makes one.
LEMMA Short ==
  ASSUME NEW a, NEW b
  PROVE  /\ <<a>> # <<>> /\ Head(<<a>>) = a /\ Tail(<<a>>) = <<>>
         /\ Len(<<a>>) = 1 /\ DOMAIN <<a>> = {1} /\ <<a>>[1] = a
         /\ <<a, b>> # <<>> /\ Head(<<a, b>>) = a /\ Tail(<<a, b>>) = <<b>>
         /\ Len(<<a, b>>) = 2 /\ DOMAIN <<a, b>> = {1, 2}
         /\ <<a, b>>[1] = a /\ <<a, b>>[2] = b
         /\ <<>> \o <<a>> = <<a>> /\ <<>> \o <<a, b>> = <<a, b>>
         /\ Append(<<>>, a) = <<a>> /\ Append(<<a>>, b) = <<a, b>>
         /\ <<a>> \o <<b>> = <<a, b>>
<1> DEFINE A == {a, b}
           s == <<a>>
           p == <<a, b>>
<1>1. s \in Seq(A) /\ p \in Seq(A) /\ <<>> \in Seq(A) /\ a \in A
  OBVIOUS
<1>2. /\ s # <<>> /\ Head(s) = a /\ Tail(s) = <<>> /\ Len(s) = 1 /\ s[1] = a
      /\ p # <<>> /\ Head(p) = a /\ Tail(p) = <<b>> /\ Len(p) = 2 /\ p[1] = a /\ p[2] = b
  OBVIOUS
<1>3. DOMAIN s = {1} /\ DOMAIN p = {1, 2}
  OBVIOUS
<1>4. <<>> \o s = s /\ <<>> \o p = p
  <2> HIDE DEF A, s, p
  <2> QED BY <1>1, ConcatEmptySeq
<1>5. Append(<<>>, a) = s
  <2>1. Append(<<>>, a) = <<>> \o <<a>>
    <3> HIDE DEF A
    <3> QED BY <1>1, AppendIsConcat
  <2> QED BY <1>4, <2>1
<1> QED BY <1>2, <1>3, <1>4, <1>5, PairMade

\* One answer, or two that are the same.
LEMMA ShortAlike ==
  ASSUME NEW a
  PROVE  /\ [k \in 1 .. 0 |-> a] = <<>> /\ [k \in 1 .. 1 |-> a] = <<a>>
         /\ [k \in 1 .. 2 |-> a] = <<a, a>>
OBVIOUS

\* What a queue of up to two entries contains.
LEMMA ShortContains ==
  ASSUME NEW a, NEW b, NEW x
  PROVE  /\ ~ Contains(<<>>, x)
         /\ Contains(<<a>>, x) <=> x = a
         /\ Contains(<<a, b>>, x) <=> x \in {a, b}
BY Short DEF Contains

\* No place picks nothing.
LEMMA NonePicked == ASSUME NEW q PROVE Picked(q, {}) = <<>>
<1>1. Cardinality({}) = 0
  BY FS_EmptySet
<1> QED BY <1>1 DEF Picked

\* The only entry removed.
LEMMA OneRemoved == ASSUME NEW a PROVE RemoveAt(<<a>>, 1) = <<>>
<1> DEFINE A == {a}
           s == <<a>>
<1>1. s \in Seq(A) /\ 1 \in 1 .. Len(s) /\ Len(s) = 1
  OBVIOUS
<1> HIDE DEF s, A
<1>2. RemoveAt(s, 1) \in Seq(A) /\ Len(RemoveAt(s, 1)) = 0
  BY <1>1, RemoveAtQueue
<1>3. RemoveAt(s, 1) = <<>>
  BY <1>2, EmptySeq
<1> QED BY <1>3 DEF s
-----------------------------------------------------------------------------
(***************************************************************************)
(* What the last word is: every entry of Y in a queue has one of X behind  *)
(* it.                                                                     *)
(***************************************************************************)
LastOf(e, X, Y) == \A k \in Places(e, Y) : \E j \in Places(e, X) : j > k

\* The places in the rest of a queue are those of the queue, but one less.
LEMMA PlacesTail ==
  ASSUME NEW A, NEW e \in Seq(A), e # <<>>, NEW X
  PROVE  /\ \A k \in Places(Tail(e), X) : k \in Nat \ {0} /\ k + 1 \in Places(e, X)
         /\ \A k \in Places(e, X) : /\ k \in Nat \ {0}
                                    /\ k # 1 => k - 1 \in Places(Tail(e), X)
         /\ 1 \in Places(e, X) <=> Head(e) \in X
<1>1. /\ Len(e) \in Nat \ {0} /\ DOMAIN e = 1 .. Len(e) /\ Head(e) = e[1]
      /\ Len(Tail(e)) = Len(e) - 1 /\ DOMAIN Tail(e) = 1 .. Len(Tail(e))
      /\ \A k \in 1 .. Len(Tail(e)) : Tail(e)[k] = e[k + 1]
  BY HeadTailProperties
<1>2. ASSUME NEW k \in Places(Tail(e), X) PROVE k \in Nat \ {0} /\ k + 1 \in Places(e, X)
  BY <1>1 DEF Places
<1>3. ASSUME NEW k \in Places(e, X), k # 1 PROVE k - 1 \in Places(Tail(e), X)
  <2>1. k - 1 \in 1 .. Len(Tail(e)) /\ (k - 1) + 1 = k
    BY <1>1, <1>3 DEF Places
  <2>2. Tail(e)[k - 1] = e[k]
    BY <1>1, <2>1
  <2> QED BY <1>1, <2>1, <2>2 DEF Places
<1>4. \A k \in Places(e, X) : k \in Nat \ {0}
  BY <1>1 DEF Places
<1> QED BY <1>1, <1>2, <1>3, <1>4 DEF Places

\* The oldest entry is handled.
LEMMA LastOfTail ==
  ASSUME NEW A, NEW e \in Seq(A), e # <<>>, NEW X, NEW Y
  PROVE  /\ LastOf(e, X, Y) => LastOf(Tail(e), X, Y)
         /\ LastOf(e, X, Y) /\ Head(e) \in Y => Places(Tail(e), X) # {}
         /\ Places(e, X) # {} /\ Head(e) \notin X => Places(Tail(e), X) # {}
         /\ Places(e, X) = {} => Places(Tail(e), X) = {}
<1>1. /\ \A k \in Places(Tail(e), X) : k \in Nat \ {0} /\ k + 1 \in Places(e, X)
      /\ \A k \in Places(e, X) : /\ k \in Nat \ {0}
                                 /\ k # 1 => k - 1 \in Places(Tail(e), X)
      /\ 1 \in Places(e, X) <=> Head(e) \in X
  BY PlacesTail
<1>2. /\ \A k \in Places(Tail(e), Y) : k \in Nat \ {0} /\ k + 1 \in Places(e, Y)
      /\ 1 \in Places(e, Y) <=> Head(e) \in Y
  BY PlacesTail
<1>3. ASSUME LastOf(e, X, Y), NEW k \in Places(Tail(e), Y)
      PROVE  \E j \in Places(Tail(e), X) : j > k
  <2>1. PICK j \in Places(e, X) : j > k + 1
    BY <1>2, <1>3 DEF LastOf
  <2>2. k \in Nat \ {0} /\ j \in Nat \ {0}
    BY <1>1, <1>2
  <2>3. j # 1 /\ j - 1 > k
    BY <2>1, <2>2
  <2> QED BY <1>1, <2>3
<1>4. ASSUME LastOf(e, X, Y), Head(e) \in Y PROVE Places(Tail(e), X) # {}
  <2>1. PICK j \in Places(e, X) : j > 1
    BY <1>2, <1>4 DEF LastOf
  <2> QED BY <1>1, <2>1
<1>5. ASSUME Places(e, X) # {}, Head(e) \notin X PROVE Places(Tail(e), X) # {}
  BY <1>1, <1>5
<1> QED BY <1>1, <1>3, <1>4, <1>5 DEF LastOf

\* Entries join a queue.
LEMMA LastOfJoined ==
  ASSUME NEW A, NEW e \in Seq(A), NEW s \in Seq(A), NEW X, NEW Y
  PROVE  /\ Places(e \o s, X) = {} <=> Places(e, X) = {} /\ Places(s, X) = {}
         /\ LastOf(s, X, Y) /\ (LastOf(e, X, Y) \/ Places(s, X) # {})
              => LastOf(e \o s, X, Y)
<1> DEFINE n == Len(e)
<1>1. /\ n \in Nat /\ Len(s) \in Nat
      /\ DOMAIN e = 1 .. n /\ DOMAIN s = 1 .. Len(s) /\ DOMAIN (e \o s) = 1 .. (n + Len(s))
      /\ \A k \in 1 .. n : (e \o s)[k] = e[k]
      /\ \A k \in 1 .. Len(s) : (e \o s)[k + n] = s[k]
  OBVIOUS
<1> HIDE DEF n
<1>2. ASSUME NEW Z, NEW k \in Places(e, Z) PROVE k \in 1 .. n /\ k \in Places(e \o s, Z)
  BY <1>1 DEF Places
<1>3. ASSUME NEW Z, NEW k \in Places(s, Z) PROVE k \in 1 .. Len(s) /\ k + n \in Places(e \o s, Z)
  BY <1>1 DEF Places
<1>4. ASSUME NEW Z, NEW k \in Places(e \o s, Z)
      PROVE  /\ k \in Nat
             /\ k \in Places(e, Z) \/ k - n \in Places(s, Z)
  <2>1. k \in 1 .. (n + Len(s)) /\ (e \o s)[k] \in Z
    BY <1>1 DEF Places
  <2>2. CASE k <= n
    BY <2>1, <2>2, <1>1 DEF Places
  <2>3. CASE ~(k <= n)
    <3>1. k - n \in 1 .. Len(s) /\ (k - n) + n = k
      BY <2>1, <2>3, <1>1
    <3> QED BY <2>1, <3>1, <1>1 DEF Places
  <2> QED BY <2>2, <2>3
<1>5. Places(e \o s, X) = {} <=> Places(e, X) = {} /\ Places(s, X) = {}
  BY <1>2, <1>3, <1>4
<1>6. ASSUME LastOf(s, X, Y), LastOf(e, X, Y) \/ Places(s, X) # {},
             NEW k \in Places(e \o s, Y)
      PROVE  \E j \in Places(e \o s, X) : j > k
  <2>1. CASE k \in Places(e, Y)
    <3>1. CASE LastOf(e, X, Y)
      BY <1>2, <2>1, <3>1 DEF LastOf
    <3>2. CASE Places(s, X) # {}
      <4>1. PICK j \in Places(s, X) : TRUE
        BY <3>2
      <4>2. j + n > k
        BY <1>1, <1>2, <1>3, <2>1
      <4> QED BY <1>3, <4>2
    <3> QED BY <1>6, <3>1, <3>2
  <2>2. CASE k - n \in Places(s, Y)
    <3>1. PICK j \in Places(s, X) : j > k - n
      BY <1>6, <2>2 DEF LastOf
    <3>2. k \in Nat /\ j \in Nat
      BY <1>3, <1>4
    <3>3. j + n > k
      BY <1>1, <3>1, <3>2
    <3> QED BY <1>3, <3>3
  <2> QED BY <1>4, <2>1, <2>2
<1> QED BY <1>5, <1>6 DEF LastOf

\* One entry, or none.
LEMMA PlacesOne ==
  ASSUME NEW a, NEW X, NEW Y
  PROVE  /\ Places(<<>>, X) = {} /\ LastOf(<<>>, X, Y)
         /\ a \in X => Places(<<a>>, X) # {}
         /\ a \notin X => Places(<<a>>, X) = {}
         /\ a \notin Y => LastOf(<<a>>, X, Y)
BY Short DEF Places, LastOf

-----------------------------------------------------------------------------
(***************************************************************************)
(* How many there are of a kind, in what is picked from a queue and in     *)
(* what is told of a set.                                                  *)
(***************************************************************************)
\* Two queues that agree, place by place.
LEMMA HowManyAlike ==
  ASSUME NEW q, NEW r, NEW X, NEW Y, DOMAIN q = DOMAIN r,
         \A k \in DOMAIN q : q[k] \in X <=> r[k] \in Y
  PROVE  HowMany(q, X) = HowMany(r, Y)
<1>1. Places(q, X) = Places(r, Y)
  BY DEF Places
<1> QED BY <1>1 DEF HowMany

\* What is picked has the entries of the places picked.
LEMMA HowManyPicked ==
  ASSUME NEW A, NEW q \in Seq(A), NEW K \in SUBSET DOMAIN q, NEW X
  PROVE  HowMany(Picked(q, K), X) = Cardinality({k \in K : q[k] \in X})
<1> DEFINE c == Cardinality(K)
           P == Places(Picked(q, K), X)
           T == {k \in K : q[k] \in X}
           f == [i \in P |-> Place(K, i)]
<1>1. K \in SUBSET (1..Len(q)) /\ Len(q) \in Nat
  OBVIOUS
<1>2. c \in Nat
  BY <1>1, PlacesFinite
<1>3. /\ \A i \in 1..c : Place(K, i) \in K
      /\ \A k \in K : \E i \in 1..c : Place(K, i) = k
      /\ \A i, j \in 1..c : Place(K, i) = Place(K, j) => i = j
  BY <1>1, PlaceExists
<1>4. /\ DOMAIN Picked(q, K) = 1..c
      /\ \A i \in 1..c : Picked(q, K)[i] = q[Place(K, i)]
  BY DEF Picked
<1>5. P = {i \in 1..c : q[Place(K, i)] \in X}
  BY <1>4 DEF Places
<1> HIDE DEF P
<1>6. IsFiniteSet(P)
  <2>1. P \in SUBSET (1..c)
    BY <1>5
  <2> HIDE DEF c
  <2> QED BY <1>2, <2>1, PlacesFinite
<1>7. f \in [P -> T]
  BY <1>3, <1>5
<1>8. \A x, y \in P : f[x] = f[y] => x = y
  BY <1>3, <1>5
<1>9. \A t \in T : \E x \in P : f[x] = t
  BY <1>3, <1>5
<1> HIDE DEF f, T
<1>10. Cardinality(T) = Cardinality(P)
  BY <1>6, <1>7, <1>8, <1>9, SameNumber
<1> QED BY <1>10 DEF HowMany, P, T

\* Two picks that share nothing and leave nothing of a kind behind.
LEMMA HowManySplit ==
  ASSUME NEW A, NEW q \in Seq(A), NEW K \in SUBSET DOMAIN q, NEW L \in SUBSET DOMAIN q,
         NEW X, K \cap L = {}, \A k \in DOMAIN q : q[k] \in X => k \in K \cup L
  PROVE  HowMany(q, X) = HowMany(Picked(q, K), X) + HowMany(Picked(q, L), X)
<1> DEFINE S == {k \in K : q[k] \in X}
           T == {k \in L : q[k] \in X}
<1>1. S \in SUBSET (1..Len(q)) /\ T \in SUBSET (1..Len(q)) /\ Len(q) \in Nat
  OBVIOUS
<1>2. /\ IsFiniteSet(S) /\ Cardinality(S) \in Nat
      /\ IsFiniteSet(T) /\ Cardinality(T) \in Nat
  <2> HIDE DEF S, T
  <2> QED BY <1>1, PlacesFinite
<1>3. Places(q, X) = S \cup T /\ S \cap T = {}
  BY DEF Places
<1>4. /\ HowMany(Picked(q, K), X) = Cardinality(S)
      /\ HowMany(Picked(q, L), X) = Cardinality(T)
  BY HowManyPicked
<1> HIDE DEF S, T
<1>5. Cardinality(S \cup T) = Cardinality(S) + Cardinality(T) - Cardinality({})
  BY <1>2, <1>3, FS_Union
<1> QED BY <1>2, <1>3, <1>4, <1>5, FS_EmptySet DEF HowMany

\* One entry for each element of a set, in some order.
LEMMA HowManyListed ==
  ASSUME NEW S, IsFiniteSet(S), NEW order \in SetToSeqs(S), NEW s, NEW Y,
         NEW Z \in SUBSET S, DOMAIN s = DOMAIN order,
         \A k \in DOMAIN order : s[k] \in Y <=> order[k] \in Z
  PROVE  HowMany(s, Y) = Cardinality(Z)
<1> DEFINE P == Places(s, Y)
           f == [k \in P |-> order[k]]
<1>1. /\ DOMAIN order = 1..Len(order) /\ Len(order) \in Nat
      /\ \A j, k \in DOMAIN order : order[j] = order[k] => j = k
      /\ \A x \in S : \E k \in DOMAIN order : order[k] = x
  BY OrderLists
<1>2. P = {k \in DOMAIN order : order[k] \in Z}
  BY DEF Places
<1> HIDE DEF P
<1>3. IsFiniteSet(P)
  BY <1>1, <1>2, PlacesFinite
<1>4. f \in [P -> Z]
  BY <1>2
<1>5. \A x, y \in P : f[x] = f[y] => x = y
  BY <1>1, <1>2
<1>6. \A t \in Z : \E x \in P : f[x] = t
  BY <1>1, <1>2
<1> HIDE DEF f
<1>7. Cardinality(Z) = Cardinality(P)
  BY <1>3, <1>4, <1>5, <1>6, SameNumber
<1> QED BY <1>7 DEF HowMany, P

-----------------------------------------------------------------------------
(***************************************************************************)
(* Values that travel in a queue.  Starting from old, the entries of X in  *)
(* e leave the value of the last of them; it is v.                         *)
(***************************************************************************)
Ends(e, X, old, v) ==
    /\ Places(e, X) = {} => old = v
    /\ \A k \in Places(e, X) : (\A m \in Places(e, X) : m <= k) => e[k].value = v

\* The oldest entry is taken: if it is one of X, its value is where the rest starts.
LEMMA EndsTail ==
  ASSUME NEW A, NEW e \in Seq(A), e # <<>>, NEW X, NEW old, NEW v, Ends(e, X, old, v)
  PROVE  /\ Head(e) \in X => Ends(Tail(e), X, Head(e).value, v)
         /\ Head(e) \notin X => Ends(Tail(e), X, old, v)
<1> DEFINE t == Tail(e)
           P == Places(e, X)
           Q == Places(t, X)
<1>1. /\ \A k \in Q : k \in Nat \ {0} /\ k + 1 \in P
      /\ \A k \in P : k \in Nat \ {0} /\ (k # 1 => k - 1 \in Q)
      /\ 1 \in P <=> Head(e) \in X
  BY PlacesTail
<1>2. /\ \A k \in Q : t[k] = e[k + 1]
      /\ e[1] = Head(e)
  <2>1. /\ DOMAIN t = 1..(Len(e) - 1) /\ \A k \in 1..(Len(e) - 1) : t[k] = e[k + 1]
        /\ Head(e) = e[1]
    BY HeadTailProperties
  <2> QED BY <2>1 DEF Places
<1>3. /\ P = {} => old = v
      /\ \A k \in P : (\A m \in P : m <= k) => e[k].value = v
  BY DEF Ends
<1> HIDE DEF t, P, Q
<1>4. ASSUME NEW k \in Q, \A m \in Q : m <= k PROVE t[k].value = v
  <2>1. \A m \in P : m <= k + 1
    BY <1>1, <1>4
  <2>2. e[k + 1].value = v
    BY <1>1, <1>3, <2>1
  <2> QED BY <1>2, <2>2
<1>5. ASSUME Q = {}, Head(e) \in X PROVE Head(e).value = v
  <2>1. 1 \in P /\ \A m \in P : m <= 1
    BY <1>1, <1>5
  <2> QED BY <1>2, <1>3, <2>1
<1>6. ASSUME Q = {}, Head(e) \notin X PROVE old = v
  <2>1. P = {}
    BY <1>1, <1>6
  <2> QED BY <1>3, <2>1
<1> QED BY <1>4, <1>5, <1>6 DEF Ends, t, Q

\* Where the entries of two queues are when one is put behind the other.
LEMMA JoinedAt ==
  ASSUME NEW A, NEW e \in Seq(A), NEW s \in Seq(A)
  PROVE  /\ Len(e) \in Nat /\ Len(s) \in Nat
         /\ DOMAIN e = 1 .. Len(e) /\ DOMAIN s = 1 .. Len(s)
         /\ DOMAIN (e \o s) = 1 .. (Len(e) + Len(s))
         /\ \A k \in 1 .. Len(e) : (e \o s)[k] = e[k]
         /\ \A k \in 1 .. Len(s) : (e \o s)[k + Len(e)] = s[k]
OBVIOUS

\* More entries join; they start where the others end.
LEMMA EndsJoined ==
  ASSUME NEW A, NEW e \in Seq(A), NEW s \in Seq(A), NEW X, NEW old, NEW mid, NEW v,
         Ends(e, X, old, mid), Ends(s, X, mid, v)
  PROVE  Ends(e \o s, X, old, v)
<1> DEFINE n == Len(e)
           c == e \o s
           P == Places(e, X)
           S == Places(s, X)
           C == Places(c, X)
<1>1. /\ n \in Nat /\ Len(s) \in Nat
      /\ DOMAIN e = 1 .. n /\ DOMAIN s = 1 .. Len(s) /\ DOMAIN c = 1 .. (n + Len(s))
      /\ \A k \in 1 .. n : c[k] = e[k]
      /\ \A k \in 1 .. Len(s) : c[k + n] = s[k]
      /\ \A k \in 1 .. (n + Len(s)) : k > n => k - n \in 1 .. Len(s) /\ (k - n) + n = k
  BY JoinedAt
<1> HIDE DEF n, c
<1>2. /\ \A k \in P : k \in 1 .. n /\ k \in C /\ c[k] = e[k]
      /\ \A k \in S : k \in 1 .. Len(s) /\ k + n \in C /\ c[k + n] = s[k]
  BY <1>1 DEF Places
<1>3. \A k \in C : /\ k \in Nat
                   /\ k <= n => k \in P
                   /\ k > n => k - n \in S /\ (k - n) + n = k
  BY <1>1 DEF Places
<1>4. /\ P = {} => old = mid
      /\ \A k \in P : (\A m \in P : m <= k) => e[k].value = mid
      /\ S = {} => mid = v
      /\ \A k \in S : (\A m \in S : m <= k) => s[k].value = v
  BY DEF Ends
<1> HIDE DEF P, S, C
<1>5. ASSUME C = {} PROVE old = v
  <2>1. P = {} /\ S = {}
    BY <1>2, <1>5
  <2> QED BY <1>4, <2>1
<1>6. ASSUME NEW k \in C, \A m \in C : m <= k PROVE c[k].value = v
  <2>1. CASE k <= n
    <3>1. k \in P /\ \A m \in P : m <= k
      BY <1>2, <1>3, <1>6, <2>1
    <3>2. S = {}
      <4> SUFFICES ASSUME NEW m \in S PROVE FALSE
        OBVIOUS
      <4>1. m \in 1 .. Len(s) /\ m + n \in C
        BY <1>2
      <4> QED BY <4>1, <1>1, <1>3, <1>6, <2>1
    <3> QED BY <1>2, <1>4, <3>1, <3>2
  <2>2. CASE k > n
    <3>1. k - n \in S /\ (k - n) + n = k /\ k \in Nat
      BY <1>3, <2>2
    <3>2. ASSUME NEW m \in S PROVE m <= k - n
      <4>1. m + n <= k /\ m \in Nat
        BY <1>2, <1>6
      <4> QED BY <4>1, <3>1, <1>1
    <3>3. s[k - n].value = v
      BY <1>4, <3>1, <3>2
    <3> QED BY <1>2, <3>1, <3>3
  <2> QED BY <1>1, <1>3, <2>1, <2>2
<1> QED BY <1>5, <1>6 DEF Ends, C, c

\* No entry, and one.
LEMMA EndsOne ==
  ASSUME NEW x, NEW X, NEW old
  PROVE  /\ Ends(<<>>, X, old, old)
         /\ x \in X => Ends(<<x>>, X, old, x.value)
         /\ x \notin X => Ends(<<x>>, X, old, old)
<1>1. DOMAIN <<x>> = {1} /\ <<x>>[1] = x
  BY Short
<1>2. Places(<<>>, X) = {}
  BY DEF Places
<1> DEFINE s == <<x>>
<1> HIDE DEF s
<1>3. x \in X => Places(s, X) = {1} /\ s[1] = x
  BY <1>1 DEF Places, s
<1>4. x \notin X => Places(s, X) = {}
  BY <1>1 DEF Places, s
<1> QED BY <1>2, <1>3, <1>4 DEF Ends, s

\* Entries that are none of X change nothing.
LEMMA EndsNone ==
  ASSUME NEW e, NEW X, NEW old, \A k \in DOMAIN e : e[k] \notin X
  PROVE  Ends(e, X, old, old)
BY DEF Ends, Places
=============================================================================
