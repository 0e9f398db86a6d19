--------------------------- MODULE GoldJobsProofs ---------------------------
(***************************************************************************)
(* The Gold jobs on any finite Silver, changing in any way between them    *)
(* and during the risk job.  First come facts about what they compute from *)
(* any finite set of rows: volumes, quintiles, flags, tables.  The         *)
(* invariant then says which rows each partition and each signal was       *)
(* computed from, and the properties follow.                               *)
(***************************************************************************)
EXTENDS GoldJobs, SetFacts

-----------------------------------------------------------------------------
(* Volumes and latest dates *)

Amount == [r \in Row |-> r.amount]

LEMMA VolumeIsSum ==
  ASSUME NEW rows \in SUBSET Row
  PROVE  Volume(rows) = SumFunctionOnSet(Amount, rows)
  BY DEF Volume, Amount, MapThenSumSet, SumFunctionOnSet, FoldFunctionOnSet, MapThenFoldSet

LEMMA VolumeType ==
  ASSUME NEW rows \in SUBSET Row, IsFiniteSet(rows)
  PROVE  Volume(rows) \in Nat
<1>1. \A r \in rows : Amount[r] \in Nat
  BY DEF Amount, Row
<1> QED
  BY <1>1, VolumeIsSum, SumType

LEMMA VolumeAtLeast ==
  ASSUME NEW rows \in SUBSET Row, IsFiniteSet(rows), NEW r \in rows
  PROVE  r.amount \in Nat /\ Volume(rows) >= r.amount
<1>1. \A q \in rows : Amount[q] \in Nat /\ Amount[q] = q.amount
  BY DEF Amount, Row
<1> QED
  BY <1>1, VolumeIsSum, SumAtLeast

LEMMA MaxOfDates ==
  ASSUME NEW S, IsFiniteSet(S), \A y \in S : y \in Int, S # {}
  PROVE  Max(S) \in S /\ \A y \in S : Max(S) >= y
<1>1. PICK id : \A y \in S : id[y] = y
  <2>1. \A y \in S : [x \in S |-> x][y] = y
    OBVIOUS
  <2> QED
    BY <2>1
<1>2. \E x \in S : \A y \in S : x >= y
  BY <1>1, Greatest
<1> QED
  BY <1>2 DEF Max

-----------------------------------------------------------------------------
(* Small samples *)

\* Three times an average that includes the transaction itself takes four of them.
LEMMA LargeNeedsFour ==
  ASSUME NEW rows \in SUBSET Row, IsFiniteSet(rows), NEW r \in BuildLargeTxFlags(rows)
  PROVE  Cardinality(OfCustomer(rows, r.customer_id)) >= 4
<1> DEFINE own == OfCustomer(rows, r.customer_id)
           n == Cardinality(own)
<1>1. r \in rows /\ r.amount * n > 3 * Volume(own)
  BY DEF BuildLargeTxFlags, IsLarge
<1>2. own \in SUBSET Row /\ r \in own /\ IsFiniteSet(own)
  BY <1>1, FS_Subset DEF OfCustomer
<1>3. n \in Nat
  BY <1>2, FS_CardinalityType
<1>4. r.amount \in Nat /\ Volume(own) \in Nat /\ Volume(own) >= r.amount
  BY <1>2, VolumeType, VolumeAtLeast
<1> HIDE DEF n, own
<1>5. n # 0 /\ n # 1 /\ n # 2 /\ n # 3
  <2>1. ASSUME NEW k \in 0..3, n = k PROVE FALSE
    <3>1. r.amount * k <= 3 * r.amount
      <4>1. k = 0 \/ k = 1 \/ k = 2 \/ k = 3
        OBVIOUS
      <4> QED
        BY <1>4, <4>1
    <3>2. r.amount * k > 3 * Volume(own)
      BY <1>1, <2>1
    <3>3. PICK a \in Nat : a = r.amount * k
      BY <1>4
    <3> QED
      BY <1>4, <3>1, <3>2, <3>3
  <2> QED
    BY <1>3, <2>1
<1> QED
  BY <1>3, <1>5 DEF n, own

\* More than a fifth of at least five is at least two.
LEMMA FailureNeedsTwo ==
  ASSUME NEW rows, IsFiniteSet(rows), NEW g \in BuildFailureRateFlags(rows)
  PROVE  CountWith(OfGroup(rows, g.account_id, g.customer_id), "failed") >= 2
<1> DEFINE own == OfGroup(rows, g.account_id, g.customer_id)
<1>1. Cardinality(own) >= 5 /\ FailsOften(CountWith(own, "failed"), Cardinality(own))
  BY DEF BuildFailureRateFlags
<1>2. IsFiniteSet(own)
  BY FS_Subset DEF OfGroup
<1>3. Cardinality(own) \in Nat /\ CountWith(own, "failed") \in Nat
  BY <1>2, FS_Subset, FS_CardinalityType DEF CountWith
<1> HIDE DEF own
<1> QED
  BY <1>1, <1>3 DEF FailsOften, own

-----------------------------------------------------------------------------
(* Quintiles *)

AtMost(score, i) == {c \in DOMAIN score : score[c] <= i}
Bucket(score, i) == {c \in DOMAIN score : score[c] = i}

LEMMA CountAtMost ==
  ASSUME NEW n \in Nat, NEW D, IsFiniteSet(D), NEW score \in [D -> 1..n], NEW i \in 1..n
  PROVE  /\ Cardinality(AtMost(score, i))
              = Cardinality(AtMost(score, i - 1)) + Cardinality(Bucket(score, i))
         /\ Cardinality(AtMost(score, i - 1)) \in Nat /\ Cardinality(Bucket(score, i)) \in Nat
<1>1. \A c \in D : score[c] \in 1..n
  OBVIOUS
<1>2. /\ AtMost(score, i - 1) \in SUBSET D /\ Bucket(score, i) \in SUBSET D
      /\ AtMost(score, i - 1) \cap Bucket(score, i) = {}
  BY <1>1 DEF AtMost, Bucket
<1>3. AtMost(score, i) = AtMost(score, i - 1) \cup Bucket(score, i)
  BY <1>1 DEF AtMost, Bucket
<1>4. /\ IsFiniteSet(AtMost(score, i - 1)) /\ Cardinality(AtMost(score, i - 1)) \in Nat
      /\ IsFiniteSet(Bucket(score, i)) /\ Cardinality(Bucket(score, i)) \in Nat
  BY <1>2, FS_Subset, FS_CardinalityType
<1>5. Cardinality(AtMost(score, i - 1) \cup Bucket(score, i))
        = Cardinality(AtMost(score, i - 1)) + Cardinality(Bucket(score, i))
  <2>1. Cardinality(AtMost(score, i - 1) \cap Bucket(score, i)) = 0
    BY <1>2, FS_EmptySet, Zenon
  <2> QED
    BY <1>4, <2>1, FS_Union
<1>6. Cardinality(AtMost(score, i)) = Cardinality(AtMost(score, i - 1) \cup Bucket(score, i))
  BY <1>3, Zenon
<1> QED
  BY <1>4, <1>5, <1>6

\* How many customers are in the first i buckets does not depend on how ties fall.
LEMMA SameCounts ==
  ASSUME NEW n \in Nat, NEW D, IsFiniteSet(D),
         NEW s \in [D -> 1..n], EvenBuckets(n, s), NEW t \in [D -> 1..n], EvenBuckets(n, t)
  PROVE  \A i \in 0..n : Cardinality(AtMost(s, i)) = Cardinality(AtMost(t, i))
<1> DEFINE Bad == {i \in 0..n : Cardinality(AtMost(s, i)) # Cardinality(AtMost(t, i))}
<1> SUFFICES ASSUME Bad # {} PROVE FALSE
  OBVIOUS
<1>1. Bad \in SUBSET Nat
  OBVIOUS
<1> HIDE DEF Bad
<1>2. PICK i \in Bad : \A k \in Bad : i <= k
  BY <1>1, LeastNumber
<1> USE DEF Bad
<1>3. i # 0
  <2>1. AtMost(s, 0) = {} /\ AtMost(t, 0) = {}
    BY DEF AtMost
  <2>2. Cardinality(AtMost(s, 0)) = Cardinality(AtMost(t, 0))
    BY <2>1, Zenon
  <2>3. Cardinality(AtMost(s, i)) # Cardinality(AtMost(t, i))
    BY <1>2
  <2> QED
    BY <2>2, <2>3, Zenon
<1>4. i \in 1..n /\ i - 1 \in 0..n
  BY <1>2, <1>3
<1>5. Cardinality(AtMost(s, i - 1)) = Cardinality(AtMost(t, i - 1))
  <2>1. i - 1 \notin Bad
    <3> HIDE DEF Bad
    <3> QED
      BY <1>1, <1>2
  <2> QED
    BY <1>4, <2>1
<1>6. Cardinality(Bucket(s, i)) = Cardinality(Bucket(t, i))
  BY <1>4 DEF EvenBuckets, Bucket
<1>7. Cardinality(AtMost(s, i)) # Cardinality(AtMost(t, i))
  BY <1>2
<1> QED
  BY <1>4, <1>5, <1>6, <1>7, CountAtMost

\* A customer whose key nobody shares gets the same bucket each time: the number
\* of customers before it decides.
LEMMA NotBelow ==
  ASSUME NEW n \in Nat, NEW key, IsFiniteSet(DOMAIN key), \A c \in DOMAIN key : key[c] \in Int,
         NEW s \in Ntile(n, key), NEW t \in Ntile(n, key),
         NEW x \in DOMAIN key, \A y \in DOMAIN key : y # x => key[y] # key[x]
  PROVE  ~ (s[x] < t[x])
<1> SUFFICES ASSUME s[x] < t[x] PROVE FALSE
  OBVIOUS
<1> DEFINE D == DOMAIN key
           Below == {y \in D : key[y] < key[x]}
<1>1. /\ s \in [D -> 1..n] /\ EvenBuckets(n, s) /\ InOrder(key, s)
      /\ t \in [D -> 1..n] /\ EvenBuckets(n, t) /\ InOrder(key, t)
  BY DEF Ntile
<1>2. s[x] \in 1..n /\ t[x] \in 1..n /\ s[x] \in 0..n
  BY <1>1
<1>3. \A y \in D : s[y] \in Int /\ t[y] \in Int /\ key[y] \in Int
  BY <1>1
<1>4. AtMost(t, s[x]) \subseteq Below
  <2> SUFFICES ASSUME NEW y \in D, t[y] <= s[x] PROVE key[y] < key[x]
    BY <1>1 DEF AtMost
  <2>1. y # x
    BY <1>2
  <2>2. ~ (key[x] < key[y])
    BY <1>1, <1>2, <1>3 DEF InOrder
  <2> QED
    BY <1>3, <2>1, <2>2
<1>5. Below \subseteq AtMost(s, s[x]) \ {x}
  BY <1>1, <1>3 DEF InOrder, AtMost
<1>6. x \in AtMost(s, s[x]) /\ AtMost(s, s[x]) \in SUBSET D
  BY <1>1, <1>2 DEF AtMost
<1>7. IsFiniteSet(AtMost(s, s[x])) /\ Cardinality(AtMost(s, s[x])) \in Nat
  BY <1>6, FS_Subset, FS_CardinalityType
<1>8. /\ IsFiniteSet(AtMost(s, s[x]) \ {x})
      /\ Cardinality(AtMost(s, s[x]) \ {x}) = Cardinality(AtMost(s, s[x])) - 1
  BY <1>6, <1>7, FS_RemoveElement
<1>9. /\ AtMost(t, s[x]) \in SUBSET (AtMost(s, s[x]) \ {x})
      /\ Cardinality(AtMost(t, s[x])) \in Nat
      /\ Cardinality(AtMost(t, s[x])) <= Cardinality(AtMost(s, s[x]) \ {x})
  <2>1. AtMost(t, s[x]) \in SUBSET (AtMost(s, s[x]) \ {x})
    BY <1>4, <1>5
  <2> QED
    BY <1>8, <2>1, FS_Subset, FS_CardinalityType
<1>10. Cardinality(AtMost(s, s[x])) = Cardinality(AtMost(t, s[x]))
  BY <1>1, <1>2, SameCounts
<1> QED
  BY <1>7, <1>8, <1>9, <1>10

LEMMA OneBucket ==
  ASSUME NEW n \in Nat, NEW key, IsFiniteSet(DOMAIN key), \A c \in DOMAIN key : key[c] \in Int,
         NEW s \in Ntile(n, key), NEW t \in Ntile(n, key),
         NEW x \in DOMAIN key, \A y \in DOMAIN key : y # x => key[y] # key[x]
  PROVE  s[x] = t[x]
<1>1. s[x] \in Int /\ t[x] \in Int
  BY DEF Ntile
<1>2. ~ (s[x] < t[x]) /\ ~ (t[x] < s[x])
  BY NotBelow
<1> QED
  BY <1>1, <1>2

\* Where bucket b of five ends among k customers.
EndOf(k, b) == b * (k \div 5) + (IF b <= k % 5 THEN b ELSE k % 5)

LEMMA BucketEnds ==
  ASSUME NEW k \in Nat
  PROVE  /\ EndOf(k, 0) = 0 /\ EndOf(k, 5) = k /\ \A b \in 0..5 : EndOf(k, b) \in Nat
         /\ \A b \in 1..5 : EndOf(k, b) = EndOf(k, b - 1)
                                            + ((k \div 5) + IF b <= k % 5 THEN 1 ELSE 0)
<1>1. PICK q, r : q = k \div 5 /\ r = k % 5
  OBVIOUS
<1>2. q \in Nat /\ r \in 0..4 /\ k = 5 * q + r
  BY <1>1
<1>3. \A b : EndOf(k, b) = b * q + (IF b <= r THEN b ELSE r)
  BY <1>1 DEF EndOf
<1>4. /\ EndOf(k, 0) = 0
      /\ EndOf(k, 1) = q + (IF 1 <= r THEN 1 ELSE r)
      /\ EndOf(k, 2) = 2 * q + (IF 2 <= r THEN 2 ELSE r)
      /\ EndOf(k, 3) = 3 * q + (IF 3 <= r THEN 3 ELSE r)
      /\ EndOf(k, 4) = 4 * q + (IF 4 <= r THEN 4 ELSE r)
      /\ EndOf(k, 5) = 5 * q + r
  BY <1>2, <1>3
<1>5. \A b \in 0..5 : b = 0 \/ b = 1 \/ b = 2 \/ b = 3 \/ b = 4 \/ b = 5
  OBVIOUS
<1>6. \A b \in 0..5 : EndOf(k, b) \in Nat
  BY <1>2, <1>4, <1>5
<1>7. \A b \in 1..5 : EndOf(k, b) = EndOf(k, b - 1) + (q + IF b <= r THEN 1 ELSE 0)
  BY <1>2, <1>4, <1>5
<1> QED
  BY <1>1, <1>2, <1>4, <1>6, <1>7

\* Every position has a bucket.
LEMMA BucketOfPosition ==
  ASSUME NEW k \in Nat, NEW i \in 1..k
  PROVE  \E b \in 1..5 : EndOf(k, b - 1) < i /\ i <= EndOf(k, b)
<1> DEFINE Reached == {b \in 0..5 : i <= EndOf(k, b)}
<1>1. 5 \in Reached /\ 0 \notin Reached
  BY BucketEnds
<1>2. Reached \in SUBSET Nat
  OBVIOUS
<1>3. PICK b \in Reached : \A c \in Reached : b <= c
  <2> HIDE DEF Reached
  <2> QED
    BY <1>1, <1>2, LeastNumber
<1>4. b \in 1..5 /\ b - 1 \in 0..5 /\ b - 1 \notin Reached
  BY <1>1, <1>3
<1>5. EndOf(k, b - 1) \in Nat
  BY <1>4, BucketEnds
<1> QED
  BY <1>3, <1>4, <1>5

LEMMA EndsGrow ==
  ASSUME NEW k \in Nat, NEW a \in 0..5, NEW b \in a..5
  PROVE  EndOf(k, a) <= EndOf(k, b)
<1>1. \A c \in 1..5 : EndOf(k, c) >= EndOf(k, c - 1)
  <2>1. \A c \in 1..5 : c - 1 \in 0..5
    OBVIOUS
  <2>2. \A c \in 0..5 : EndOf(k, c) \in Nat
    BY BucketEnds
  <2>3. \A c \in 1..5 : EndOf(k, c) = EndOf(k, c - 1) + ((k \div 5) + IF c <= k % 5 THEN 1 ELSE 0)
    BY BucketEnds
  <2>4. k \div 5 \in Nat
    OBVIOUS
  <2> QED
    BY <2>1, <2>2, <2>3, <2>4
<1>2. /\ EndOf(k, 1) >= EndOf(k, 0) /\ EndOf(k, 2) >= EndOf(k, 1) /\ EndOf(k, 3) >= EndOf(k, 2)
      /\ EndOf(k, 4) >= EndOf(k, 3) /\ EndOf(k, 5) >= EndOf(k, 4)
  BY <1>1
<1>3. /\ EndOf(k, 0) \in Nat /\ EndOf(k, 1) \in Nat /\ EndOf(k, 2) \in Nat
      /\ EndOf(k, 3) \in Nat /\ EndOf(k, 4) \in Nat /\ EndOf(k, 5) \in Nat
  BY BucketEnds
<1>4. /\ a = 0 \/ a = 1 \/ a = 2 \/ a = 3 \/ a = 4 \/ a = 5
      /\ b = 0 \/ b = 1 \/ b = 2 \/ b = 3 \/ b = 4 \/ b = 5
      /\ a <= b
  OBVIOUS
<1> QED
  BY <1>2, <1>3, <1>4

\* ntile(5) has a result for any number of customers: put them in some order of
\* their key and cut.
LEMMA NtileExists ==
  ASSUME NEW key, IsFiniteSet(DOMAIN key), \A c \in DOMAIN key : key[c] \in Int
  PROVE  \E score : score \in Ntile(5, key)
<1> DEFINE D == DOMAIN key
           k == Cardinality(D)
<1>1. k \in Nat
  BY FS_CardinalityType
<1>2. PICK pos : Ordered(pos, D, key)
  BY CanBeOrdered
<1> HIDE DEF k
<1>3. /\ pos \in [D -> 1..k] /\ (\A x, y \in D : pos[x] = pos[y] => x = y)
      /\ (\A i \in 1..k : \E x \in D : pos[x] = i)
      /\ \A x, y \in D : key[x] < key[y] => pos[x] < pos[y]
  BY <1>2 DEF Ordered, k
<1> DEFINE Fits(c, b) == EndOf(k, b - 1) < pos[c] /\ pos[c] <= EndOf(k, b)
           score == [c \in D |-> CHOOSE b \in 1..5 : Fits(c, b)]
<1>4. ASSUME NEW c \in D PROVE score[c] \in 1..5 /\ Fits(c, score[c])
  <2>1. pos[c] \in 1..k
    BY <1>3
  <2>2. \E b \in 1..5 : Fits(c, b)
    BY <1>1, <2>1, BucketOfPosition
  <2> HIDE DEF Fits
  <2> QED
    BY <2>2
<1>5. score = [c \in D |-> score[c]]
  OBVIOUS
<1> HIDE DEF score
<1>6. \A b \in 0..5 : EndOf(k, b) \in Nat
  BY <1>1, BucketEnds
<1>7. \A c \in D : pos[c] \in Nat /\ pos[c] >= 1 /\ pos[c] <= k
  BY <1>1, <1>3
<1>8. ASSUME NEW c \in D, NEW b \in 1..5, Fits(c, b) PROVE score[c] = b
  <2>1. PICK a \in 1..5 : a = score[c]
    BY <1>4
  <2>2. Fits(c, a)
    BY <1>4, <2>1
  <2>3. a - 1 \in 0..5 /\ a \in 0..5 /\ b - 1 \in 0..5 /\ b \in 0..5
    OBVIOUS
  <2>4. /\ EndOf(k, a) \in Nat /\ EndOf(k, b) \in Nat /\ EndOf(k, a - 1) \in Nat
        /\ EndOf(k, b - 1) \in Nat /\ pos[c] \in Nat
    BY <1>6, <1>7, <2>3
  <2>5. ~ (a < b)
    <3> SUFFICES ASSUME a < b PROVE FALSE
      OBVIOUS
    <3>1. b - 1 \in a..5
      OBVIOUS
    <3>2. EndOf(k, a) <= EndOf(k, b - 1)
      BY <1>1, <2>3, <3>1, EndsGrow
    <3> QED
      BY <1>8, <2>2, <2>4, <3>2
  <2>6. ~ (b < a)
    <3> SUFFICES ASSUME b < a PROVE FALSE
      OBVIOUS
    <3>1. a - 1 \in b..5
      OBVIOUS
    <3>2. EndOf(k, b) <= EndOf(k, a - 1)
      BY <1>1, <2>3, <3>1, EndsGrow
    <3> QED
      BY <1>8, <2>2, <2>4, <3>2
  <2> QED
    BY <2>1, <2>5, <2>6
<1>9. ASSUME NEW b \in 1..5
      PROVE  Cardinality({c \in D : score[c] = b})
               = (k \div 5) + (IF b <= k % 5 THEN 1 ELSE 0)
  <2> DEFINE low == EndOf(k, b - 1)
             high == EndOf(k, b)
             own == {c \in D : score[c] = b}
             at == [c \in own |-> pos[c]]
  <2>1. b - 1 \in 0..5 /\ b \in 0..5 /\ k \div 5 \in Nat
    BY <1>1
  <2>2. /\ low \in Nat /\ high \in Nat
        /\ high = low + ((k \div 5) + IF b <= k % 5 THEN 1 ELSE 0)
    BY <1>1, <1>6, <2>1, BucketEnds
  <2>3. high <= k
    <3>1. 5 \in b..5
      OBVIOUS
    <3>2. high <= EndOf(k, 5)
      BY <1>1, <2>1, <3>1, EndsGrow
    <3> QED
      BY <1>1, <3>2, BucketEnds
  <2>4. \A c \in D : c \in own <=> Fits(c, b)
    BY <1>4, <1>8
  <2> HIDE DEF low, high
  <2>5. \A c \in D : c \in own <=> pos[c] \in (low + 1)..high
    BY <1>7, <2>2, <2>4 DEF low, high
  <2>6. own \in SUBSET D
    OBVIOUS
  <2> HIDE DEF own
  <2>7. \A i \in (low + 1)..high : \E c \in own : pos[c] = i
    <3> SUFFICES ASSUME NEW i \in (low + 1)..high PROVE \E c \in own : pos[c] = i
      OBVIOUS
    <3>1. i \in 1..k
      BY <1>1, <2>2, <2>3
    <3>2. PICK c \in D : pos[c] = i
      BY <1>3, <3>1
    <3> QED
      BY <2>5, <3>2
  <2>8. at \in Bijection(own, (low + 1)..high)
    <3>1. at \in [own -> (low + 1)..high]
      BY <2>5, <2>6
    <3>2. \A x, y \in own : at[x] = at[y] => x = y
      BY <1>3, <2>6
    <3>3. \A i \in (low + 1)..high : \E c \in own : at[c] = i
      BY <2>7
    <3> HIDE DEF at
    <3> QED
      BY <3>1, <3>2, <3>3 DEF Bijection, Injection, Surjection, IsInjective
  <2>9. IsFiniteSet(own)
    BY <2>6, FS_Subset
  <2>10. Cardinality((low + 1)..high) = Cardinality(own)
    <3> HIDE DEF at
    <3>1. ExistsBijection(own, (low + 1)..high)
      BY <2>8 DEF ExistsBijection
    <3> QED
      BY <2>9, <3>1, FS_Bijection
  <2>11. low + 1 \in Int /\ high \in Int
    BY <2>2
  <2>12. Cardinality((low + 1)..high) = (IF low + 1 > high THEN 0 ELSE high - (low + 1) + 1)
    BY <2>11, FS_Interval
  <2>13. Cardinality(own) = (k \div 5) + (IF b <= k % 5 THEN 1 ELSE 0)
    BY <2>1, <2>2, <2>10, <2>12
  <2> QED
    BY <2>13 DEF own
<1>10. EvenBuckets(5, score)
  BY <1>5, <1>9 DEF EvenBuckets, k
<1>11. InOrder(key, score)
  <2> SUFFICES ASSUME NEW x \in D, NEW y \in D, key[x] < key[y] PROVE score[x] <= score[y]
    BY DEF InOrder
  <2>1. PICK a \in 1..5 : a = score[x]
    BY <1>4
  <2>2. PICK b \in 1..5 : b = score[y]
    BY <1>4
  <2>3. Fits(x, a) /\ Fits(y, b) /\ pos[x] < pos[y]
    BY <1>3, <1>4, <2>1, <2>2
  <2>4. a - 1 \in 0..5 /\ a \in 0..5 /\ b \in 0..5
    OBVIOUS
  <2>5. ~ (b < a)
    <3> SUFFICES ASSUME b < a PROVE FALSE
      OBVIOUS
    <3>1. a - 1 \in b..5
      OBVIOUS
    <3>2. EndOf(k, b) <= EndOf(k, a - 1)
      BY <1>1, <2>4, <3>1, EndsGrow
    <3>3. EndOf(k, b) \in Nat /\ EndOf(k, a - 1) \in Nat /\ pos[x] \in Nat /\ pos[y] \in Nat
      BY <1>6, <1>7, <2>4
    <3> QED
      BY <2>3, <3>2, <3>3
  <2> QED
    BY <2>1, <2>2, <2>5
<1>12. score \in [D -> 1..5]
  <2>1. \A c \in D : score[c] \in 1..5
    BY <1>4
  <2> QED
    BY <1>5, <2>1
<1> QED
  BY <1>10, <1>11, <1>12 DEF Ntile

-----------------------------------------------------------------------------
(* The customer table *)

\* What RecencyIsInverted says of one partition.
ScoresFollow(partition) ==
  \A b, c \in partition :
    /\ b.recency_days < c.recency_days => b.recency_score <= c.recency_score
    /\ b.total_transactions < c.total_transactions => b.frequency_score <= c.frequency_score
    /\ b.total_spend < c.total_spend => b.monetary_score <= c.monetary_score

LEMMA CustomerRowFields ==
  ASSUME NEW rows, NEW d, NEW dim, NEW scores, NEW c
  PROVE  LET row == CustomerRow(rows, d, dim, scores, c) IN
           /\ row.recency_days = RecencyDays(rows, d)[c]
           /\ row.total_transactions = Cardinality(OfCustomer(rows, c))
           /\ row.total_spend = Volume(OfCustomer(rows, c))
           /\ row.recency_score = scores.recency[c]
           /\ row.frequency_score = scores.frequency[c]
           /\ row.monetary_score = scores.monetary[c]
  BY DEF CustomerRow

LEMMA TablesFollow ==
  ASSUME NEW rows, NEW d, NEW dim, NEW partition \in BuildCustomerAnalytics(rows, d, dim)
  PROVE  ScoresFollow(partition)
<1> DEFINE Scores(r, f, m) == [recency |-> r, frequency |-> f, monetary |-> m]
           RowOf(r, f, m, c) == CustomerRow(rows, d, dim, Scores(r, f, m), c)
<1>1. PICK r \in Ntile(5, ByRecencyAsc(rows, d)), f \in Ntile(5, Frequency(rows)),
           m \in Ntile(5, Monetary(rows)) :
             partition = {RowOf(r, f, m, c) : c \in CustomersOf(rows)}
  <2>1. PICK r \in Ntile(5, ByRecencyAsc(rows, d)), f \in Ntile(5, Frequency(rows)),
             m \in Ntile(5, Monetary(rows)) :
               partition = CustomerTable(rows, d, dim, Scores(r, f, m))
    BY DEF BuildCustomerAnalytics
  <2> QED
    BY <2>1 DEF CustomerTable
<1>2. \A c : /\ RowOf(r, f, m, c).recency_days = RecencyDays(rows, d)[c]
             /\ RowOf(r, f, m, c).total_transactions = Cardinality(OfCustomer(rows, c))
             /\ RowOf(r, f, m, c).total_spend = Volume(OfCustomer(rows, c))
             /\ RowOf(r, f, m, c).recency_score = r[c]
             /\ RowOf(r, f, m, c).frequency_score = f[c]
             /\ RowOf(r, f, m, c).monetary_score = m[c]
  BY CustomerRowFields
<1> HIDE DEF RowOf
<1>3. \A b, c \in CustomersOf(rows) :
        RecencyDays(rows, d)[b] < RecencyDays(rows, d)[c] => r[b] <= r[c]
  BY DEF Ntile, InOrder, ByRecencyAsc, RecencyDays
<1>4. \A b, c \in CustomersOf(rows) :
        Cardinality(OfCustomer(rows, b)) < Cardinality(OfCustomer(rows, c)) => f[b] <= f[c]
  BY DEF Ntile, InOrder, Frequency
<1>5. \A b, c \in CustomersOf(rows) :
        Volume(OfCustomer(rows, b)) < Volume(OfCustomer(rows, c)) => m[b] <= m[c]
  BY DEF Ntile, InOrder, Monetary
<1> SUFFICES ASSUME NEW b \in CustomersOf(rows), NEW c \in CustomersOf(rows)
             PROVE  LET p == RowOf(r, f, m, b)
                        q == RowOf(r, f, m, c)
                    IN /\ p.recency_days < q.recency_days => p.recency_score <= q.recency_score
                       /\ p.total_transactions < q.total_transactions
                            => p.frequency_score <= q.frequency_score
                       /\ p.total_spend < q.total_spend => p.monetary_score <= q.monetary_score
  BY <1>1 DEF ScoresFollow
<1> QED
  BY <1>2, <1>3, <1>4, <1>5

\* One row for each customer, and the row says whose it is.
LEMMA CustomerRowCounts ==
  ASSUME NEW rows, NEW d, NEW dim, NEW scores, NEW c
  PROVE  /\ CustomerRow(rows, d, dim, scores, c).customer_id = c
         /\ CustomerRow(rows, d, dim, scores, c).total_transactions
              = Cardinality(OfCustomer(rows, c))
  BY DEF CustomerRow

LEMMA CustomersFinite ==
  ASSUME NEW rows, IsFiniteSet(rows)
  PROVE  IsFiniteSet(CustomersOf(rows))
<1> DEFINE f == [r \in rows |-> r.customer_id]
<1>1. f \in [rows -> CustomersOf(rows)] /\ \A c \in CustomersOf(rows) : \E r \in rows : f[r] = c
  BY DEF CustomersOf
<1> HIDE DEF f
<1> QED
  BY <1>1, FiniteImage

LEMMA RecencyType ==
  ASSUME NEW rows \in SUBSET Row, IsFiniteSet(rows), NEW d \in Int, NEW c \in CustomersOf(rows)
  PROVE  /\ RecencyDays(rows, d)[c] \in Int
         /\ \E r \in OfCustomer(rows, c) : RecencyDays(rows, d)[c] = d - EventDate(r)
<1> DEFINE own == OfCustomer(rows, c)
           dates == {EventDate(r) : r \in own}
           f == [r \in own |-> EventDate(r)]
<1>1. own \in SUBSET rows /\ own # {}
  BY DEF OfCustomer, CustomersOf
<1>2. IsFiniteSet(own) /\ \A r \in own : EventDate(r) \in Int
  <2>1. \A r \in own : r.timestamp \in Nat
    BY <1>1 DEF Row
  <2> QED
    BY <1>1, <2>1, FS_Subset DEF EventDate, DayOf, Day, Minute
<1>3. IsFiniteSet(dates)
  <2>1. f \in [own -> dates] /\ \A t \in dates : \E r \in own : f[r] = t
    OBVIOUS
  <2> HIDE DEF f, dates, own
  <2> QED
    BY <1>2, <2>1, FiniteImage
<1>4. (\A y \in dates : y \in Int) /\ dates # {}
  <2> HIDE DEF own
  <2> QED
    BY <1>1, <1>2
<1>5. Max(dates) \in dates
  <2> HIDE DEF dates
  <2> QED
    BY <1>3, <1>4, MaxOfDates
<1>6. PICK r \in own : Max(dates) = EventDate(r)
  <2> HIDE DEF own
  <2> QED
    BY <1>5
<1>7. RecencyDays(rows, d)[c] = d - Max(dates)
  BY DEF RecencyDays
<1>8. RecencyDays(rows, d)[c] = d - EventDate(r)
  <2> HIDE DEF dates
  <2> QED
    BY <1>6, <1>7
<1> QED
  BY <1>2, <1>6, <1>8

\* The three keys of the quintiles are numbers, one for each customer.
LEMMA KeyTypes ==
  ASSUME NEW rows \in SUBSET Row, IsFiniteSet(rows), NEW d \in Int, NEW c \in CustomersOf(rows)
  PROVE  /\ RecencyDays(rows, d)[c] \in Int
         /\ Cardinality(OfCustomer(rows, c)) \in Nat
         /\ Volume(OfCustomer(rows, c)) \in Nat
<1>1. OfCustomer(rows, c) \in SUBSET Row /\ IsFiniteSet(OfCustomer(rows, c))
  BY FS_Subset DEF OfCustomer
<1> QED
  BY <1>1, RecencyType, VolumeType, FS_CardinalityType

LEMMA TableExists ==
  ASSUME NEW rows \in SUBSET Row, IsFiniteSet(rows), NEW d \in Int, NEW dim
  PROVE  BuildCustomerAnalytics(rows, d, dim) # {}
<1> DEFINE R == ByRecencyAsc(rows, d)
           F == Frequency(rows)
           M == Monetary(rows)
<1>1. DOMAIN R = CustomersOf(rows) /\ DOMAIN F = CustomersOf(rows) /\ DOMAIN M = CustomersOf(rows)
  BY DEF ByRecencyAsc, RecencyDays, Frequency, Monetary
<1>2. ASSUME NEW c \in CustomersOf(rows)
      PROVE  R[c] \in Int /\ F[c] \in Int /\ M[c] \in Int
  <2>1. /\ RecencyDays(rows, d)[c] \in Int /\ Cardinality(OfCustomer(rows, c)) \in Int
        /\ Volume(OfCustomer(rows, c)) \in Int
    BY KeyTypes
  <2> QED
    BY <2>1 DEF ByRecencyAsc, Frequency, Monetary
<1> HIDE DEF R, F, M
<1>3. IsFiniteSet(CustomersOf(rows))
  BY CustomersFinite
<1>4. IsFiniteSet(DOMAIN R) /\ IsFiniteSet(DOMAIN F) /\ IsFiniteSet(DOMAIN M)
  BY <1>1, <1>3, Zenon
<1>5. (\E r : r \in Ntile(5, R)) /\ (\E f : f \in Ntile(5, F)) /\ (\E m : m \in Ntile(5, M))
  <2>1. \A c \in DOMAIN R : R[c] \in Int
    BY <1>1, <1>2
  <2>2. \A c \in DOMAIN F : F[c] \in Int
    BY <1>1, <1>2
  <2>3. \A c \in DOMAIN M : M[c] \in Int
    BY <1>1, <1>2
  <2>4. \E r : r \in Ntile(5, R)
    BY <1>4, <2>1, NtileExists
  <2>5. \E f : f \in Ntile(5, F)
    BY <1>4, <2>2, NtileExists
  <2>6. \E m : m \in Ntile(5, M)
    BY <1>4, <2>3, NtileExists
  <2> QED
    BY <2>4, <2>5, <2>6
<1>6. PICK r \in Ntile(5, R), f \in Ntile(5, F), m \in Ntile(5, M) : TRUE
  BY <1>5
<1>7. CustomerTable(rows, d, dim, [recency |-> r, frequency |-> f, monetary |-> m])
        \in BuildCustomerAnalytics(rows, d, dim)
  BY <1>6 DEF BuildCustomerAnalytics, R, F, M
<1> QED
  BY <1>7

\* Computing the table again moves a score only between customers who tie for it.
LEMMA TiesOnly ==
  ASSUME NEW rows \in SUBSET Row, IsFiniteSet(rows), NEW d \in Int, NEW dim,
         NEW p \in BuildCustomerAnalytics(rows, d, dim),
         NEW q \in BuildCustomerAnalytics(rows, d, dim),
         NEW x \in p
  PROVE  \E y \in q :
           /\ y.customer_id = x.customer_id /\ y.total_spend = x.total_spend
           /\ y.recency_score # x.recency_score
                => \E o \in p : o # x /\ o.recency_days = x.recency_days
           /\ y.frequency_score # x.frequency_score
                => \E o \in p : o # x /\ o.total_transactions = x.total_transactions
           /\ y.monetary_score # x.monetary_score
                => \E o \in p : o # x /\ o.total_spend = x.total_spend
<1> DEFINE Scores(r, f, m) == [recency |-> r, frequency |-> f, monetary |-> m]
           RowOf(r, f, m, c) == CustomerRow(rows, d, dim, Scores(r, f, m), c)
           C == CustomersOf(rows)
           R == ByRecencyAsc(rows, d)
           F == Frequency(rows)
           M == Monetary(rows)
<1>1. ASSUME NEW z \in BuildCustomerAnalytics(rows, d, dim)
      PROVE  \E r \in Ntile(5, R), f \in Ntile(5, F), m \in Ntile(5, M) :
               z = {RowOf(r, f, m, c) : c \in C}
  <2>1. PICK r \in Ntile(5, R), f \in Ntile(5, F), m \in Ntile(5, M) :
               z = CustomerTable(rows, d, dim, Scores(r, f, m))
    BY DEF BuildCustomerAnalytics
  <2> QED
    BY <2>1 DEF CustomerTable
<1>2. PICK r \in Ntile(5, R), f \in Ntile(5, F), m \in Ntile(5, M) :
        p = {RowOf(r, f, m, c) : c \in C}
  BY <1>1
<1>3. PICK s \in Ntile(5, R), g \in Ntile(5, F), n \in Ntile(5, M) :
        q = {RowOf(s, g, n, c) : c \in C}
  BY <1>1
<1>4. ASSUME NEW a, NEW b, NEW e, NEW c
      PROVE  /\ RowOf(a, b, e, c).recency_days = RecencyDays(rows, d)[c]
             /\ RowOf(a, b, e, c).total_transactions = Cardinality(OfCustomer(rows, c))
             /\ RowOf(a, b, e, c).total_spend = Volume(OfCustomer(rows, c))
             /\ RowOf(a, b, e, c).recency_score = a[c]
             /\ RowOf(a, b, e, c).frequency_score = b[c]
             /\ RowOf(a, b, e, c).monetary_score = e[c]
             /\ RowOf(a, b, e, c).customer_id = c
  BY CustomerRowFields, CustomerRowCounts
<1>5. /\ DOMAIN R = C /\ DOMAIN F = C /\ DOMAIN M = C
      /\ \A c \in C : /\ R[c] = RecencyDays(rows, d)[c]
                       /\ F[c] = Cardinality(OfCustomer(rows, c))
                       /\ M[c] = Volume(OfCustomer(rows, c))
                       /\ R[c] \in Int /\ F[c] \in Int /\ M[c] \in Int
  <2>1. \A c \in C : RecencyDays(rows, d)[c] \in Int
    BY KeyTypes
  <2>2. \A c \in C : /\ Cardinality(OfCustomer(rows, c)) \in Int
                     /\ Volume(OfCustomer(rows, c)) \in Int
    BY KeyTypes
  <2> QED
    BY <2>1, <2>2 DEF ByRecencyAsc, RecencyDays, Frequency, Monetary
<1> HIDE DEF RowOf, C, R, F, M
<1>6. IsFiniteSet(C)
  BY CustomersFinite DEF C
<1>7. PICK c \in C : x = RowOf(r, f, m, c)
  BY <1>2
<1>8. RowOf(s, g, n, c) \in q
  BY <1>3
<1>9. \A o \in C : o # c => RowOf(r, f, m, o) \in p /\ RowOf(r, f, m, o) # x
  <2> SUFFICES ASSUME NEW o \in C, o # c
               PROVE  RowOf(r, f, m, o) \in p /\ RowOf(r, f, m, o) # x
    OBVIOUS
  <2>1. RowOf(r, f, m, o).customer_id = o /\ RowOf(r, f, m, c).customer_id = c
    BY <1>4
  <2> QED
    BY <1>2, <1>7, <2>1
<1>10. ASSUME s[c] # r[c] PROVE \E o \in p : o # x /\ o.recency_days = x.recency_days
  <2>1. PICK o \in C : o # c /\ R[o] = R[c]
    BY <1>5, <1>6, <1>10, OneBucket
  <2> QED
    BY <1>4, <1>5, <1>7, <1>9, <2>1
<1>11. ASSUME g[c] # f[c] PROVE \E o \in p : o # x /\ o.total_transactions = x.total_transactions
  <2>1. PICK o \in C : o # c /\ F[o] = F[c]
    BY <1>5, <1>6, <1>11, OneBucket
  <2> QED
    BY <1>4, <1>5, <1>7, <1>9, <2>1
<1>12. ASSUME n[c] # m[c] PROVE \E o \in p : o # x /\ o.total_spend = x.total_spend
  <2>1. PICK o \in C : o # c /\ M[o] = M[c]
    BY <1>5, <1>6, <1>12, OneBucket
  <2> QED
    BY <1>4, <1>5, <1>7, <1>9, <2>1
<1> QED
  BY <1>4, <1>7, <1>8, <1>10, <1>11, <1>12

-----------------------------------------------------------------------------
(* Tables add up *)

LEMMA CustomersAddUp ==
  ASSUME NEW rows \in SUBSET Row, IsFiniteSet(rows), NEW d, NEW dim,
         NEW p \in BuildCustomerAnalytics(rows, d, dim)
  PROVE  MapThenSumSet(LAMBDA c : c.total_transactions, p) = Cardinality(rows)
<1>1. PICK scores : p = {CustomerRow(rows, d, dim, scores, c) : c \in CustomersOf(rows)}
  <2>1. PICK f \in Ntile(5, ByRecencyAsc(rows, d)), g \in Ntile(5, Frequency(rows)),
             h \in Ntile(5, Monetary(rows)) :
               p = CustomerTable(rows, d, dim, [recency |-> f, frequency |-> g, monetary |-> h])
    BY DEF BuildCustomerAnalytics
  <2> QED
    BY <2>1 DEF CustomerTable
<1> DEFINE RowOf(c) == CustomerRow(rows, d, dim, scores, c)
           key == [r \in rows |-> RowOf(r.customer_id)]
           total == [x \in p |-> x.total_transactions]
<1>2. \A c : RowOf(c).customer_id = c /\ RowOf(c).total_transactions = Cardinality(OfCustomer(rows, c))
  BY CustomerRowCounts
<1> HIDE DEF RowOf
<1>3. key \in [rows -> p] /\ \A x \in p : \E r \in rows : key[r] = x
  BY <1>1 DEF CustomersOf, RowOf
<1>4. ASSUME NEW x \in p PROVE total[x] = Cardinality(Group(rows, key, x))
  <2>1. PICK c : x = RowOf(c)
    BY <1>1 DEF RowOf
  <2>2. Group(rows, key, x) = OfCustomer(rows, c)
    BY <1>2, <2>1 DEF Group, OfCustomer
  <2>3. total[x] = Cardinality(OfCustomer(rows, c))
    BY <1>2, <2>1
  <2> QED
    BY <2>2, <2>3, Zenon
<1>5. IsFiniteSet(p)
  <2> HIDE DEF key
  <2> QED
    BY <1>3, FiniteImage
<1>6. SumFunctionOnSet(total, p) = Cardinality(rows)
  <2> HIDE DEF key, total
  <2> QED
    BY <1>3, <1>4, <1>5, CountByGroups
<1>7. MapThenSumSet(LAMBDA c : c.total_transactions, p) = SumFunctionOnSet(total, p)
  BY DEF MapThenSumSet, SumFunctionOnSet, FoldFunctionOnSet, MapThenFoldSet
<1> QED
  BY <1>6, <1>7

LEMMA DailyRowFields ==
  ASSUME NEW rows, NEW r
  PROVE  LET q == DailyRow(rows, DailyKey(r))
             group == {o \in rows : DailyKey(o) = DailyKey(r)}
         IN /\ q.event_date = EventDate(r) /\ q.transaction_type = r.transaction_type
            /\ q.currency = r.currency
            /\ q.tx_count = Cardinality(group) /\ q.total_volume = Volume(group)
            /\ q.completed_count = CountWith(group, "completed")
            /\ q.failed_count = CountWith(group, "failed")
  BY DEF DailyRow, DailyKey

LEMMA DailyRowIsKey ==
  ASSUME NEW rows, NEW r, NEW o, DailyRow(rows, DailyKey(o)) = DailyRow(rows, DailyKey(r))
  PROVE  DailyKey(o) = DailyKey(r)
<1>1. /\ EventDate(o) = EventDate(r) /\ o.transaction_type = r.transaction_type
      /\ o.currency = r.currency
  <2> DEFINE q == DailyRow(rows, DailyKey(o))
             t == DailyRow(rows, DailyKey(r))
  <2>1. /\ q.event_date = EventDate(o) /\ q.transaction_type = o.transaction_type
        /\ q.currency = o.currency
    BY DailyRowFields
  <2>2. /\ t.event_date = EventDate(r) /\ t.transaction_type = r.transaction_type
        /\ t.currency = r.currency
    BY DailyRowFields
  <2>3. q = t
    OBVIOUS
  <2> HIDE DEF q, t
  <2> QED
    BY <2>1, <2>2, <2>3
<1> QED
  BY <1>1 DEF DailyKey

\* The rows of one date and currency, and the lines of the daily table for them:
\* the lines are groups of the rows.
DayRows(rows, d, currency) == {r \in rows : EventDate(r) = d /\ r.currency = currency}
DayLines(rows, d, currency) ==
  {q \in BuildTransactionAnalytics(rows) : q.event_date = d /\ q.currency = currency}

LEMMA DailyGroups ==
  ASSUME NEW rows, IsFiniteSet(rows), NEW d, NEW currency
  PROVE  /\ IsFiniteSet(DayRows(rows, d, currency)) /\ IsFiniteSet(DayLines(rows, d, currency))
         /\ \E key \in [DayRows(rows, d, currency) -> DayLines(rows, d, currency)] :
              \A q \in DayLines(rows, d, currency) :
                /\ q.tx_count = Cardinality(Group(DayRows(rows, d, currency), key, q))
                /\ q.total_volume = Volume(Group(DayRows(rows, d, currency), key, q))
<1> DEFINE own == DayRows(rows, d, currency)
           same == DayLines(rows, d, currency)
           key == [r \in own |-> DailyRow(rows, DailyKey(r))]
<1>1. IsFiniteSet(own)
  BY FS_Subset DEF DayRows
<1>2. \A r \in own : DailyRow(rows, DailyKey(r)) \in same
  BY DailyRowFields DEF BuildTransactionAnalytics, DayRows, DayLines
<1>3. ASSUME NEW q \in same
      PROVE  \E r \in own : q = DailyRow(rows, DailyKey(r))
  <2>1. PICK r \in rows : q = DailyRow(rows, DailyKey(r))
    BY DEF BuildTransactionAnalytics, DayLines
  <2>2. q.event_date = EventDate(r) /\ q.currency = r.currency
    BY <2>1, DailyRowFields DEF DayLines
  <2> QED
    BY <2>1, <2>2 DEF DayRows, DayLines
<1>4. key \in [own -> same] /\ \A q \in same : \E r \in own : key[r] = q
  <2> HIDE DEF own, same
  <2> QED
    BY <1>2, <1>3
<1>5. IsFiniteSet(same)
  <2> HIDE DEF own, same, key
  <2> QED
    BY <1>1, <1>4, FiniteImage
<1>6. ASSUME NEW q \in same
      PROVE  q.tx_count = Cardinality(Group(own, key, q)) /\ q.total_volume = Volume(Group(own, key, q))
  <2>1. PICK r \in own : q = DailyRow(rows, DailyKey(r))
    BY <1>3
  <2> DEFINE group == {o \in rows : DailyKey(o) = DailyKey(r)}
  <2>2. q.tx_count = Cardinality(group) /\ q.total_volume = Volume(group)
    BY <2>1, DailyRowFields
  <2>3. group \subseteq own
    BY <2>1 DEF DailyKey, DayRows
  <2>4. \A o \in own : key[o] = q <=> DailyKey(o) = DailyKey(r)
    BY <2>1, DailyRowIsKey
  <2>5. Group(own, key, q) = group
    <3> HIDE DEF key
    <3> QED
      BY <2>3, <2>4 DEF Group, DayRows
  <2> HIDE DEF group, key, own
  <2> QED
    BY <2>2, <2>5, Zenon
<1> HIDE DEF key
<1> QED
  BY <1>1, <1>4, <1>5, <1>6

LEMMA DailyAddsUp ==
  ASSUME NEW rows \in SUBSET Row, IsFiniteSet(rows), NEW d, NEW currency
  PROVE  /\ MapThenSumSet(LAMBDA q : q.tx_count, DayLines(rows, d, currency))
              = Cardinality(DayRows(rows, d, currency))
         /\ MapThenSumSet(LAMBDA q : q.total_volume, DayLines(rows, d, currency))
              = Volume(DayRows(rows, d, currency))
<1> DEFINE own == DayRows(rows, d, currency)
           same == DayLines(rows, d, currency)
           count == [q \in same |-> q.tx_count]
           volume == [q \in same |-> q.total_volume]
<1>1. PICK key : /\ IsFiniteSet(own) /\ IsFiniteSet(same) /\ key \in [own -> same]
                 /\ \A q \in same : /\ q.tx_count = Cardinality(Group(own, key, q))
                                   /\ q.total_volume = Volume(Group(own, key, q))
  BY DailyGroups
<1>2. own \in SUBSET Row
  BY DEF DayRows
<1>3. /\ \A q \in same : count[q] = q.tx_count /\ volume[q] = q.total_volume
      /\ MapThenSumSet(LAMBDA q : q.tx_count, same) = SumFunctionOnSet(count, same)
      /\ MapThenSumSet(LAMBDA q : q.total_volume, same) = SumFunctionOnSet(volume, same)
  <2> HIDE DEF same
  <2>1. MapThenSumSet(LAMBDA q : q.tx_count, same) = SumFunctionOnSet(count, same)
    BY DEF MapThenSumSet, SumFunctionOnSet, FoldFunctionOnSet, MapThenFoldSet
  <2>2. MapThenSumSet(LAMBDA q : q.total_volume, same) = SumFunctionOnSet(volume, same)
    BY DEF MapThenSumSet, SumFunctionOnSet, FoldFunctionOnSet, MapThenFoldSet
  <2> QED
    BY <2>1, <2>2
<1> HIDE DEF own, same, count, volume
<1>4. SumFunctionOnSet(count, same) = Cardinality(own)
  <2>1. \A q \in same : count[q] = Cardinality(Group(own, key, q))
    BY <1>1, <1>3
  <2> QED
    BY <1>1, <2>1, CountByGroups
<1>5. SumFunctionOnSet(volume, same) = SumFunctionOnSet(Amount, own)
  <2>1. \A r \in own : Amount[r] \in Nat
    BY <1>2 DEF Amount, Row
  <2>2. ASSUME NEW q \in same PROVE volume[q] = SumFunctionOnSet(Amount, Group(own, key, q))
    <3>1. Group(own, key, q) \in SUBSET Row
      BY <1>2 DEF Group
    <3> QED
      BY <1>1, <1>3, <3>1, VolumeIsSum
  <2> QED
    BY <1>1, <2>1, <2>2, SumByGroups
<1>6. SumFunctionOnSet(volume, same) = Volume(own)
  BY <1>2, <1>5, VolumeIsSum
<1> QED
  BY <1>3, <1>4, <1>6 DEF own, same

\* What did not fail, counted from the daily table.
LEMMA DailyCountsSuccess ==
  ASSUME NEW rows \in SUBSET Row, IsFiniteSet(rows)
  PROVE  MapThenSumSet(LAMBDA q : q.tx_count - q.failed_count, BuildTransactionAnalytics(rows))
           = Cardinality({r \in rows : r.status # "failed"})
<1> DEFINE daily == BuildTransactionAnalytics(rows)
           RowOf(r) == DailyRow(rows, DailyKey(r))
           good == {r \in rows : r.status # "failed"}
           key == [r \in good |-> RowOf(r)]
           all == [r \in rows |-> RowOf(r)]
           count == [q \in daily |-> q.tx_count - q.failed_count]
<1>1. daily = {RowOf(r) : r \in rows}
  BY DEF BuildTransactionAnalytics
<1>2. IsFiniteSet(good)
  BY FS_Subset
<1>3. key \in [good -> daily] /\ all \in [rows -> daily] /\ \A q \in daily : \E r \in rows : all[r] = q
  <2> HIDE DEF RowOf
  <2> QED
    BY <1>1
<1>4. IsFiniteSet(daily)
  <2> HIDE DEF all, daily
  <2> QED
    BY <1>3, FiniteImage
<1>5. ASSUME NEW q \in daily
      PROVE  count[q] = Cardinality(Group(good, key, q))
  <2>1. PICK r \in rows : q = RowOf(r)
    BY <1>1
  <2> DEFINE group == {o \in rows : DailyKey(o) = DailyKey(r)}
             failed == {o \in group : o.status = "failed"}
             own == Group(good, key, q)
  <2>2. q.tx_count = Cardinality(group) /\ q.failed_count = Cardinality(failed)
    <3>1. q.tx_count = Cardinality(group) /\ q.failed_count = CountWith(group, "failed")
      BY <2>1, DailyRowFields
    <3> HIDE DEF group
    <3> QED
      BY <3>1 DEF CountWith
  <2>3. \A o \in good : key[o] = q <=> DailyKey(o) = DailyKey(r)
    BY <2>1, DailyRowIsKey
  <2>4. own = group \ failed
    <3> HIDE DEF key
    <3> QED
      BY <2>3 DEF Group
  <2>5. IsFiniteSet(group)
    BY FS_Subset
  <2>6. group \cap failed = failed
    OBVIOUS
  <2> HIDE DEF group, failed, own, key
  <2>7. Cardinality(group \ failed) = Cardinality(group) - Cardinality(failed)
    <3>1. Cardinality(group \cap failed) = Cardinality(failed)
      BY <2>6, Zenon
    <3> QED
      BY <2>5, <3>1, FS_Difference
  <2>8. Cardinality(own) = Cardinality(group \ failed)
    BY <2>4, Zenon
  <2> QED
    BY <2>2, <2>7, <2>8 DEF own
<1>6. MapThenSumSet(LAMBDA q : q.tx_count - q.failed_count, daily) = SumFunctionOnSet(count, daily)
  <2> HIDE DEF daily
  <2> QED
    BY DEF MapThenSumSet, SumFunctionOnSet, FoldFunctionOnSet, MapThenFoldSet
<1>7. SumFunctionOnSet(count, daily) = Cardinality(good)
  <2> HIDE DEF count, daily, good, key
  <2> QED
    BY <1>2, <1>3, <1>4, <1>5, CountByGroups
<1> QED
  BY <1>6, <1>7

LEMMA CurrencyRowFields ==
  ASSUME NEW rows, NEW d, NEW currency
  PROVE  LET q == CurrencyRow(rows, d, currency)
             own == {r \in rows : r.currency = currency}
         IN /\ q.event_date = d /\ q.currency = currency
            /\ q.total_volume = Volume(own) /\ q.tx_count = Cardinality(own)
  BY DEF CurrencyRow

LEMMA InputTypes ==
  ASSUME NEW from \in SUBSET Row, IsFiniteSet(from), NEW d \in Int
  PROVE  /\ CustomerInput(from, d) \in SUBSET Row /\ IsFiniteSet(CustomerInput(from, d))
         /\ TransactionInput(from, d) \in SUBSET Row /\ IsFiniteSet(TransactionInput(from, d))
         /\ RiskInput(from, d) \in SUBSET Row /\ IsFiniteSet(RiskInput(from, d))
<1>1. /\ CustomerInput(from, d) \in SUBSET from /\ TransactionInput(from, d) \in SUBSET from
      /\ RiskInput(from, d) \in SUBSET from
  BY DEF CustomerInput, TransactionInput, RiskInput, InWindow
<1> QED
  BY <1>1, FS_Subset

LEMMA EventDateType ==
  ASSUME NEW r \in Row
  PROVE  EventDate(r) \in Nat
<1>1. r.timestamp \in Nat
  BY DEF Row
<1> QED
  BY <1>1 DEF EventDate, DayOf, Day, Minute

\* What the risk job writes of a currency is what the daily table has of the date.
LEMMA VolumesReconcile ==
  ASSUME NEW from \in SUBSET Row, IsFiniteSet(from), NEW d \in Int,
         NEW q \in VolumeByCurrency(RiskInput(from, d), d)
  PROVE  LET lines == DayLines(TransactionInput(from, d), d, q.currency) IN
           /\ q.tx_count = MapThenSumSet(LAMBDA l : l.tx_count, lines)
           /\ q.total_volume = MapThenSumSet(LAMBDA l : l.total_volume, lines)
<1> DEFINE rows == TransactionInput(from, d)
           own == {r \in RiskInput(from, d) : r.currency = q.currency}
<1>1. q.tx_count = Cardinality(own) /\ q.total_volume = Volume(own)
  <2>1. PICK currency : q = CurrencyRow(RiskInput(from, d), d, currency)
    BY DEF VolumeByCurrency
  <2> DEFINE mine == {r \in RiskInput(from, d) : r.currency = currency}
  <2>2. /\ q.currency = currency
        /\ q.tx_count = Cardinality(mine) /\ q.total_volume = Volume(mine)
    BY <2>1, CurrencyRowFields
  <2>3. own = mine
    BY <2>2
  <2> HIDE DEF own, mine
  <2> QED
    BY <2>2, <2>3, Zenon
<1>2. own = DayRows(rows, d, q.currency)
  <2>1. d >= d - 30 /\ d <= d
    OBVIOUS
  <2> QED
    BY <2>1 DEF RiskInput, DayRows, TransactionInput, InWindow
<1>3. rows \in SUBSET Row /\ IsFiniteSet(rows)
  BY InputTypes
<1> HIDE DEF rows, own
<1>4. Cardinality(own) = Cardinality(DayRows(rows, d, q.currency))
  BY <1>2, Zenon
<1>5. Volume(own) = Volume(DayRows(rows, d, q.currency))
  BY <1>2, Zenon
<1> QED
  BY <1>1, <1>3, <1>4, <1>5, DailyAddsUp DEF rows

\* The customers have what did not fail in the 30 days, and what only the 90 reach.
LEMMA SuccessAndOlder ==
  ASSUME NEW from \in SUBSET Row, IsFiniteSet(from), NEW d \in Int
  PROVE  Cardinality(CustomerInput(from, d))
           = Cardinality({r \in TransactionInput(from, d) : r.status # "failed"})
               + Cardinality(CustomerInput(from, d) \ TransactionInput(from, d))
<1> DEFINE C == CustomerInput(from, d)
           T == TransactionInput(from, d)
           good == {r \in T : r.status # "failed"}
<1>1. C \cap T = good
  <2>1. \A r \in from : EventDate(r) >= d - 30 => EventDate(r) >= d - 90
    BY EventDateType
  <2> QED
    BY <2>1 DEF CustomerInput, TransactionInput, InWindow
<1>2. IsFiniteSet(C) /\ IsFiniteSet(good) /\ IsFiniteSet(C \ T)
  BY InputTypes, FS_Subset
<1>3. Cardinality(C) \in Nat /\ Cardinality(good) \in Nat
  BY <1>2, FS_CardinalityType
<1> HIDE DEF C, T, good
<1>4. Cardinality(C \ T) = Cardinality(C) - Cardinality(C \cap T)
  BY <1>2, FS_Difference
<1>5. Cardinality(C \cap T) = Cardinality(good)
  BY <1>1, Zenon
<1> QED
  BY <1>3, <1>4, <1>5 DEF C, T, good

\* What TablesReconcile says of three partitions of date d computed from `from`.
Reconciled(from, d, volumes, daily, customers) ==
  /\ \A r \in volumes :
       LET same == {q \in daily : q.event_date = d /\ q.currency = r.currency} IN
         /\ r.tx_count = MapThenSumSet(LAMBDA q : q.tx_count, same)
         /\ r.total_volume = MapThenSumSet(LAMBDA q : q.total_volume, same)
  /\ MapThenSumSet(LAMBDA c : c.total_transactions, customers)
       = MapThenSumSet(LAMBDA q : q.tx_count - q.failed_count, daily)
           + Cardinality(CustomerInput(from, d) \ TransactionInput(from, d))

LEMMA PartitionsReconcile ==
  ASSUME NEW from \in SUBSET Row, IsFiniteSet(from), NEW d \in Int, NEW dim,
         NEW customers \in BuildCustomerAnalytics(CustomerInput(from, d), d, dim)
  PROVE  Reconciled(from, d, VolumeByCurrency(RiskInput(from, d), d),
                    BuildTransactionAnalytics(TransactionInput(from, d)), customers)
<1>1. \A r \in VolumeByCurrency(RiskInput(from, d), d) :
        LET lines == DayLines(TransactionInput(from, d), d, r.currency) IN
          /\ r.tx_count = MapThenSumSet(LAMBDA q : q.tx_count, lines)
          /\ r.total_volume = MapThenSumSet(LAMBDA q : q.total_volume, lines)
  BY VolumesReconcile
<1>2. MapThenSumSet(LAMBDA c : c.total_transactions, customers) = Cardinality(CustomerInput(from, d))
  BY InputTypes, CustomersAddUp
<1>3. MapThenSumSet(LAMBDA q : q.tx_count - q.failed_count,
                    BuildTransactionAnalytics(TransactionInput(from, d)))
        = Cardinality({r \in TransactionInput(from, d) : r.status # "failed"})
  BY InputTypes, DailyCountsSuccess
<1> QED
  BY <1>1, <1>2, <1>3, SuccessAndOlder DEF Reconciled, DayLines

-----------------------------------------------------------------------------
(* Types of the rows written *)

\* Of the tiers whose floor is reached one has the highest floor.
LEMMA TierType ==
  ASSUME NEW rfm \in Nat
  PROVE  ActivityTier(rfm) \in DOMAIN TierFloor
<1> DEFINE Best(tier) ==
             /\ rfm >= TierFloor[tier]
             /\ \A other \in DOMAIN TierFloor :
                  rfm >= TierFloor[other] => TierFloor[tier] >= TierFloor[other]
<1>1. /\ DOMAIN TierFloor = {"champion", "loyal", "potential", "at_risk", "churned"}
      /\ TierFloor["champion"] = 12 /\ TierFloor["loyal"] = 9 /\ TierFloor["potential"] = 6
      /\ TierFloor["at_risk"] = 4 /\ TierFloor["churned"] = 0
  BY DEF TierFloor
<1>2. \E tier \in DOMAIN TierFloor : Best(tier)
  <2>1. CASE rfm >= 12
    <3>1. Best("champion")
      BY <1>1, <2>1
    <3> QED
      BY <1>1, <3>1
  <2>2. CASE rfm >= 9 /\ rfm < 12
    <3>1. Best("loyal")
      BY <1>1, <2>2
    <3> QED
      BY <1>1, <3>1
  <2>3. CASE rfm >= 6 /\ rfm < 9
    <3>1. Best("potential")
      BY <1>1, <2>3
    <3> QED
      BY <1>1, <3>1
  <2>4. CASE rfm >= 4 /\ rfm < 6
    <3>1. Best("at_risk")
      BY <1>1, <2>4
    <3> QED
      BY <1>1, <3>1
  <2>5. CASE rfm < 4
    <3>1. Best("churned")
      BY <1>1, <2>5
    <3> QED
      BY <1>1, <3>1
  <2> QED
    BY <2>1, <2>2, <2>3, <2>4, <2>5
<1>3. ActivityTier(rfm) = CHOOSE tier \in DOMAIN TierFloor : Best(tier)
  BY DEF ActivityTier
<1> HIDE DEF Best
<1> QED
  BY <1>2, <1>3

LEMMA CustomerRowTypes ==
  ASSUME NEW rows \in SUBSET Row, IsFiniteSet(rows), NEW d \in Int, NEW c \in CustomersOf(rows),
         \A r \in rows : EventDate(r) <= d,
         NEW dim, \A k \in DOMAIN dim : dim[k] \in Text \cup {Null},
         NEW scores, scores.recency[c] \in 1..5, scores.frequency[c] \in 1..5,
         scores.monetary[c] \in 1..5
  PROVE  CustomerRow(rows, d, dim, scores, c) \in
           [customer_id : Text, total_transactions : Nat, total_spend : Nat, active_days : Nat,
            accounts_used : Nat, total_purchases : Nat, total_transfers : Nat,
            country : Text \cup {Null}, recency_days : Nat, recency_score : 1..5,
            frequency_score : 1..5, monetary_score : 1..5, rfm_score : 3..15,
            activity_tier : DOMAIN TierFloor]
<1> DEFINE own == OfCustomer(rows, c)
           dates == {EventDate(r) : r \in own}
           accounts == {r.account_id : r \in own}
           purchases == {r \in own : r.transaction_type = "purchase"}
           transfers == {r \in own : r.transaction_type = "transfer"}
           country == IF c \in DOMAIN dim THEN dim[c] ELSE Null
           rfm == scores.recency[c] + scores.frequency[c] + scores.monetary[c]
<1>1. c \in Text
  BY DEF CustomersOf, Row
<1>2. own \in SUBSET rows /\ purchases \in SUBSET rows /\ transfers \in SUBSET rows
  BY DEF OfCustomer
<1>3. /\ IsFiniteSet(own) /\ own \in SUBSET Row
      /\ IsFiniteSet(purchases) /\ purchases \in SUBSET Row
      /\ IsFiniteSet(transfers) /\ transfers \in SUBSET Row
  <2> HIDE DEF own, purchases, transfers
  <2> QED
    BY <1>2, FS_Subset
<1>4. IsFiniteSet(dates)
  <2>1. PICK f \in [own -> dates] : \A t \in dates : \E r \in own : f[r] = t
    <3>1. /\ [r \in own |-> EventDate(r)] \in [own -> dates]
          /\ \A t \in dates : \E r \in own : [o \in own |-> EventDate(o)][r] = t
      OBVIOUS
    <3> QED
      BY <3>1
  <2> HIDE DEF dates, own
  <2> QED
    BY <1>3, <2>1, FiniteImage
<1>5. IsFiniteSet(accounts)
  <2>1. PICK f \in [own -> accounts] : \A t \in accounts : \E r \in own : f[r] = t
    <3>1. /\ [r \in own |-> r.account_id] \in [own -> accounts]
          /\ \A t \in accounts : \E r \in own : [o \in own |-> o.account_id][r] = t
      OBVIOUS
    <3> QED
      BY <3>1
  <2> HIDE DEF accounts, own
  <2> QED
    BY <1>3, <2>1, FiniteImage
<1>6. country \in Text \cup {Null}
  OBVIOUS
<1>7. rfm \in 3..15
  OBVIOUS
<1>8. ActivityTier(rfm) \in DOMAIN TierFloor
  <2> HIDE DEF rfm
  <2> QED
    BY <1>7, TierType
<1>9. RecencyDays(rows, d)[c] \in Nat
  <2>1. PICK r \in OfCustomer(rows, c) : RecencyDays(rows, d)[c] = d - EventDate(r)
    BY RecencyType
  <2>2. r \in rows
    BY DEF OfCustomer
  <2> QED
    BY <2>1, <2>2, EventDateType
<1>10. CustomerRow(rows, d, dim, scores, c) =
        [customer_id |-> c, total_transactions |-> Cardinality(own), total_spend |-> Volume(own),
         active_days |-> Cardinality(dates), accounts_used |-> Cardinality(accounts),
         total_purchases |-> Volume(purchases), total_transfers |-> Volume(transfers),
         country |-> country, recency_days |-> RecencyDays(rows, d)[c],
         recency_score |-> scores.recency[c], frequency_score |-> scores.frequency[c],
         monetary_score |-> scores.monetary[c], rfm_score |-> rfm,
         activity_tier |-> ActivityTier(rfm)]
  BY DEF CustomerRow
<1> HIDE DEF own, dates, accounts, purchases, transfers, country, rfm
<1>11. /\ Cardinality(own) \in Nat /\ Cardinality(dates) \in Nat /\ Cardinality(accounts) \in Nat
       /\ Volume(own) \in Nat /\ Volume(purchases) \in Nat /\ Volume(transfers) \in Nat
  BY <1>3, <1>4, <1>5, FS_CardinalityType, VolumeType
<1> QED
  BY <1>1, <1>6, <1>7, <1>8, <1>9, <1>10, <1>11

\* Completed and failed transactions of a group are different ones.
LEMMA DailyRowTypes ==
  ASSUME NEW from \in SUBSET Row, IsFiniteSet(from), NEW d \in Int,
         NEW q \in BuildTransactionAnalytics(TransactionInput(from, d))
  PROVE  q.completed_count + q.failed_count <= q.tx_count /\ q.event_date <= d
<1>1. PICK r \in TransactionInput(from, d) : q = DailyRow(TransactionInput(from, d), DailyKey(r))
  BY DEF BuildTransactionAnalytics
<1> DEFINE group == {o \in TransactionInput(from, d) : DailyKey(o) = DailyKey(r)}
           done == {o \in group : o.status = "completed"}
           failed == {o \in group : o.status = "failed"}
<1>2. /\ q.event_date = EventDate(r) /\ q.tx_count = Cardinality(group)
      /\ q.completed_count = CountWith(group, "completed")
      /\ q.failed_count = CountWith(group, "failed")
  BY <1>1, DailyRowFields
<1>3. q.completed_count = Cardinality(done) /\ q.failed_count = Cardinality(failed)
  <2> HIDE DEF group
  <2> QED
    BY <1>2 DEF CountWith
<1>4. group \in SUBSET TransactionInput(from, d)
  OBVIOUS
<1>5. IsFiniteSet(group)
  <2> HIDE DEF group
  <2> QED
    BY <1>4, InputTypes, FS_Subset
<1>6. done \in SUBSET group /\ failed \in SUBSET (group \ done)
  OBVIOUS
<1> HIDE DEF group, done, failed
<1>7. /\ IsFiniteSet(done) /\ IsFiniteSet(failed) /\ IsFiniteSet(group \ done)
      /\ Cardinality(group) \in Nat /\ Cardinality(done) \in Nat /\ Cardinality(failed) \in Nat
      /\ Cardinality(group \ done) \in Nat
  BY <1>5, <1>6, FS_Subset, FS_CardinalityType
<1>8. Cardinality(failed) <= Cardinality(group \ done)
  BY <1>6, <1>7, FS_Subset
<1>9. Cardinality(group \ done) = Cardinality(group) - Cardinality(done)
  <2>1. group \cap done = done
    BY <1>6
  <2>2. Cardinality(group \cap done) = Cardinality(done)
    BY <2>1, Zenon
  <2>3. Cardinality(group \ done) = Cardinality(group) - Cardinality(group \cap done)
    BY <1>5, FS_Difference
  <2> QED
    BY <2>2, <2>3
<1>10. EventDate(r) <= d
  BY DEF TransactionInput, InWindow
<1> QED
  BY <1>2, <1>3, <1>7, <1>8, <1>9, <1>10

LEMMA CurrencyRowTypes ==
  ASSUME NEW rows, IsFiniteSet(rows), NEW d, NEW q \in VolumeByCurrency(rows, d)
  PROVE  q.event_date = d /\ q.tx_count > 0
<1>1. PICK currency \in {r.currency : r \in rows} : q = CurrencyRow(rows, d, currency)
  BY DEF VolumeByCurrency
<1> DEFINE own == {o \in rows : o.currency = currency}
<1>2. q.event_date = d /\ q.tx_count = Cardinality(own)
  BY <1>1, CurrencyRowFields
<1>3. own \in SUBSET rows /\ own # {}
  OBVIOUS
<1> HIDE DEF own
<1>4. IsFiniteSet(own) /\ Cardinality(own) \in Nat
  BY <1>3, FS_Subset, FS_CardinalityType
<1>5. Cardinality(own) # 0
  BY <1>3, <1>4, FS_EmptySet
<1> QED
  BY <1>2, <1>4, <1>5

-----------------------------------------------------------------------------
(* What the partitions, the cache and the signals were computed from *)

SilverInv == silver \subseteq Row /\ IsFiniteSet(silver) /\ changes \in 0..MaxChanges

\* The signals of the running job are those of its cache, and the cache is the
\* date's rows in what Silver held when it was filled.
SignalsInv ==
  /\ risk.rows \subseteq Row /\ IsFiniteSet(risk.rows)
  /\ risk.signals.velocity = BuildVelocityAlerts(risk.rows)
  /\ risk.signals.large = BuildLargeTxFlags(risk.rows)
  /\ risk.signals.failure = BuildFailureRateFlags(risk.rows)
RiskInv ==
  /\ SignalsInv
  /\ risk # Idle => /\ risk.date \in ProcessDates
                    /\ risk.table \subseteq Row /\ IsFiniteSet(risk.table)
                    /\ risk.rows = RiskInput(risk.table, risk.date)

\* One partition, and one source, for each table and date.
Grid(g) == /\ g = [t \in Table |-> g[t]]
           /\ \A t \in Table : g[t] = [d \in ProcessDates |-> g[t][d]]
TablesInv == Grid(gold) /\ Grid(source)

\* What the partition of table t and date d may be if it was computed from `from`.
ComputedFrom(t, d, partition, from) ==
  /\ from \subseteq Row /\ IsFiniteSet(from)
  /\ t = "customer_analytics" =>
       partition \in BuildCustomerAnalytics(CustomerInput(from, d), d, CustomerDim)
  /\ t = "transaction_analytics" =>
       partition = BuildTransactionAnalytics(TransactionInput(from, d))
  /\ t = "risk_metrics" => partition = VolumeByCurrency(RiskInput(from, d), d)

SourceInv == \A t \in Table, d \in ProcessDates : ComputedFrom(t, d, gold[t][d], source[t][d])

IInv == SilverInv /\ RiskInv /\ TablesInv /\ SourceInv

-----------------------------------------------------------------------------
(* Bursts *)

\* A window of ten minutes has eleven instants, so one of its rows is the last.
LEMMA LastOfWindow ==
  ASSUME NEW S, NEW t \in Int, S # {},
         \A s \in S : s.timestamp \in Int /\ s.timestamp >= t /\ s.timestamp <= t + 10
  PROVE  \E q \in S : \A s \in S : s.timestamp <= q.timestamp
<1> DEFINE At(i) == \E s \in S : s.timestamp = t + i
<1>1. \A s \in S : s.timestamp - t \in 0..10 /\ s.timestamp = t + (s.timestamp - t)
  OBVIOUS
<1>2. \E i \in 0..10 : At(i)
  BY <1>1
<1>3. \A s \in S : At(s.timestamp - t)
  BY <1>1
<1> HIDE DEF At
<1>4. PICK i \in 0..10 : At(i) /\ \A j \in 0..10 : At(j) => j <= i
  BY <1>2
<1>5. PICK q \in S : q.timestamp = t + i
  BY <1>4 DEF At
<1>6. \A s \in S : s.timestamp - t <= i
  BY <1>1, <1>3, <1>4
<1>7. \A s \in S : s.timestamp <= t + i
  BY <1>1, <1>6
<1> QED
  BY <1>5, <1>7

LEMMA LargerSet ==
  ASSUME NEW T, IsFiniteSet(T), NEW S \in SUBSET T, NEW n \in Nat, Cardinality(S) > n
  PROVE  Cardinality(T) > n
<1>1. /\ Cardinality(S) <= Cardinality(T)
      /\ Cardinality(S) \in Nat /\ Cardinality(T) \in Nat
  BY FS_Subset, FS_CardinalityType
<1> QED
  BY <1>1

LEMMA BurstIsFlagged ==
  ASSUME NEW rows \in SUBSET Row, IsFiniteSet(rows), NEW a, NEW t \in Int,
         Cardinality(TenMinutesFrom(rows, a, t)) > VELOCITY_TX
  PROVE  \E q \in Flagged(rows) : q.account_id = a
<1> DEFINE S == TenMinutesFrom(rows, a, t)
<1>1. S \subseteq rows /\ \A s \in S : /\ s.account_id = a /\ s.timestamp \in Int
                                       /\ s.timestamp >= t /\ s.timestamp <= t + 10
  BY DEF TenMinutesFrom, Row, Minute
<1>2. VELOCITY_TX \in Nat
  BY GoldAssumption
<1>3. S # {}
  <2>1. Cardinality({}) = 0
    BY FS_EmptySet
  <2> QED
    BY <1>2, <2>1
<1> HIDE DEF S
<1>4. PICK q \in S : \A s \in S : s.timestamp <= q.timestamp
  BY <1>1, <1>3, LastOfWindow
<1>5. S \subseteq TxIn10MinWindow(rows, q)
  BY <1>1, <1>4 DEF TxIn10MinWindow, Minute
<1>6. IsFiniteSet(TxIn10MinWindow(rows, q))
  BY FS_Subset DEF TxIn10MinWindow
<1>7. Cardinality(TxIn10MinWindow(rows, q)) > VELOCITY_TX
  BY <1>2, <1>5, <1>6, LargerSet DEF S
<1> QED
  BY <1>1, <1>7 DEF Flagged

LEMMA FlaggedIsBurst ==
  ASSUME NEW rows \in SUBSET Row, NEW q \in Flagged(rows)
  PROVE  Cardinality(TenMinutesFrom(rows, q.account_id, q.timestamp - 10 * Minute)) > VELOCITY_TX
<1>1. q \in rows /\ q.timestamp \in Nat
  BY DEF Flagged, Row
<1>2. TenMinutesFrom(rows, q.account_id, q.timestamp - 10 * Minute) = TxIn10MinWindow(rows, q)
  BY <1>1 DEF TenMinutesFrom, TxIn10MinWindow, Minute, Row
<1> QED
  BY <1>2 DEF Flagged

LEMMA AlertsAreBursts == SignalsInv => VelocityIsABurst
<1> SUFFICES ASSUME SignalsInv, NEW a
             PROVE  (\E alert \in risk.signals.velocity : alert.account_id = a)
                      <=> \E r \in risk.rows, k \in 0..10 :
                            Cardinality(TenMinutesFrom(risk.rows, a, r.timestamp - k * Minute))
                              > VELOCITY_TX
  BY DEF VelocityIsABurst
<1>1. risk.rows \in SUBSET Row /\ IsFiniteSet(risk.rows)
  BY DEF SignalsInv
<1>2. (\E alert \in risk.signals.velocity : alert.account_id = a)
        <=> \E q \in Flagged(risk.rows) : q.account_id = a
  <2> DEFINE Alert(q) == [account_id |-> q.account_id, customer_id |-> q.customer_id]
  <2>1. risk.signals.velocity = {Alert(q) : q \in Flagged(risk.rows)}
    BY DEF SignalsInv, BuildVelocityAlerts
  <2>2. \A q : Alert(q).account_id = q.account_id
    OBVIOUS
  <2> HIDE DEF Alert
  <2> QED
    BY <2>1, <2>2
<1>3. ASSUME NEW q \in Flagged(risk.rows), q.account_id = a
      PROVE  \E r \in risk.rows, k \in 0..10 :
               Cardinality(TenMinutesFrom(risk.rows, a, r.timestamp - k * Minute)) > VELOCITY_TX
  <2>1. q \in risk.rows /\ 10 \in 0..10
    BY DEF Flagged
  <2> QED
    BY <1>1, <1>3, <2>1, FlaggedIsBurst
<1>4. ASSUME NEW r \in risk.rows, NEW k \in 0..10,
             Cardinality(TenMinutesFrom(risk.rows, a, r.timestamp - k * Minute)) > VELOCITY_TX
      PROVE  \E q \in Flagged(risk.rows) : q.account_id = a
  <2>1. r.timestamp - k * Minute \in Int
    BY <1>1 DEF Row, Minute
  <2> QED
    BY <1>1, <1>4, <2>1, BurstIsFlagged
<1> QED
  BY <1>2, <1>3, <1>4

-----------------------------------------------------------------------------
(* The invariant *)

LEMMA NoRowsNoSignals ==
  /\ BuildVelocityAlerts({}) = {}
  /\ BuildLargeTxFlags({}) = {}
  /\ BuildFailureRateFlags({}) = {}
  BY DEF BuildVelocityAlerts, Flagged, BuildLargeTxFlags, BuildFailureRateFlags

LEMMA IdleHasNoRows ==
  /\ Idle.rows = {} /\ Idle.table = {} /\ Idle.date = Null
  /\ Idle.signals.velocity = {} /\ Idle.signals.large = {} /\ Idle.signals.failure = {}
  BY DEF Idle, NoSignals

\* No rows, no lines: the empty partitions are what the jobs make of an empty table.
LEMMA NothingFromNothing ==
  ASSUME NEW t, NEW d
  PROVE  ComputedFrom(t, d, {}, {})
<1>1. CustomerInput({}, d) = {} /\ TransactionInput({}, d) = {} /\ RiskInput({}, d) = {}
  BY DEF CustomerInput, TransactionInput, RiskInput, InWindow
<1>2. BuildTransactionAnalytics({}) = {} /\ VolumeByCurrency({}, d) = {}
  BY DEF BuildTransactionAnalytics, VolumeByCurrency
<1>4. /\ DOMAIN ByRecencyAsc({}, d) = {} /\ DOMAIN Frequency({}) = {} /\ DOMAIN Monetary({}) = {}
      /\ CustomersOf({}) = {}
  BY DEF ByRecencyAsc, RecencyDays, Frequency, Monetary, CustomersOf
<1>3. ASSUME NEW key, DOMAIN key = {}
      PROVE  \E score : score \in Ntile(5, key)
  <2>1. IsFiniteSet(DOMAIN key) /\ \A c \in DOMAIN key : key[c] \in Int
    BY <1>3, FS_EmptySet
  <2> QED
    BY <2>1, NtileExists
<1>5. PICK r, f, m : r \in Ntile(5, ByRecencyAsc({}, d)) /\ f \in Ntile(5, Frequency({}))
                       /\ m \in Ntile(5, Monetary({}))
  BY <1>3, <1>4
<1>6. CustomerTable({}, d, CustomerDim, [recency |-> r, frequency |-> f, monetary |-> m]) = {}
  BY <1>4 DEF CustomerTable
<1>7. {} \in BuildCustomerAnalytics({}, d, CustomerDim)
  BY <1>5, <1>6 DEF BuildCustomerAnalytics
<1>8. {} \in BuildCustomerAnalytics(CustomerInput({}, d), d, CustomerDim)
  BY <1>1, <1>7, Zenon
<1>9. /\ BuildTransactionAnalytics(TransactionInput({}, d)) = {}
      /\ VolumeByCurrency(RiskInput({}, d), d) = {}
  BY <1>1, <1>2, Zenon
<1> QED
  BY <1>8, <1>9, FS_EmptySet DEF ComputedFrom

LEMMA InitInv == Init => IInv
<1> SUFFICES ASSUME Init PROVE IInv
  OBVIOUS
<1>1. SilverInv
  BY GoldJobsAssumption, FS_Subset DEF Init, SilverInv
<1>2. RiskInv
  BY NoRowsNoSignals, IdleHasNoRows, FS_EmptySet DEF RiskInv, SignalsInv, Init
<1>3. TablesInv
  BY DEF TablesInv, Grid, Init
<1>4. \A t \in Table, d \in ProcessDates : gold[t][d] = {} /\ source[t][d] = {}
  BY DEF Init
<1>5. SourceInv
  BY <1>4, NothingFromNothing DEF SourceInv
<1> QED
  BY <1>1, <1>2, <1>3, <1>5 DEF IInv

Put(g, t, d, x) == [g EXCEPT ![t][d] = x]
Replaced(h, g, t, d, x) ==
  \A u \in Table, e \in ProcessDates : h[u][e] = IF u = t /\ e = d THEN x ELSE g[u][e]

LEMMA GridExcept ==
  ASSUME NEW g, Grid(g), NEW t \in Table, NEW d \in ProcessDates, NEW x,
         NEW h, h = Put(g, t, d, x)
  PROVE  /\ Grid(h)
         /\ Replaced(h, g, t, d, x)
<1>1. DOMAIN g = Table /\ \A u \in Table : g[u] = [e \in ProcessDates |-> g[u][e]]
  BY DEF Grid
<1>2. h = [g EXCEPT ![t] = [g[t] EXCEPT ![d] = x]]
  BY DEF Put
<1>3. DOMAIN h = Table /\ h[t] = [g[t] EXCEPT ![d] = x] /\ \A u \in Table : u # t => h[u] = g[u]
  BY <1>1, <1>2
<1>4. DOMAIN g[t] = ProcessDates
  BY <1>1
<1>5. \A u \in Table : h[u] = [e \in ProcessDates |-> h[u][e]]
  <2>1. h[t] = [e \in ProcessDates |-> h[t][e]]
    BY <1>3, <1>4
  <2>2. ASSUME NEW u \in Table, u # t PROVE h[u] = [e \in ProcessDates |-> h[u][e]]
    BY <1>1, <1>3, <2>2
  <2> QED
    BY <2>1, <2>2
<1>6. h = [u \in Table |-> h[u]]
  BY <1>2, <1>3
<1>7. ASSUME NEW u \in Table, NEW e \in ProcessDates
      PROVE  h[u][e] = IF u = t /\ e = d THEN x ELSE g[u][e]
  BY <1>3, <1>4
<1> QED
  BY <1>5, <1>6, <1>7 DEF Grid, Replaced

\* A partition that is replaced leaves every other one, and its source, as it was.
LEMMA ReplaceKeepsRest ==
  ASSUME TablesInv, NEW t \in Table, NEW d \in ProcessDates, NEW partition, NEW from,
         ReplaceWhere(t, d, partition, from)
  PROVE  /\ TablesInv'
         /\ \A u \in Table, e \in ProcessDates :
              /\ gold'[u][e] = IF u = t /\ e = d THEN partition ELSE gold[u][e]
              /\ source'[u][e] = IF u = t /\ e = d THEN from ELSE source[u][e]
<1>1. Grid(gold) /\ gold' = Put(gold, t, d, partition)
  BY DEF TablesInv, ReplaceWhere, Put
<1>2. Grid(source) /\ source' = Put(source, t, d, from)
  BY DEF TablesInv, ReplaceWhere, Put
<1>3. Grid(gold') /\ Replaced(gold', gold, t, d, partition)
  BY <1>1, GridExcept
<1>4. Grid(source') /\ Replaced(source', source, t, d, from)
  BY <1>2, GridExcept
<1>5. TablesInv'
  BY <1>3, <1>4 DEF TablesInv, Grid
<1> QED
  BY <1>3, <1>4, <1>5 DEF Replaced

LEMMA ReplaceKeepsSources ==
  ASSUME TablesInv, SourceInv, NEW t \in Table, NEW d \in ProcessDates, NEW partition, NEW from,
         ReplaceWhere(t, d, partition, from), ComputedFrom(t, d, partition, from)
  PROVE  TablesInv' /\ SourceInv'
<1>1. /\ TablesInv'
      /\ \A u \in Table, e \in ProcessDates :
           /\ gold'[u][e] = IF u = t /\ e = d THEN partition ELSE gold[u][e]
           /\ source'[u][e] = IF u = t /\ e = d THEN from ELSE source[u][e]
  BY ReplaceKeepsRest
<1>2. ASSUME NEW u \in Table, NEW e \in ProcessDates
      PROVE  ComputedFrom(u, e, gold'[u][e], source'[u][e])
  <2>1. CASE u = t /\ e = d
    BY <1>1, <2>1
  <2>2. CASE ~ (u = t /\ e = d)
    BY <1>1, <2>2 DEF SourceInv
  <2> QED
    BY <2>1, <2>2
<1>3. SourceInv'
  BY <1>2 DEF SourceInv
<1> QED
  BY <1>1, <1>3

LEMMA SilverStep == IInv /\ SilverChanges => IInv'
<1> SUFFICES ASSUME IInv, SilverChanges PROVE IInv'
  OBVIOUS
<1>1. silver' \subseteq Row /\ IsFiniteSet(silver')
  <2>1. CASE \E r \in Pool \ silver : silver' = silver \cup {r}
    BY <2>1, GoldJobsAssumption, FS_AddElement DEF IInv, SilverInv
  <2>2. CASE \E r \in silver :
               /\ r.status = "pending"
               /\ silver' = (silver \ {r}) \cup {[r EXCEPT !.status = "failed", !.amount = @ + 1]}
    <3>1. PICK r \in silver :
            silver' = (silver \ {r}) \cup {[r EXCEPT !.status = "failed", !.amount = @ + 1]}
      BY <2>2
    <3>2. r \in Row
      BY DEF IInv, SilverInv
    <3>3. [r EXCEPT !.status = "failed", !.amount = @ + 1] \in Row
      <4> DEFINE p == [r EXCEPT !.status = "failed"]
      <4>1. p \in Row /\ r.amount + 1 \in Nat
        BY <3>2 DEF Row
      <4>2. [p EXCEPT !.amount = r.amount + 1] \in Row
        <5> HIDE DEF p
        <5> QED
          BY <4>1 DEF Row
      <4>3. p.amount = r.amount
        BY <3>2 DEF Row
      <4> QED
        BY <4>2, <4>3
    <3>4. IsFiniteSet(silver \ {r})
      BY FS_RemoveElement DEF IInv, SilverInv
    <3> QED
      BY <3>1, <3>3, <3>4, FS_AddElement DEF IInv, SilverInv
  <2> QED
    BY <2>1, <2>2 DEF SilverChanges
<1>2. SilverInv'
  <2>1. changes \in 0..MaxChanges /\ changes < MaxChanges /\ changes' = changes + 1
    BY DEF IInv, SilverInv, SilverChanges
  <2>2. MaxChanges \in Nat
    BY GoldJobsAssumption
  <2>3. changes' \in 0..MaxChanges
    BY <2>1, <2>2
  <2> QED
    BY <1>1, <2>3 DEF SilverInv
<1>3. RiskInv' /\ TablesInv' /\ SourceInv'
  BY DEF IInv, RiskInv, SignalsInv, TablesInv, Grid, SourceInv, SilverChanges
<1> QED
  BY <1>2, <1>3 DEF IInv

LEMMA CustomerStep ==
  ASSUME IInv, NEW d \in ProcessDates, CustomerAnalytics(d)
  PROVE  IInv'
<1>1. PICK partition \in BuildCustomerAnalytics(CustomerInput(silver, d), d, CustomerDim) :
        ReplaceWhere("customer_analytics", d, partition, silver)
  BY DEF CustomerAnalytics
<1>2. ComputedFrom("customer_analytics", d, partition, silver)
  BY DEF ComputedFrom, IInv, SilverInv
<1>3. TablesInv' /\ SourceInv'
  BY <1>1, <1>2, ReplaceKeepsSources DEF IInv, Table
<1>4. SilverInv' /\ RiskInv'
  BY DEF IInv, SilverInv, RiskInv, SignalsInv, CustomerAnalytics
<1> QED
  BY <1>3, <1>4 DEF IInv

LEMMA TransactionStep ==
  ASSUME IInv, NEW d \in ProcessDates, TransactionAnalytics(d)
  PROVE  IInv'
<1> DEFINE partition == BuildTransactionAnalytics(TransactionInput(silver, d))
<1>1. ReplaceWhere("transaction_analytics", d, partition, silver)
  BY DEF TransactionAnalytics
<1>2. ComputedFrom("transaction_analytics", d, partition, silver)
  BY DEF ComputedFrom, IInv, SilverInv
<1>3. TablesInv' /\ SourceInv'
  BY <1>1, <1>2, ReplaceKeepsSources DEF IInv, Table
<1>4. SilverInv' /\ RiskInv'
  BY DEF IInv, SilverInv, RiskInv, SignalsInv, TransactionAnalytics
<1> QED
  BY <1>3, <1>4 DEF IInv

LEMMA SignalsStep ==
  ASSUME IInv, NEW d \in ProcessDates, CountSignals(d)
  PROVE  IInv'
<1>1. /\ risk'.date = d /\ risk'.rows = RiskInput(silver, d) /\ risk'.table = silver
      /\ risk'.signals.velocity = BuildVelocityAlerts(risk'.rows)
      /\ risk'.signals.large = BuildLargeTxFlags(risk'.rows)
      /\ risk'.signals.failure = BuildFailureRateFlags(risk'.rows)
  BY DEF CountSignals
<1>2. risk'.rows \subseteq silver
  BY <1>1 DEF RiskInput
<1>3. risk'.rows \subseteq Row /\ IsFiniteSet(risk'.rows)
  BY <1>2, FS_Subset DEF IInv, SilverInv
<1>4. RiskInv'
  BY <1>1, <1>3 DEF IInv, SilverInv, RiskInv, SignalsInv
<1>5. SilverInv' /\ TablesInv' /\ SourceInv'
  BY DEF IInv, SilverInv, TablesInv, Grid, SourceInv, CountSignals
<1> QED
  BY <1>4, <1>5 DEF IInv

\* Nothing is cached once the job has ended.
LEMMA IdleKeepsRisk ==
  ASSUME risk' = Idle
  PROVE  RiskInv'
  BY NoRowsNoSignals, IdleHasNoRows, FS_EmptySet DEF RiskInv, SignalsInv

LEMMA WriteStep == IInv /\ WriteRiskMetrics => IInv'
<1> SUFFICES ASSUME IInv, WriteRiskMetrics PROVE IInv'
  OBVIOUS
<1> DEFINE partition == VolumeByCurrency(risk.rows, risk.date)
<1>1. /\ risk.date \in ProcessDates /\ risk.table \subseteq Row /\ IsFiniteSet(risk.table)
      /\ risk.rows = RiskInput(risk.table, risk.date)
  BY DEF IInv, RiskInv, WriteRiskMetrics
<1>2. ReplaceWhere("risk_metrics", risk.date, partition, risk.table)
  BY DEF WriteRiskMetrics, RowsToWrite
<1>3. ComputedFrom("risk_metrics", risk.date, partition, risk.table)
  BY <1>1 DEF ComputedFrom
<1>4. TablesInv' /\ SourceInv'
  BY <1>1, <1>2, <1>3, ReplaceKeepsSources DEF IInv, Table
<1>5. SilverInv' /\ RiskInv'
  BY IdleKeepsRisk DEF IInv, SilverInv, WriteRiskMetrics
<1> QED
  BY <1>4, <1>5 DEF IInv

LEMMA CrashStep == IInv /\ Crash => IInv'
<1> SUFFICES ASSUME IInv, Crash PROVE IInv'
  OBVIOUS
<1>1. RiskInv'
  BY IdleKeepsRisk DEF Crash
<1>2. SilverInv' /\ TablesInv' /\ SourceInv'
  BY DEF IInv, SilverInv, TablesInv, Grid, SourceInv, Crash
<1> QED
  BY <1>1, <1>2 DEF IInv

LEMMA StepInv == IInv /\ [Next]_vars => IInv'
<1> SUFFICES ASSUME IInv, [Next]_vars PROVE IInv'
  OBVIOUS
<1>1. CASE UNCHANGED vars
  BY <1>1 DEF vars, IInv, SilverInv, RiskInv, SignalsInv, TablesInv, Grid, SourceInv
<1> QED
  BY <1>1, SilverStep, CustomerStep, TransactionStep, SignalsStep, WriteStep, CrashStep DEF Next

\* What each partition and each signal was computed from is kept by every step.
THEOREM GoldInvariant == Spec => []IInv
  BY InitInv, StepInv, PTL DEF Spec

-----------------------------------------------------------------------------
(* What follows from it *)

LEMMA SourceOf ==
  ASSUME IInv, NEW t \in Table, NEW d \in ProcessDates
  PROVE  ComputedFrom(t, d, gold[t][d], source[t][d])
  BY DEF IInv, SourceInv

LEMMA CustomerSource ==
  ASSUME IInv, NEW d \in ProcessDates
  PROVE  /\ source["customer_analytics"][d] \in SUBSET Row
         /\ IsFiniteSet(source["customer_analytics"][d])
         /\ gold["customer_analytics"][d] \in
              BuildCustomerAnalytics(CustomerInput(source["customer_analytics"][d], d), d, CustomerDim)
<1>1. "customer_analytics" \in Table
  BY DEF Table
<1> QED
  BY <1>1, SourceOf DEF ComputedFrom

LEMMA TransactionSource ==
  ASSUME IInv, NEW d \in ProcessDates
  PROVE  /\ source["transaction_analytics"][d] \in SUBSET Row
         /\ IsFiniteSet(source["transaction_analytics"][d])
         /\ gold["transaction_analytics"][d] =
              BuildTransactionAnalytics(TransactionInput(source["transaction_analytics"][d], d))
<1>1. "transaction_analytics" \in Table
  BY DEF Table
<1> QED
  BY <1>1, SourceOf DEF ComputedFrom

LEMMA RiskSource ==
  ASSUME IInv, NEW d \in ProcessDates
  PROVE  /\ source["risk_metrics"][d] \in SUBSET Row
         /\ IsFiniteSet(source["risk_metrics"][d])
         /\ gold["risk_metrics"][d] = VolumeByCurrency(RiskInput(source["risk_metrics"][d], d), d)
<1>1. "risk_metrics" \in Table
  BY DEF Table
<1> QED
  BY <1>1, SourceOf DEF ComputedFrom

LEMMA DatesAreNumbers == \A d \in ProcessDates : d \in Int
  BY GoldJobsAssumption

\* On any finite Silver, build_velocity_alerts names exactly the accounts with a
\* burst: no ten minutes of the date's rows escape its backward window.
THEOREM AlertsMissNoBurst == Spec => []VelocityIsABurst
<1>1. IInv => VelocityIsABurst
  BY AlertsAreBursts DEF IInv, RiskInv
<1> QED
  BY <1>1, GoldInvariant, PTL

\* For any rows and amounts, a transaction build_large_tx_flags names is one of at
\* least four of its customer that day, and a group build_failure_rate_flags
\* names has failed at least twice.
THEOREM FlagsNeedSamples == Spec => []SmallSamplesAreNotFlagged
<1>1. IInv => SmallSamplesAreNotFlagged
  <2> SUFFICES ASSUME IInv PROVE SmallSamplesAreNotFlagged
    OBVIOUS
  <2>1. /\ risk.rows \in SUBSET Row /\ IsFiniteSet(risk.rows)
        /\ risk.signals.large = BuildLargeTxFlags(risk.rows)
        /\ risk.signals.failure = BuildFailureRateFlags(risk.rows)
    BY DEF IInv, RiskInv, SignalsInv
  <2>2. \A r \in BuildLargeTxFlags(risk.rows) :
          Cardinality(OfCustomer(risk.rows, r.customer_id)) >= 4
    BY <2>1, LargeNeedsFour
  <2>3. \A g \in BuildFailureRateFlags(risk.rows) :
          CountWith(OfGroup(risk.rows, g.account_id, g.customer_id), "failed") >= 2
    BY <2>1, FailureNeedsTwo
  <2> QED
    BY <2>1, <2>2, <2>3 DEF SmallSamplesAreNotFlagged
<1> QED
  BY <1>1, GoldInvariant, PTL

\* For any Silver, any tie-breaking and any order of jobs, compute_rfm_scores
\* gives the most recent customers the lowest recency score, and the two other
\* scores follow count and spend.
THEOREM RecencyStaysInverted == Spec => []RecencyIsInverted
<1>1. IInv => RecencyIsInverted
  <2> SUFFICES ASSUME IInv, NEW d \in ProcessDates
               PROVE  ScoresFollow(gold["customer_analytics"][d])
    BY DEF RecencyIsInverted, ScoresFollow
  <2> QED
    BY CustomerSource, TablesFollow
<1> QED
  BY <1>1, GoldInvariant, PTL

\* Whatever Silver held, partitions of a date that the three jobs computed from
\* the same of it agree: counts and volumes per currency between the daily and
\* the risk table, and the transactions the customers have with the daily counts.
THEOREM TablesAddUp == Spec => []TablesReconcile
<1>1. IInv => TablesReconcile
  <2> SUFFICES ASSUME IInv, NEW d \in ProcessDates,
                      \A t \in Table : source[t][d] = source["risk_metrics"][d]
               PROVE  Reconciled(source["risk_metrics"][d], d, gold["risk_metrics"][d],
                                 gold["transaction_analytics"][d], gold["customer_analytics"][d])
    BY DEF TablesReconcile, Reconciled
  <2>1. PICK from : from = source["risk_metrics"][d]
    OBVIOUS
  <2>2. source["customer_analytics"][d] = from /\ source["transaction_analytics"][d] = from
    BY <2>1 DEF Table
  <2>3. /\ from \in SUBSET Row /\ IsFiniteSet(from)
        /\ gold["risk_metrics"][d] = VolumeByCurrency(RiskInput(from, d), d)
    BY <2>1, RiskSource
  <2>4. gold["customer_analytics"][d] \in
          BuildCustomerAnalytics(CustomerInput(from, d), d, CustomerDim)
    BY <2>2, CustomerSource
  <2>5. gold["transaction_analytics"][d] = BuildTransactionAnalytics(TransactionInput(from, d))
    BY <2>2, TransactionSource
  <2>6. Reconciled(from, d, VolumeByCurrency(RiskInput(from, d), d),
                   BuildTransactionAnalytics(TransactionInput(from, d)),
                   gold["customer_analytics"][d])
    BY <2>3, <2>4, DatesAreNumbers, PartitionsReconcile
  <2> QED
    BY <2>1, <2>3, <2>5, <2>6, Zenon
<1> QED
  BY <1>1, GoldInvariant, PTL

\* Computing a customer partition again from the same Silver, as a retry of the
\* job does, moves a score only between customers who tie for it: ntile leaves
\* nothing else open.
THEOREM RetriesMoveOnlyTies == Spec => OnlyTiesMove
<1> DEFINE Moves ==
      \A d \in ProcessDates :
        source'["customer_analytics"][d] = source["customer_analytics"][d] =>
          \A c \in gold["customer_analytics"][d] :
            \E b \in gold'["customer_analytics"][d] :
              LET table == gold["customer_analytics"][d]
                  Tie(f) == \E o \in table : o # c /\ o[f] = c[f]
              IN /\ b.customer_id = c.customer_id /\ b.total_spend = c.total_spend
                 /\ b.recency_score # c.recency_score => Tie("recency_days")
                 /\ b.frequency_score # c.frequency_score => Tie("total_transactions")
                 /\ b.monetary_score # c.monetary_score => Tie("total_spend")
<1>1. IInv /\ IInv' => Moves
  <2> SUFFICES ASSUME IInv, IInv', NEW d \in ProcessDates,
                      source'["customer_analytics"][d] = source["customer_analytics"][d],
                      NEW c \in gold["customer_analytics"][d]
               PROVE  \E b \in gold'["customer_analytics"][d] :
                        LET table == gold["customer_analytics"][d]
                            Tie(f) == \E o \in table : o # c /\ o[f] = c[f]
                        IN /\ b.customer_id = c.customer_id /\ b.total_spend = c.total_spend
                           /\ b.recency_score # c.recency_score => Tie("recency_days")
                           /\ b.frequency_score # c.frequency_score => Tie("total_transactions")
                           /\ b.monetary_score # c.monetary_score => Tie("total_spend")
    OBVIOUS
  <2> DEFINE table == gold["customer_analytics"][d]
             again == gold'["customer_analytics"][d]
             from == source["customer_analytics"][d]
  <2>1. /\ from \in SUBSET Row /\ IsFiniteSet(from)
        /\ table \in BuildCustomerAnalytics(CustomerInput(from, d), d, CustomerDim)
    BY CustomerSource
  <2>2. again \in BuildCustomerAnalytics(CustomerInput(from, d), d, CustomerDim)
    <3>1. ComputedFrom("customer_analytics", d, gold'["customer_analytics"][d],
                       source'["customer_analytics"][d])
      BY DEF IInv, SourceInv, Table
    <3> QED
      BY <3>1 DEF ComputedFrom
  <2>3. CustomerInput(from, d) \in SUBSET Row /\ IsFiniteSet(CustomerInput(from, d)) /\ d \in Int
    BY <2>1, DatesAreNumbers, InputTypes
  <2> HIDE DEF table, again, from
  <2>4. \E y \in again :
           /\ y.customer_id = c.customer_id /\ y.total_spend = c.total_spend
           /\ y.recency_score # c.recency_score
                => \E o \in table : o # c /\ o.recency_days = c.recency_days
           /\ y.frequency_score # c.frequency_score
                => \E o \in table : o # c /\ o.total_transactions = c.total_transactions
           /\ y.monetary_score # c.monetary_score
                => \E o \in table : o # c /\ o.total_spend = c.total_spend
    <3>1. c \in table
      BY DEF table
    <3> QED
      BY <2>1, <2>2, <2>3, <3>1, TiesOnly
  <2> QED
    BY <2>4 DEF table, again
<1>2. IInv /\ IInv' => [Moves]_vars
  BY <1>1
<1> HIDE DEF Moves
<1>3. Spec => [][Moves]_vars
  BY <1>2, GoldInvariant, PTL
<1> QED
  BY <1>3 DEF OnlyTiesMove, Moves

\* ntile(5) can always be served: whatever finite Silver the job meets, with any
\* number of customers and any ties, a table with even and ordered quintiles
\* exists, so customer_analytics.py is never stuck on its window functions and
\* what is said of its partitions is said of some partition.
THEOREM CustomerJobHasResult ==
  Spec => [](\A d \in ProcessDates :
               BuildCustomerAnalytics(CustomerInput(silver, d), d, CustomerDim) # {})
<1>1. ASSUME IInv, NEW d \in ProcessDates
      PROVE  BuildCustomerAnalytics(CustomerInput(silver, d), d, CustomerDim) # {}
  <2>1. silver \in SUBSET Row /\ IsFiniteSet(silver) /\ d \in Int
    BY <1>1, DatesAreNumbers DEF IInv, SilverInv
  <2>2. CustomerInput(silver, d) \in SUBSET Row /\ IsFiniteSet(CustomerInput(silver, d))
    BY <2>1, InputTypes
  <2> QED
    BY <2>1, <2>2, TableExists
<1>2. IInv => \A d \in ProcessDates :
                BuildCustomerAnalytics(CustomerInput(silver, d), d, CustomerDim) # {}
  BY <1>1
<1> QED
  BY <1>2, GoldInvariant, PTL

\* Every partition the customer job can write has the columns it should.
LEMMA CustomersTyped ==
  ASSUME NEW from \in SUBSET Row, IsFiniteSet(from), NEW d \in ProcessDates,
         NEW partition \in BuildCustomerAnalytics(CustomerInput(from, d), d, CustomerDim)
  PROVE  partition \subseteq CustomerRows
<1> DEFINE rows == CustomerInput(from, d)
           Scores(r, f, m) == [recency |-> r, frequency |-> f, monetary |-> m]
<1>1. PICK r \in Ntile(5, ByRecencyAsc(rows, d)), f \in Ntile(5, Frequency(rows)),
           m \in Ntile(5, Monetary(rows)) :
             partition = CustomerTable(rows, d, CustomerDim, Scores(r, f, m))
  BY DEF BuildCustomerAnalytics
<1>2. /\ r \in [CustomersOf(rows) -> 1..5] /\ f \in [CustomersOf(rows) -> 1..5]
      /\ m \in [CustomersOf(rows) -> 1..5]
  <2>1. /\ DOMAIN ByRecencyAsc(rows, d) = CustomersOf(rows)
        /\ DOMAIN Frequency(rows) = CustomersOf(rows)
        /\ DOMAIN Monetary(rows) = CustomersOf(rows)
    BY DEF ByRecencyAsc, RecencyDays, Frequency, Monetary
  <2> HIDE DEF rows
  <2> QED
    BY <1>1, <2>1 DEF Ntile
<1>3. /\ Scores(r, f, m).recency = r /\ Scores(r, f, m).frequency = f
      /\ Scores(r, f, m).monetary = m
  OBVIOUS
<1>4. rows \in SUBSET Row /\ IsFiniteSet(rows) /\ d \in Int
  BY DatesAreNumbers, InputTypes
<1>5. \A o \in rows : EventDate(o) <= d
  BY DEF CustomerInput, InWindow
<1> HIDE DEF rows, Scores
<1>6. ASSUME NEW c \in CustomersOf(rows)
      PROVE  CustomerRow(rows, d, CustomerDim, Scores(r, f, m), c) \in CustomerRows
  <2>1. /\ Scores(r, f, m).recency[c] \in 1..5 /\ Scores(r, f, m).frequency[c] \in 1..5
        /\ Scores(r, f, m).monetary[c] \in 1..5
    BY <1>2, <1>3
  <2>2. \A k \in DOMAIN CustomerDim : CustomerDim[k] \in Text \cup {Null}
    BY GoldJobsAssumption
  <2> QED
    BY <1>4, <1>5, <2>1, <2>2, CustomerRowTypes DEF CustomerRows
<1> QED
  BY <1>1, <1>6 DEF CustomerTable

\* The Gold jobs keep their types for any Silver: no score or tier is out of its
\* range, no customer was last seen after the process date, no group has more
\* completed and failed transactions than transactions, and no currency without
\* a transaction is written.
THEOREM GoldTypes == Spec => []TypeOK
<1>1. IInv => TypeOK
  <2> SUFFICES ASSUME IInv PROVE TypeOK
    OBVIOUS
  <2>1. silver \subseteq Row /\ changes \in 0..MaxChanges
    BY DEF IInv, SilverInv
  <2>2. DOMAIN gold = Table /\ \A t \in Table : DOMAIN gold[t] = ProcessDates
    BY DEF IInv, TablesInv, Grid
  <2>3. ASSUME NEW d \in ProcessDates
        PROVE  /\ gold["customer_analytics"][d] \subseteq CustomerRows
               /\ \A r \in gold["transaction_analytics"][d] :
                    r.completed_count + r.failed_count <= r.tx_count /\ r.event_date <= d
               /\ \A r \in gold["risk_metrics"][d] : r.event_date = d /\ r.tx_count > 0
    <3>1. gold["customer_analytics"][d] \subseteq CustomerRows
      BY CustomerSource, CustomersTyped
    <3>2. \A r \in gold["transaction_analytics"][d] :
            r.completed_count + r.failed_count <= r.tx_count /\ r.event_date <= d
      BY TransactionSource, DatesAreNumbers, DailyRowTypes
    <3>3. \A r \in gold["risk_metrics"][d] : r.event_date = d /\ r.tx_count > 0
      <4>1. IsFiniteSet(RiskInput(source["risk_metrics"][d], d))
        BY RiskSource, DatesAreNumbers, InputTypes
      <4> QED
        BY <4>1, RiskSource, CurrencyRowTypes
    <3> QED
      BY <3>1, <3>2, <3>3
  <2>4. risk.date \in ProcessDates \cup {Null} /\ risk.rows \subseteq risk.table
    <3>1. CASE risk = Idle
      BY <3>1, IdleHasNoRows
    <3>2. CASE risk # Idle
      BY <3>2 DEF IInv, RiskInv, RiskInput
    <3> QED
      BY <3>1, <3>2
  <2>5. source \in [Table -> [ProcessDates -> SUBSET Row]]
    <3>1. source = [t \in Table |-> source[t]]
          /\ \A t \in Table : source[t] = [d \in ProcessDates |-> source[t][d]]
      BY DEF IInv, TablesInv, Grid
    <3>2. \A t \in Table, d \in ProcessDates : source[t][d] \in SUBSET Row
      BY SourceOf DEF ComputedFrom
    <3>3. ASSUME NEW t \in Table PROVE source[t] \in [ProcessDates -> SUBSET Row]
      BY <3>1, <3>2
    <3> QED
      BY <3>1, <3>3
  <2> QED
    BY <2>1, <2>2, <2>3, <2>4, <2>5 DEF TypeOK
<1> QED
  BY <1>1, GoldInvariant, PTL
=============================================================================
