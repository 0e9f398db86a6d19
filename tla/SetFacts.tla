------------------------------ MODULE SetFacts ------------------------------
(***************************************************************************)
(* Facts about finite sets the proofs of this project need: sums over a    *)
(* set, groups, maxima and enumerations.  Induction is on finite sets: of  *)
(* the sets that break a claim one would be smallest.                      *)
(***************************************************************************)
EXTENDS Integers, FiniteSetsExt, FiniteSetTheorems, WellFoundedInduction, TLAPS

-----------------------------------------------------------------------------
(* Induction *)

LEMMA SmallestSubset ==
  ASSUME NEW S, IsFiniteSet(S), NEW T, T \subseteq SUBSET S, T # {}
  PROVE  \E x \in T : \A y \in T : y \subseteq x => y = x
<1>1. IsWellFoundedOn(StrictSubsetOrdering(S), SUBSET S)
  BY FS_FiniteSubsetsOfFinite, FS_StrictSubsetOrderingWellFounded
<1>2. PICK x \in T : \A y \in T : ~ (<<y, x>> \in StrictSubsetOrdering(S))
  BY <1>1, WFMin
<1>3. ASSUME NEW y \in T, y \subseteq x, y # x
      PROVE  FALSE
  <2>1. <<y, x>> \in (SUBSET S) \X (SUBSET S) /\ <<y, x>>[1] = y /\ <<y, x>>[2] = x
    OBVIOUS
  <2> QED
    BY <1>2, <1>3, <2>1 DEF StrictSubsetOrdering
<1> QED
  BY <1>3

LEMMA LeastNumber ==
  ASSUME NEW S \in SUBSET Nat, S # {}
  PROVE  \E m \in S : \A k \in S : m <= k
<1>1. PICK m \in S : \A k \in S : ~ (<<k, m>> \in OpToRel(<, Nat))
  BY NatLessThanWellFounded, WFMin
<1>2. \A k \in S : ~ (k < m)
  BY <1>1 DEF OpToRel
<1> QED
  BY <1>2

-----------------------------------------------------------------------------
(* Sums over a set of indices *)

Pick(s) == CHOOSE x \in s : TRUE

SumEquation(g, f, S) ==
  g = [s \in SUBSET S |-> IF s = {} THEN 0 ELSE f[Pick(s)] + g[s \ {Pick(s)}]]

TheSums(f, S) == CHOOSE g : SumEquation(g, f, S)

LEMMA SumIsFold ==
  ASSUME NEW f, NEW S
  PROVE  SumFunctionOnSet(f, S) = TheSums(f, S)[S]
  BY DEF SumFunctionOnSet, FoldFunctionOnSet, MapThenFoldSet, TheSums, SumEquation, Pick

LEMMA PickIn ==
  ASSUME NEW s, s # {}
  PROVE  Pick(s) \in s
  BY DEF Pick

LEMMA SumEquationAt ==
  ASSUME NEW f, NEW S, NEW g, SumEquation(g, f, S), NEW s \in SUBSET S
  PROVE  g[s] = IF s = {} THEN 0 ELSE f[Pick(s)] + g[s \ {Pick(s)}]
<1> DEFINE h == [t \in SUBSET S |-> IF t = {} THEN 0 ELSE f[Pick(t)] + g[t \ {Pick(t)}]]
<1>1. g = h
  BY DEF SumEquation
<1>2. h[s] = IF s = {} THEN 0 ELSE f[Pick(s)] + g[s \ {Pick(s)}]
  OBVIOUS
<1> QED
  BY <1>1, <1>2

LEMMA SumsAgree ==
  ASSUME NEW f, NEW S, IsFiniteSet(S), NEW T \in SUBSET S, NEW g, NEW h,
         SumEquation(g, f, S), SumEquation(h, f, T)
  PROVE  \A s \in SUBSET T : g[s] = h[s]
<1> DEFINE Bad == {s \in SUBSET T : g[s] # h[s]}
<1> SUFFICES ASSUME Bad # {} PROVE FALSE
  OBVIOUS
<1>1. IsFiniteSet(T)
  BY FS_Subset
<1>0. Bad \subseteq SUBSET T
  OBVIOUS
<1> HIDE DEF Bad
<1>2. PICK s \in Bad : \A y \in Bad : y \subseteq s => y = s
  BY <1>1, <1>0, SmallestSubset
<1> USE DEF Bad
<1>3. s # {}
  BY <1>2 DEF SumEquation
<1>4. Pick(s) \in s
  BY <1>3, PickIn
<1>5. s \ {Pick(s)} \notin Bad
  BY <1>2, <1>4
<1>6. g[s \ {Pick(s)}] = h[s \ {Pick(s)}]
  BY <1>2, <1>5
<1> QED
  BY <1>2, <1>3, <1>6 DEF SumEquation

LEMMA SumsExist ==
  ASSUME NEW f, NEW S, IsFiniteSet(S)
  PROVE  SumEquation(TheSums(f, S), f, S)
<1> DEFINE Bad == {s \in SUBSET S : ~ \E g : SumEquation(g, f, s)}
<1> SUFFICES ASSUME Bad # {} PROVE FALSE
  <2>1. SUFFICES ASSUME Bad = {} PROVE SumEquation(TheSums(f, S), f, S)
    OBVIOUS
  <2>2. \E g : SumEquation(g, f, S)
    BY <2>1
  <2> QED
    BY <2>2 DEF TheSums
<1>0. Bad \subseteq SUBSET S
  OBVIOUS
<1> HIDE DEF Bad
<1>1. PICK x \in Bad : \A y \in Bad : y \subseteq x => y = x
  BY <1>0, SmallestSubset
<1> USE DEF Bad
<1>2. \A y \in SUBSET x : y # x => SumEquation(TheSums(f, y), f, y)
  <2> SUFFICES ASSUME NEW y \in SUBSET x, y # x PROVE SumEquation(TheSums(f, y), f, y)
    OBVIOUS
  <2>1. \E g : SumEquation(g, f, y)
    BY <1>1
  <2> QED
    BY <2>1 DEF TheSums
<1> DEFINE V(y) == TheSums(f, y)[y]
           g == [s \in SUBSET x |-> IF s = {} THEN 0 ELSE f[Pick(s)] + V(s \ {Pick(s)})]
<1>3. ASSUME NEW y \in SUBSET x, y # x
      PROVE  V(y) = g[y]
  <2>1. V(y) = IF y = {} THEN 0 ELSE f[Pick(y)] + TheSums(f, y)[y \ {Pick(y)}]
    BY <1>2, <1>3 DEF SumEquation
  <2>2. CASE y = {}
    BY <2>1, <2>2
  <2>3. CASE y # {}
    <3> DEFINE z == y \ {Pick(y)}
    <3>1. z \in SUBSET y /\ z \in SUBSET x /\ z # x
      BY <1>3
    <3>2. IsFiniteSet(y)
      BY FS_Subset, <1>1
    <3>3. TheSums(f, y)[z] = TheSums(f, z)[z]
      <4>1. SumEquation(TheSums(f, y), f, y) /\ SumEquation(TheSums(f, z), f, z)
        BY <1>2, <1>3, <3>1
      <4>2. z \in SUBSET z
        OBVIOUS
      <4> HIDE DEF z
      <4> QED
        BY <3>1, <3>2, <4>1, <4>2, SumsAgree
    <3> QED
      BY <2>1, <2>3, <3>3
  <2> QED
    BY <2>2, <2>3
<1>4. \A s \in SUBSET x : s # {} => V(s \ {Pick(s)}) = g[s \ {Pick(s)}]
  <2> SUFFICES ASSUME NEW s \in SUBSET x, s # {} PROVE V(s \ {Pick(s)}) = g[s \ {Pick(s)}]
    OBVIOUS
  <2>1. s \ {Pick(s)} \in SUBSET x /\ s \ {Pick(s)} # x
    BY PickIn
  <2> QED
    BY <1>3, <2>1
<1>5. SumEquation(g, f, x)
  <2>1. g = [s \in SUBSET x |-> IF s = {} THEN 0 ELSE f[Pick(s)] + V(s \ {Pick(s)})]
    OBVIOUS
  <2> HIDE DEF g, V
  <2> QED
    BY <1>4, <2>1 DEF SumEquation
<1> QED
  BY <1>1, <1>5

LEMMA SumEmpty ==
  ASSUME NEW f
  PROVE  SumFunctionOnSet(f, {}) = 0
<1>1. SumEquation(TheSums(f, {}), f, {})
  BY SumsExist, FS_EmptySet
<1>2. TheSums(f, {})[{}] = 0
  BY <1>1, SumEquationAt
<1> QED
  BY <1>2, SumIsFold

LEMMA SumPick ==
  ASSUME NEW f, NEW S, IsFiniteSet(S), S # {}
  PROVE  SumFunctionOnSet(f, S) = f[Pick(S)] + SumFunctionOnSet(f, S \ {Pick(S)})
<1> DEFINE T == S \ {Pick(S)}
<1>1. IsFiniteSet(T) /\ T \in SUBSET S
  BY FS_Subset
<1>2. TheSums(f, S)[T] = TheSums(f, T)[T]
  <2>1. SumEquation(TheSums(f, S), f, S) /\ SumEquation(TheSums(f, T), f, T) /\ T \in SUBSET T
    BY <1>1, SumsExist
  <2> HIDE DEF T
  <2> QED
    BY <1>1, <2>1, SumsAgree
<1>3. TheSums(f, S)[S] = f[Pick(S)] + TheSums(f, S)[T]
  <2>1. SumEquation(TheSums(f, S), f, S) /\ S \in SUBSET S
    BY SumsExist
  <2> QED
    BY <2>1, SumEquationAt
<1> QED
  BY <1>2, <1>3, SumIsFold

LEMMA SumType ==
  ASSUME NEW f, NEW S, IsFiniteSet(S), \A x \in S : f[x] \in Nat
  PROVE  SumFunctionOnSet(f, S) \in Nat
<1> DEFINE Bad == {s \in SUBSET S : SumFunctionOnSet(f, s) \notin Nat}
<1> SUFFICES ASSUME Bad # {} PROVE FALSE
  OBVIOUS
<1>0. Bad \subseteq SUBSET S
  OBVIOUS
<1> HIDE DEF Bad
<1>1. PICK s \in Bad : \A y \in Bad : y \subseteq s => y = s
  BY <1>0, SmallestSubset
<1> USE DEF Bad
<1>2. s # {}
  <2>1. SumFunctionOnSet(f, {}) \in Nat
    BY SumEmpty
  <2>2. SumFunctionOnSet(f, s) \notin Nat
    BY <1>1
  <2> QED
    BY <2>1, <2>2, Zenon
<1>3. Pick(s) \in s /\ IsFiniteSet(s)
  BY <1>1, <1>2, PickIn, FS_Subset
<1>4. SumFunctionOnSet(f, s \ {Pick(s)}) \in Nat
  BY <1>1, <1>3
<1> QED
  BY <1>1, <1>2, <1>3, <1>4, SumPick

\* Whichever index is taken out, what it adds is its own value.
LEMMA SumRemove ==
  ASSUME NEW f, NEW S, IsFiniteSet(S), \A y \in S : f[y] \in Nat, NEW x \in S
  PROVE  SumFunctionOnSet(f, S) = f[x] + SumFunctionOnSet(f, S \ {x})
<1> DEFINE Sum(s) == SumFunctionOnSet(f, s)
           Bad == {s \in SUBSET S : \E z \in s : Sum(s) # f[z] + Sum(s \ {z})}
<1> SUFFICES ASSUME Bad # {} PROVE FALSE
  BY DEF Bad
<1>0. Bad \subseteq SUBSET S
  OBVIOUS
<1> HIDE DEF Bad
<1>1. PICK s \in Bad : \A y \in Bad : y \subseteq s => y = s
  BY <1>0, SmallestSubset
<1> USE DEF Bad
<1>2. PICK z \in s : Sum(s) # f[z] + Sum(s \ {z})
  BY <1>1
<1>3. \A t \in SUBSET S : IsFiniteSet(t) /\ Sum(t) \in Nat
  BY FS_Subset, SumType
<1> DEFINE y == Pick(s)
<1>4. y \in s /\ Sum(s) = f[y] + Sum(s \ {y})
  BY <1>1, <1>2, <1>3, PickIn, SumPick
<1>5. y # z
  BY <1>2, <1>4
<1> HIDE DEF y, Sum
<1>6. Sum(s \ {y}) = f[z] + Sum((s \ {y}) \ {z})
  <2>1. s \ {y} \in SUBSET S /\ s \ {y} # s /\ z \in s \ {y}
    BY <1>1, <1>2, <1>4, <1>5
  <2> QED
    BY <1>1, <2>1
<1>7. Sum(s \ {z}) = f[y] + Sum((s \ {z}) \ {y})
  <2>1. s \ {z} \in SUBSET S /\ s \ {z} # s /\ y \in s \ {z}
    BY <1>1, <1>2, <1>4, <1>5
  <2> QED
    BY <1>1, <2>1
<1>8. (s \ {y}) \ {z} = (s \ {z}) \ {y} /\ (s \ {y}) \ {z} \in SUBSET S
  BY <1>1
<1>9. f[y] \in Nat /\ f[z] \in Nat
  BY <1>1, <1>2, <1>4
<1>10. Sum((s \ {y}) \ {z}) = Sum((s \ {z}) \ {y}) /\ Sum((s \ {y}) \ {z}) \in Nat
  BY <1>3, <1>8, Zenon
<1> QED
  BY <1>2, <1>4, <1>6, <1>7, <1>9, <1>10

LEMMA SumAtLeast ==
  ASSUME NEW f, NEW S, IsFiniteSet(S), \A y \in S : f[y] \in Nat, NEW x \in S
  PROVE  SumFunctionOnSet(f, S) >= f[x]
<1>1. SumFunctionOnSet(f, S \ {x}) \in Nat
  BY FS_RemoveElement, SumType
<1> QED
  BY <1>1, SumRemove

LEMMA SumSame ==
  ASSUME NEW f, NEW g, NEW S, IsFiniteSet(S), \A x \in S : f[x] = g[x]
  PROVE  SumFunctionOnSet(f, S) = SumFunctionOnSet(g, S)
<1> DEFINE Bad == {s \in SUBSET S : SumFunctionOnSet(f, s) # SumFunctionOnSet(g, s)}
<1> SUFFICES ASSUME Bad # {} PROVE FALSE
  OBVIOUS
<1>0. Bad \subseteq SUBSET S
  OBVIOUS
<1> HIDE DEF Bad
<1>1. PICK s \in Bad : \A y \in Bad : y \subseteq s => y = s
  BY <1>0, SmallestSubset
<1> USE DEF Bad
<1>2. s # {}
  BY <1>1, SumEmpty
<1>3. Pick(s) \in s /\ IsFiniteSet(s)
  BY <1>1, <1>2, PickIn, FS_Subset
<1>4. SumFunctionOnSet(f, s \ {Pick(s)}) = SumFunctionOnSet(g, s \ {Pick(s)})
  BY <1>1, <1>3
<1> QED
  BY <1>1, <1>2, <1>3, <1>4, SumPick

LEMMA SumUnion ==
  ASSUME NEW f, NEW S, NEW T, IsFiniteSet(S), IsFiniteSet(T), S \cap T = {},
         \A x \in S \cup T : f[x] \in Nat
  PROVE  SumFunctionOnSet(f, S \cup T) = SumFunctionOnSet(f, S) + SumFunctionOnSet(f, T)
<1> DEFINE Sum(s) == SumFunctionOnSet(f, s)
           Bad == {t \in SUBSET T : Sum(S \cup t) # Sum(S) + Sum(t)}
<1> SUFFICES ASSUME Bad # {} PROVE FALSE
  OBVIOUS
<1>0. Bad \subseteq SUBSET T
  OBVIOUS
<1> HIDE DEF Bad
<1>1. PICK t \in Bad : \A y \in Bad : y \subseteq t => y = t
  BY <1>0, SmallestSubset
<1> USE DEF Bad
<1>2. IsFiniteSet(S \cup T) /\ \A s \in SUBSET (S \cup T) : IsFiniteSet(s) /\ Sum(s) \in Nat
  <2>1. IsFiniteSet(S \cup T)
    BY FS_Union
  <2> QED
    BY <2>1, FS_Subset, SumType
<1>3. t # {}
  <2>1. S \cup {} = S /\ Sum({}) = 0 /\ Sum(S) \in Nat
    BY <1>2, SumEmpty
  <2> HIDE DEF Sum
  <2>2. Sum(S \cup {}) = Sum(S) + Sum({})
    <3>1. Sum(S \cup {}) = Sum(S)
      BY <2>1, Zenon
    <3> QED
      BY <2>1, <3>1
  <2>3. Sum(S \cup t) # Sum(S) + Sum(t)
    BY <1>1
  <2> QED
    BY <2>2, <2>3, Zenon
<1>4. PICK x : x \in t
  BY <1>3
<1>5. Sum(t) = f[x] + Sum(t \ {x})
  <2>1. IsFiniteSet(t) /\ \A y \in t : f[y] \in Nat
    BY <1>1, <1>2
  <2> QED
    BY <1>4, <2>1, SumRemove
<1>6. Sum(S \cup t) = f[x] + Sum(S \cup (t \ {x}))
  <2>1. (S \cup t) \ {x} = S \cup (t \ {x})
    BY <1>1, <1>4
  <2>2. IsFiniteSet(S \cup t) /\ x \in S \cup t /\ \A y \in S \cup t : f[y] \in Nat
    BY <1>1, <1>2, <1>4
  <2>3. Sum(S \cup t) = f[x] + Sum((S \cup t) \ {x})
    BY <2>2, SumRemove
  <2> HIDE DEF Sum
  <2> QED
    BY <2>1, <2>3, Zenon
<1> HIDE DEF Sum
<1>7. Sum(S \cup (t \ {x})) = Sum(S) + Sum(t \ {x})
  BY <1>1, <1>4
<1>8. Sum(S) \in Nat /\ Sum(t \ {x}) \in Nat /\ f[x] \in Nat
  BY <1>1, <1>2, <1>4
<1> QED
  BY <1>1, <1>5, <1>6, <1>7, <1>8

LEMMA SumOfOnes ==
  ASSUME NEW f, NEW S, IsFiniteSet(S), \A x \in S : f[x] = 1
  PROVE  SumFunctionOnSet(f, S) = Cardinality(S)
<1> DEFINE Bad == {s \in SUBSET S : SumFunctionOnSet(f, s) # Cardinality(s)}
<1> SUFFICES ASSUME Bad # {} PROVE FALSE
  OBVIOUS
<1>0. Bad \subseteq SUBSET S
  OBVIOUS
<1> HIDE DEF Bad
<1>1. PICK s \in Bad : \A y \in Bad : y \subseteq s => y = s
  BY <1>0, SmallestSubset
<1> USE DEF Bad
<1>2. s # {}
  BY <1>1, SumEmpty, FS_EmptySet
<1>3. Pick(s) \in s /\ IsFiniteSet(s)
  BY <1>1, <1>2, PickIn, FS_Subset
<1>4. SumFunctionOnSet(f, s \ {Pick(s)}) = Cardinality(s \ {Pick(s)})
  BY <1>1, <1>3
<1>5. Cardinality(s \ {Pick(s)}) = Cardinality(s) - 1 /\ Cardinality(s) \in Nat
  BY <1>3, FS_RemoveElement, FS_CardinalityType
<1> QED
  BY <1>1, <1>2, <1>3, <1>4, <1>5, SumPick

\* The members of S in group k.
Group(S, key, k) == {x \in S : key[x] = k}

\* Summing group by group: each x of S is in the group key[x] of K.
LEMMA SumByGroups ==
  ASSUME NEW f, NEW S, IsFiniteSet(S), \A x \in S : f[x] \in Nat,
         NEW K, IsFiniteSet(K), NEW key \in [S -> K], NEW total,
         \A k \in K : total[k] = SumFunctionOnSet(f, Group(S, key, k))
  PROVE  SumFunctionOnSet(total, K) = SumFunctionOnSet(f, S)
<1> DEFINE In(J) == {x \in S : key[x] \in J}
           Bad == {J \in SUBSET K : SumFunctionOnSet(total, J) # SumFunctionOnSet(f, In(J))}
<1> SUFFICES ASSUME Bad # {} PROVE FALSE
  <2>1. In(K) = S
    OBVIOUS
  <2> QED
    BY <2>1
<1>0. Bad \subseteq SUBSET K
  OBVIOUS
<1> HIDE DEF Bad
<1>1. PICK J \in Bad : \A y \in Bad : y \subseteq J => y = J
  BY <1>0, SmallestSubset
<1> USE DEF Bad
<1>2. J # {}
  <2>1. In({}) = {}
    OBVIOUS
  <2> QED
    BY <1>1, <2>1, SumEmpty
<1>3. PICK k : k \in J
  BY <1>2
<1>4. \A s \in SUBSET S : IsFiniteSet(s) /\ SumFunctionOnSet(f, s) \in Nat
  BY FS_Subset, SumType
<1>5. In(J) = In(J \ {k}) \cup Group(S, key, k) /\ In(J \ {k}) \cap Group(S, key, k) = {}
  BY <1>1, <1>3 DEF Group
<1>6. In(J \ {k}) \in SUBSET S /\ Group(S, key, k) \in SUBSET S
  BY DEF Group
<1>7. total[k] = SumFunctionOnSet(f, Group(S, key, k)) /\ \A j \in K : total[j] \in Nat
  <2>1. \A j \in K : Group(S, key, j) \in SUBSET S
    BY DEF Group
  <2> QED
    BY <1>1, <1>3, <1>4, <2>1
<1> HIDE DEF In
<1>8. SumFunctionOnSet(f, In(J)) = SumFunctionOnSet(f, In(J \ {k})) + SumFunctionOnSet(f, Group(S, key, k))
  <2>1. IsFiniteSet(In(J \ {k})) /\ IsFiniteSet(Group(S, key, k))
    BY <1>4, <1>6
  <2>2. \A x \in In(J \ {k}) \cup Group(S, key, k) : f[x] \in Nat
    BY <1>6
  <2>3. SumFunctionOnSet(f, In(J \ {k}) \cup Group(S, key, k))
          = SumFunctionOnSet(f, In(J \ {k})) + SumFunctionOnSet(f, Group(S, key, k))
    BY <1>5, <2>1, <2>2, SumUnion
  <2> QED
    BY <1>5, <2>3, Zenon
<1>9. SumFunctionOnSet(total, J \ {k}) = SumFunctionOnSet(f, In(J \ {k}))
  BY <1>1, <1>3
<1>10. SumFunctionOnSet(total, J) = total[k] + SumFunctionOnSet(total, J \ {k})
  BY <1>1, <1>3, <1>7, FS_Subset, SumRemove
<1>11. SumFunctionOnSet(f, In(J \ {k})) \in Nat /\ total[k] \in Nat
  BY <1>1, <1>3, <1>4, <1>6, <1>7
<1>12. SumFunctionOnSet(total, J) # SumFunctionOnSet(f, In(J))
  BY <1>1 DEF In
<1> QED
  BY <1>7, <1>8, <1>9, <1>10, <1>11, <1>12

\* The sum of ones, group by group.
LEMMA CountByGroups ==
  ASSUME NEW S, IsFiniteSet(S), NEW K, IsFiniteSet(K), NEW key \in [S -> K], NEW total,
         \A k \in K : total[k] = Cardinality(Group(S, key, k))
  PROVE  SumFunctionOnSet(total, K) = Cardinality(S)
<1>1. PICK one : \A x \in S : one[x] = 1
  <2>1. \A x \in S : [y \in S |-> 1][x] = 1
    OBVIOUS
  <2> QED
    BY <2>1
<1>2. ASSUME NEW T \in SUBSET S PROVE SumFunctionOnSet(one, T) = Cardinality(T)
  <2>1. IsFiniteSet(T) /\ \A x \in T : one[x] = 1
    BY <1>1, FS_Subset
  <2> QED
    BY <2>1, SumOfOnes
<1>3. \A x \in S : one[x] \in Nat
  BY <1>1
<1>4. \A k \in K : total[k] = SumFunctionOnSet(one, Group(S, key, k))
  <2>1. \A k \in K : Group(S, key, k) \in SUBSET S
    BY DEF Group
  <2> QED
    BY <1>2, <2>1
<1>5. SumFunctionOnSet(total, K) = SumFunctionOnSet(one, S)
  BY <1>3, <1>4, SumByGroups
<1> QED
  BY <1>2, <1>5

LEMMA FiniteImage ==
  ASSUME NEW S, IsFiniteSet(S), NEW T, NEW f \in [S -> T], \A t \in T : \E s \in S : f[s] = t
  PROVE  IsFiniteSet(T)
<1>1. f \in Surjection(S, T)
  BY DEF Surjection
<1> QED
  BY <1>1, FS_Surjection

-----------------------------------------------------------------------------
(* Maxima and enumerations *)

\* A number for each member of a finite set: one of them has the greatest.
LEMMA Greatest ==
  ASSUME NEW S, IsFiniteSet(S), S # {}, NEW f, \A x \in S : f[x] \in Int
  PROVE  \E x \in S : \A y \in S : f[x] >= f[y]
<1> DEFINE HasGreatest(s) == \E x \in s : \A y \in s : f[x] >= f[y]
           Bad == {s \in SUBSET S : s # {} /\ ~HasGreatest(s)}
<1> SUFFICES ASSUME Bad # {} PROVE FALSE
  OBVIOUS
<1>0. Bad \subseteq SUBSET S
  OBVIOUS
<1> HIDE DEF Bad
<1>1. PICK s \in Bad : \A y \in Bad : y \subseteq s => y = s
  BY <1>0, SmallestSubset
<1> USE DEF Bad
<1>2. PICK x : x \in s
  BY <1>1
<1>3. s \ {x} # {}
  BY <1>1, <1>2
<1>4. HasGreatest(s \ {x})
  <2>1. s \ {x} \in SUBSET S /\ s \ {x} \subseteq s /\ s \ {x} # s
    BY <1>1, <1>2
  <2> HIDE DEF HasGreatest
  <2> QED
    BY <1>1, <1>3, <2>1, Zenon
<1>5. PICK m \in s \ {x} : \A y \in s \ {x} : f[m] >= f[y]
  BY <1>4
<1>6. f[m] \in Int /\ f[x] \in Int /\ \A y \in s : f[y] \in Int
  BY <1>1, <1>2, <1>5
<1>7. HasGreatest(s)
  <2>1. CASE f[x] >= f[m]
    BY <1>2, <1>5, <1>6, <2>1
  <2>2. CASE f[m] >= f[x]
    BY <1>2, <1>5, <1>6, <2>2
  <2> QED
    BY <1>6, <2>1, <2>2
<1> QED
  BY <1>1, <1>7

\* Positions of the members of S in some order by f: each once, from 1 on.
Ordered(pos, S, f) ==
  /\ pos \in [S -> 1..Cardinality(S)]
  /\ \A x, y \in S : pos[x] = pos[y] => x = y
  /\ \A i \in 1..Cardinality(S) : \E x \in S : pos[x] = i
  /\ \A x, y \in S : f[x] < f[y] => pos[x] < pos[y]

LEMMA CanBeOrdered ==
  ASSUME NEW S, IsFiniteSet(S), NEW f, \A x \in S : f[x] \in Int
  PROVE  \E pos : Ordered(pos, S, f)
<1> DEFINE Bad == {s \in SUBSET S : ~ \E pos : Ordered(pos, s, f)}
<1> SUFFICES ASSUME Bad # {} PROVE FALSE
  OBVIOUS
<1>0. Bad \subseteq SUBSET S
  OBVIOUS
<1> HIDE DEF Bad
<1>1. PICK s \in Bad : \A y \in Bad : y \subseteq s => y = s
  BY <1>0, SmallestSubset
<1> USE DEF Bad
<1>2. IsFiniteSet(s) /\ \A x \in s : f[x] \in Int
  BY <1>1, FS_Subset
<1>3. s # {}
  <2> SUFFICES ASSUME s = {} PROVE \E pos : Ordered(pos, s, f)
    BY <1>1
  <2>1. Cardinality(s) = 0
    BY FS_EmptySet
  <2>2. Ordered([x \in s |-> 1], s, f)
    BY <2>1 DEF Ordered
  <2> QED
    BY <2>2
<1>4. PICK m \in s : \A y \in s : f[m] >= f[y]
  BY <1>2, <1>3, Greatest
<1> DEFINE t == s \ {m}
           k == Cardinality(s)
<1>5. k \in Nat /\ k > 0 /\ Cardinality(t) = k - 1
  <2>1. IsFiniteSet(s) /\ Cardinality(s) \in Nat /\ Cardinality(s \ {m}) = Cardinality(s) - 1
    BY <1>2, FS_CardinalityType, FS_RemoveElement
  <2>2. Cardinality(s) # 0
    BY <1>2, <1>3, FS_EmptySet
  <2> QED
    BY <2>1, <2>2
<1>6. PICK old : Ordered(old, t, f)
  BY <1>1, <1>4
<1> DEFINE new == [x \in s |-> IF x = m THEN k ELSE old[x]]
<1> HIDE DEF k
<1>7. /\ old \in [t -> 1..(k - 1)]
      /\ \A x, y \in t : old[x] = old[y] => x = y
      /\ \A i \in 1..(k - 1) : \E x \in t : old[x] = i
      /\ \A x, y \in t : f[x] < f[y] => old[x] < old[y]
  <2> HIDE DEF t
  <2> QED
    BY <1>5, <1>6 DEF Ordered
<1>8. new[m] = k /\ \A x \in t : new[x] = old[x] /\ new[x] \in 1..(k - 1)
  BY <1>4, <1>7
<1>9. new \in [s -> 1..k]
  BY <1>5, <1>8
<1>10. \A x \in s : x = m \/ x \in t
  OBVIOUS
<1>11. \A x \in t : x \in s
  OBVIOUS
<1> HIDE DEF new, t
<1>12. \A x, y \in s : new[x] = new[y] => x = y
  BY <1>5, <1>7, <1>8, <1>10
<1>13. \A i \in 1..k : \E x \in s : new[x] = i
  <2> SUFFICES ASSUME NEW i \in 1..k PROVE \E x \in s : new[x] = i
    OBVIOUS
  <2>1. CASE i = k
    BY <1>4, <1>8, <2>1
  <2>2. CASE i # k
    <3>1. i \in 1..(k - 1)
      BY <1>5, <2>2
    <3> QED
      BY <1>7, <1>8, <1>11, <3>1
  <2> QED
    BY <2>1, <2>2
<1>14. \A x, y \in s : f[x] < f[y] => new[x] < new[y]
  <2> SUFFICES ASSUME NEW x \in s, NEW y \in s, f[x] < f[y] PROVE new[x] < new[y]
    OBVIOUS
  <2>1. x # m
    BY <1>2, <1>4
  <2>2. CASE y = m
    BY <1>5, <1>8, <1>10, <2>1, <2>2
  <2>3. CASE y # m
    BY <1>7, <1>8, <1>10, <2>1, <2>3
  <2> QED
    BY <2>2, <2>3
<1>15. Ordered(new, s, f)
  BY <1>9, <1>12, <1>13, <1>14 DEF Ordered, k
<1> QED
  BY <1>1, <1>15
=============================================================================
