------------------------- MODULE CalculationsProofs -------------------------
(* Theorems about module Calculations: what the rounds of pinning, the     *)
(* screens, the gates and the reports come to, for every input.            *)
EXTENDS Calculations, TLAPS, FiniteSetTheorems, WellFoundedInduction, SequenceTheorems, NaturalsInduction

(* Sums *)

Some(U) == CHOOSE x \in U : TRUE

(* Some function grows by f[x] with each x of S.                            *)
Growing(count, f, S) ==
    /\ count = [U \in SUBSET S |-> count[U]] /\ count[{}] = 0
    /\ \A U \in SUBSET S : \A x \in U : count[U] = f[x] + count[U \ {x}]

(* A set of finite sets has one that is smallest.                           *)
LEMMA SmallestSet ==
    ASSUME NEW S, IsFiniteSet(S), NEW Bad \in SUBSET SUBSET S, Bad # {}
    PROVE  \E U \in Bad : \A V \in Bad : V \subseteq U => V = U
<1> DEFINE Smaller == StrictSubsetOrdering(S)
<1>1. PICK U \in Bad : \A V \in Bad : <<V, U>> \notin Smaller
  <2>1. IsWellFoundedOn(Smaller, FiniteSubsetsOf(S))
    BY FS_StrictSubsetOrderingWellFounded
  <2>2. Bad \subseteq FiniteSubsetsOf(S)
    BY FS_Subset DEF FiniteSubsetsOf
  <2> HIDE DEF Smaller
  <2> QED
    BY <2>1, <2>2, WFMin
<1>2. ASSUME NEW V \in Bad, V \subseteq U, V # U
      PROVE  FALSE
  <2>1. V \in FiniteSubsetsOf(S) /\ U \in FiniteSubsetsOf(S)
    BY FS_Subset DEF FiniteSubsetsOf
  <2>2. <<V, U>> \in Smaller
    BY <1>2, <2>1 DEF StrictSubsetOrdering, FiniteSubsetsOf
  <2> QED
    BY <1>1, <2>2
<1> QED
  BY <1>2

(* There is one sum, and whatever grows so is it.                           *)
LEMMA SumIs ==
    ASSUME NEW f, NEW S, IsFiniteSet(S), NEW count, Growing(count, f, S)
    PROVE  SumFunctionOnSet(f, S) = count[S]
<1> DEFINE Sums(it) == it = [U \in SUBSET S |-> IF U = {} THEN 0 ELSE f[Some(U)] + it[U \ {Some(U)}]]
           sum == CHOOSE it : Sums(it)
<1>1. SumFunctionOnSet(f, S) = sum[S]
  BY DEF SumFunctionOnSet, FoldFunctionOnSet, MapThenFoldSet, Some
<1>2. \A U \in SUBSET S : U # {} => Some(U) \in U
  BY DEF Some
<1>3. Sums(count)
  <2>1. \A U \in SUBSET S : count[U] = IF U = {} THEN 0 ELSE f[Some(U)] + count[U \ {Some(U)}]
    BY <1>2 DEF Growing
  <2> QED
    BY <2>1 DEF Growing
<1>4. Sums(sum)
  BY <1>3
<1> HIDE DEF sum
<1>5. \A U \in SUBSET S : sum[U] = count[U]
  <2> DEFINE Bad == {U \in SUBSET S : sum[U] # count[U]}
  <2> SUFFICES ASSUME Bad # {}
               PROVE  FALSE
    OBVIOUS
  <2>1. PICK U \in Bad : \A V \in Bad : V \subseteq U => V = U
    <3> HIDE DEF Bad
    <3>1. Bad \in SUBSET SUBSET S
      BY DEF Bad
    <3> QED
      BY <3>1, SmallestSet
  <2>2. U \in SUBSET S /\ sum[U] # count[U]
    BY <2>1
  <2>3. sum[U] = IF U = {} THEN 0 ELSE f[Some(U)] + sum[U \ {Some(U)}]
    BY <1>4, <2>2
  <2>4. U # {} /\ Some(U) \in U
    BY <1>2, <2>2, <2>3 DEF Growing
  <2> DEFINE V == U \ {Some(U)}
  <2>5. count[U] = f[Some(U)] + count[V]
    BY <2>2, <2>4 DEF Growing
  <2>6. V \in Bad /\ V \subseteq U /\ V # U
    BY <2>2, <2>3, <2>4, <2>5
  <2> QED
    BY <2>1, <2>6
<1> QED
  BY <1>1, <1>5

(* The pairs <<x, 1>> .. <<x, f[x]>>.                                       *)
Units(f, U) == {p \in U \X Nat : p[2] \in 1..f[p[1]]}
Positive(n) == IF n > 0 THEN n ELSE 0

LEMMA UnitsGrow ==
    ASSUME NEW f, NEW S, IsFiniteSet(S), \A x \in S : f[x] \in Int
    PROVE  /\ \A U \in SUBSET S : Cardinality(Units(f, U)) \in Nat
           /\ Cardinality(Units(f, {})) = 0
           /\ \A U \in SUBSET S : \A x \in U :
                Cardinality(Units(f, U)) = Positive(f[x]) + Cardinality(Units(f, U \ {x}))
<1>1. ASSUME NEW x \in S
      PROVE  /\ IsFiniteSet(Units(f, {x})) /\ Cardinality(Units(f, {x})) = Positive(f[x])
             /\ Units(f, {x}) = {x} \X (1..f[x])
  <2> PICK n, I : n = f[x] /\ I = 1..n
    OBVIOUS
  <2>1. n \in Int
    OBVIOUS
  <2>2. IsFiniteSet(I) /\ Cardinality(I) = IF 1 > n THEN 0 ELSE n - 1 + 1
    BY <2>1, 1 \in Int, FS_Interval, Zenon
  <2>3. Cardinality(I) = Positive(n) /\ Positive(n) \in Nat
    BY <2>1, <2>2 DEF Positive
  <2>4. IsFiniteSet({x}) /\ Cardinality({x}) = 1
    BY FS_Singleton
  <2>5. IsFiniteSet({x} \X I) /\ Cardinality({x} \X I) = Positive(n)
    <3>1. /\ IsFiniteSet({x} \X I)
          /\ Cardinality({x} \X I) = Cardinality({x}) * Cardinality(I)
      BY <2>2, <2>4, FS_Product, Zenon
    <3> PICK a, b, c : a = Cardinality({x}) /\ b = Cardinality(I) /\ c = Cardinality({x} \X I)
      OBVIOUS
    <3>2. c = a * b /\ a = 1 /\ b = Positive(n)
      BY <2>3, <2>4, <3>1
    <3>3. c = Positive(n)
      BY <2>3, <3>2
    <3> QED
      BY <3>1, <3>3
  <2>6. Units(f, {x}) = {x} \X I
    BY <2>1 DEF Units
  <2> QED
    BY <2>5, <2>6, Zenon
<1>2. \A U \in SUBSET S : IsFiniteSet(Units(f, U))
  <2> SUFFICES ASSUME NEW U \in SUBSET S
               PROVE  IsFiniteSet(Units(f, U))
    OBVIOUS
  <2> DEFINE Pieces == {Units(f, {x}) : x \in U}
  <2>1. IsFiniteSet(U)
    BY FS_Subset
  <2>2. IsFiniteSet(Pieces)
    <3> DEFINE part == [x \in U |-> Units(f, {x})]
    <3>1. part \in Surjection(U, Pieces)
      BY DEF Surjection
    <3> HIDE DEF part, Pieces
    <3> QED
      BY <2>1, <3>1, FS_Surjection
  <2>3. \A T \in Pieces : IsFiniteSet(T)
    BY <1>1
  <2>4. IsFiniteSet(UNION Pieces)
    <3> HIDE DEF Pieces
    <3> QED
      BY <2>2, <2>3, FS_UNION
  <2>5. Units(f, U) \subseteq UNION Pieces
    BY DEF Units
  <2> QED
    BY <2>4, <2>5, FS_Subset
<1>3. Cardinality(Units(f, {})) = 0
  <2>1. Units(f, {}) = {}
    BY DEF Units
  <2> QED
    BY <2>1, FS_EmptySet
<1>4. ASSUME NEW U \in SUBSET S, NEW x \in U
      PROVE  Cardinality(Units(f, U)) = Positive(f[x]) + Cardinality(Units(f, U \ {x}))
  <2> PICK A, B, C : A = Units(f, U \ {x}) /\ B = Units(f, {x}) /\ C = Units(f, U)
    OBVIOUS
  <2>1. C = A \cup B /\ A \cap B = {}
    BY DEF Units
  <2>2. IsFiniteSet(A) /\ IsFiniteSet(B)
    BY <1>2
  <2>3. Cardinality(B) = Positive(f[x]) /\ Positive(f[x]) \in Nat
    BY <1>1 DEF Positive
  <2>4. Cardinality(C) = Cardinality(A) + Cardinality(B)
    <3>1. Cardinality(A) \in Nat /\ Cardinality(B) \in Nat /\ Cardinality(A \cap B) = 0
      BY <2>1, <2>2, FS_CardinalityType, FS_EmptySet
    <3>2. Cardinality(A \cup B) = Cardinality(A) + Cardinality(B) - Cardinality(A \cap B)
      BY <2>2, FS_Union
    <3> PICK a, b, c, d : /\ a = Cardinality(A) /\ b = Cardinality(B)
                          /\ c = Cardinality(A \cup B) /\ d = Cardinality(A \cap B)
      OBVIOUS
    <3>3. c = a + b
      BY <3>1, <3>2
    <3> QED
      BY <2>1, <3>3
  <2>5. Cardinality(A) \in Nat
    BY <2>2, FS_CardinalityType
  <2> QED
    BY <2>3, <2>4, <2>5
<1>5. \A U \in SUBSET S : Cardinality(Units(f, U)) \in Nat
  BY <1>2, FS_CardinalityType
<1> QED
  BY <1>3, <1>4, <1>5

(* What a sum is: nothing of nothing, and f[x] more with each x.            *)
SumRule(f, S) ==
    /\ \A U \in SUBSET S : SumFunctionOnSet(f, U) \in Int
    /\ SumFunctionOnSet(f, {}) = 0
    /\ \A U \in SUBSET S : \A x \in U :
        SumFunctionOnSet(f, U) = f[x] + SumFunctionOnSet(f, U \ {x})

LEMMA SumObeys ==
    ASSUME NEW f, NEW S, IsFiniteSet(S), \A x \in S : f[x] \in Int
    PROVE  SumRule(f, S)
<1> DEFINE down == [x \in S |-> -f[x]]
           Count(U) == Cardinality(Units(f, U)) - Cardinality(Units(down, U))
<1>1. /\ \A U \in SUBSET S : Cardinality(Units(f, U)) \in Nat
      /\ Cardinality(Units(f, {})) = 0
      /\ \A U \in SUBSET S : \A x \in U :
           Cardinality(Units(f, U)) = Positive(f[x]) + Cardinality(Units(f, U \ {x}))
  BY UnitsGrow
<1>2. /\ \A U \in SUBSET S : Cardinality(Units(down, U)) \in Nat
      /\ Cardinality(Units(down, {})) = 0
      /\ \A U \in SUBSET S : \A x \in U :
           Cardinality(Units(down, U)) = Positive(down[x]) + Cardinality(Units(down, U \ {x}))
  <2>1. \A x \in S : down[x] \in Int
    OBVIOUS
  <2> HIDE DEF down
  <2> QED
    BY ZenonT(40), <2>1, UnitsGrow
<1>3. /\ \A U \in SUBSET S : Count(U) \in Int
      /\ Count({}) = 0
  BY <1>1, <1>2
<1>4. ASSUME NEW U \in SUBSET S, NEW x \in U
      PROVE  Count(U) = f[x] + Count(U \ {x})
  <2> PICK a, b, c, d, n : /\ a = Cardinality(Units(f, U)) /\ b = Cardinality(Units(f, U \ {x}))
                           /\ c = Cardinality(Units(down, U)) /\ d = Cardinality(Units(down, U \ {x}))
                           /\ n = f[x]
    OBVIOUS
  <2>1. U \ {x} \in SUBSET S /\ x \in S
    OBVIOUS
  <2>2. a \in Nat /\ b \in Nat /\ c \in Nat /\ d \in Nat /\ n \in Int
    BY <1>1, <1>2, <2>1
  <2>3. a = Positive(n) + b
    BY <1>1
  <2>4. c = Positive(-n) + d
    <3>1. down[x] = -n
      BY <2>1
    <3> QED
      BY <1>2, <3>1
  <2>5. a - c = n + (b - d)
    BY <2>2, <2>3, <2>4 DEF Positive
  <2> QED
    BY <2>5
<1> HIDE DEF Count
<1>5. ASSUME NEW U \in SUBSET S
      PROVE  SumFunctionOnSet(f, U) = Count(U)
  <2> PICK count : count = [V \in SUBSET U |-> Count(V)]
    OBVIOUS
  <2>1. IsFiniteSet(U)
    BY FS_Subset
  <2>2. Growing(count, f, U)
    <3>1. count = [V \in SUBSET U |-> count[V]] /\ count[{}] = 0
      BY <1>3
    <3>2. \A V \in SUBSET U : \A x \in V : count[V] = f[x] + count[V \ {x}]
      BY <1>4
    <3> QED
      BY <3>1, <3>2 DEF Growing
  <2>3. SumFunctionOnSet(f, U) = count[U]
    BY <2>1, <2>2, SumIs
  <2> QED
    BY <2>3
<1> QED
  BY <1>3, <1>4, <1>5 DEF SumRule

(* a of one sum is at most b of another if it is of every part.             *)
LEMMA SumsCompare ==
    ASSUME NEW S, IsFiniteSet(S), NEW f, NEW g, NEW a \in Int, NEW b \in Int,
           \A x \in S : f[x] \in Int /\ g[x] \in Int /\ a * f[x] <= b * g[x]
    PROVE  a * SumFunctionOnSet(f, S) <= b * SumFunctionOnSet(g, S)
<1> DEFINE Bad == {U \in SUBSET S : ~(a * SumFunctionOnSet(f, U) <= b * SumFunctionOnSet(g, U))}
<1>1. SumRule(f, S) /\ SumRule(g, S)
  BY SumObeys
<1> SUFFICES ASSUME Bad # {}
             PROVE  FALSE
  OBVIOUS
<1>2. PICK U \in Bad : \A V \in Bad : V \subseteq U => V = U
  <2>1. Bad \in SUBSET SUBSET S
    OBVIOUS
  <2> HIDE DEF Bad
  <2> QED
    BY <2>1, SmallestSet
<1>3. U # {}
  <2>1. a * SumFunctionOnSet(f, {}) <= b * SumFunctionOnSet(g, {})
    <3>1. SumFunctionOnSet(f, {}) = 0 /\ SumFunctionOnSet(g, {}) = 0
      BY <1>1 DEF SumRule
    <3>2. a * 0 <= b * 0
      OBVIOUS
    <3> QED
      BY <3>1, <3>2
  <2> QED
    BY <1>2, <2>1
<1>4. PICK x \in U : TRUE
  BY <1>3
<1>5. U \ {x} \notin Bad /\ U \ {x} \in SUBSET S /\ x \in S /\ U \in SUBSET S
  BY <1>2, <1>4
<1> PICK F, G, m, n, p, q : /\ F = SumFunctionOnSet(f, U \ {x}) /\ G = SumFunctionOnSet(g, U \ {x})
                            /\ m = SumFunctionOnSet(f, U) /\ n = SumFunctionOnSet(g, U)
                            /\ p = f[x] /\ q = g[x]
  OBVIOUS
<1>6. F \in Int /\ G \in Int /\ p \in Int /\ q \in Int /\ m = p + F /\ n = q + G
  BY <1>1, <1>4, <1>5 DEF SumRule
<1>7. a * F <= b * G /\ a * p <= b * q
  BY <1>5
<1>8. a * m <= b * n
  <2>1. a * m = a * p + a * F /\ b * n = b * q + b * G
    BY <1>6
  <2>2. a * p \in Int /\ a * F \in Int /\ b * q \in Int /\ b * G \in Int
    BY <1>6
  <2> QED
    BY <1>7, <2>1, <2>2
<1> QED
  BY <1>2, <1>8

(* Two sums of the same parts are the same.                                 *)
LEMMA SumsAgree ==
    ASSUME NEW S, IsFiniteSet(S), NEW f, NEW g, \A x \in S : f[x] \in Int /\ g[x] = f[x]
    PROVE  SumFunctionOnSet(f, S) = SumFunctionOnSet(g, S)
<1>1. SumRule(f, S) /\ SumRule(g, S)
  BY SumObeys
<1> PICK m, n : m = SumFunctionOnSet(f, S) /\ n = SumFunctionOnSet(g, S)
  OBVIOUS
<1>2. m \in Int /\ n \in Int
  BY <1>1 DEF SumRule
<1>3. 1 * m <= 1 * n
  BY SumsCompare
<1>4. 1 * n <= 1 * m
  BY SumsCompare
<1> QED
  BY <1>2, <1>3, <1>4

(* The sum of two sets without a common member.                             *)
LEMMA SumsSplit ==
    ASSUME NEW S, IsFiniteSet(S), NEW f, \A x \in S : f[x] \in Int,
           NEW A \in SUBSET S, NEW B \in SUBSET S, A \cap B = {}
    PROVE  SumFunctionOnSet(f, A \cup B) = SumFunctionOnSet(f, A) + SumFunctionOnSet(f, B)
<1> DEFINE Bad == {U \in SUBSET A : SumFunctionOnSet(f, U \cup B) # SumFunctionOnSet(f, U) + SumFunctionOnSet(f, B)}
<1>1. SumRule(f, S)
  BY SumObeys
<1> SUFFICES ASSUME Bad # {}
             PROVE  FALSE
  OBVIOUS
<1>2. PICK U \in Bad : \A V \in Bad : V \subseteq U => V = U
  <2>1. Bad \in SUBSET SUBSET A /\ IsFiniteSet(A)
    BY FS_Subset
  <2> HIDE DEF Bad
  <2> QED
    BY <2>1, SmallestSet
<1>3. U # {}
  <2>1. SumFunctionOnSet(f, {} \cup B) = SumFunctionOnSet(f, {}) + SumFunctionOnSet(f, B)
    <3>1. {} \cup B = B
      OBVIOUS
    <3> QED
      BY <1>1, <3>1 DEF SumRule
  <2> QED
    BY <1>2, <2>1
<1>4. PICK x \in U : TRUE
  BY <1>3
<1>5. /\ U \ {x} \notin Bad /\ U \ {x} \in SUBSET A /\ x \in A /\ U \in SUBSET A
      /\ U \ {x} \in SUBSET S /\ U \cup B \in SUBSET S /\ x \in U \cup B
  BY <1>2, <1>4
<1>6. (U \cup B) \ {x} = (U \ {x}) \cup B
  BY <1>5
<1> PICK m, n, p, q, r : /\ m = SumFunctionOnSet(f, U \cup B) /\ n = SumFunctionOnSet(f, (U \ {x}) \cup B)
                         /\ p = SumFunctionOnSet(f, U) /\ q = SumFunctionOnSet(f, U \ {x})
                         /\ r = SumFunctionOnSet(f, B)
  OBVIOUS
<1>7. m = f[x] + n /\ p = f[x] + q /\ n = q + r
  BY <1>1, <1>4, <1>5, <1>6 DEF SumRule
<1>8. f[x] \in Int /\ q \in Int /\ r \in Int
  BY <1>1, <1>5 DEF SumRule
<1>9. m = p + r
  BY <1>7, <1>8
<1> QED
  BY <1>2, <1>9

(* A sum of one number.                                                     *)
LEMMA SumOfEqual ==
    ASSUME NEW S, IsFiniteSet(S), NEW f, NEW k \in Int, \A x \in S : f[x] = k
    PROVE  SumFunctionOnSet(f, S) = k * Cardinality(S) /\ Cardinality(S) \in Nat
<1> PICK count : count = [U \in SUBSET S |-> k * Cardinality(U)]
  OBVIOUS
<1>1. ASSUME NEW U \in SUBSET S, NEW x \in U
      PROVE  count[U] = f[x] + count[U \ {x}]
  <2>1. IsFiniteSet(U)
    BY FS_Subset
  <2>2. Cardinality(U \ {x}) = Cardinality(U) - 1 /\ Cardinality(U) \in Nat
    BY <2>1, FS_RemoveElement, FS_CardinalityType
  <2> PICK m, n : m = Cardinality(U) /\ n = Cardinality(U \ {x})
    OBVIOUS
  <2>3. k * m = k + k * n
    BY <2>2
  <2> QED
    BY <2>3
<1>2. count[{}] = 0
  BY FS_EmptySet
<1>3. Growing(count, f, S)
  BY <1>1, <1>2 DEF Growing
<1>4. SumFunctionOnSet(f, S) = count[S]
  BY <1>3, SumIs
<1> QED
  BY <1>4, FS_CardinalityType

(* A part of a sum of naturals is at most the sum.                          *)
LEMMA SumOfPart ==
    ASSUME NEW S, IsFiniteSet(S), NEW f, \A x \in S : f[x] \in Nat, NEW A \in SUBSET S
    PROVE  /\ SumFunctionOnSet(f, A) \in Nat /\ SumFunctionOnSet(f, S) \in Nat
           /\ SumFunctionOnSet(f, A) <= SumFunctionOnSet(f, S)
           /\ \A x \in A : f[x] <= SumFunctionOnSet(f, A)
<1>1. SumRule(f, S)
  BY SumObeys
<1>2. \A U \in SUBSET S : SumFunctionOnSet(f, U) \in Nat
  <2> SUFFICES ASSUME NEW U \in SUBSET S
               PROVE  SumFunctionOnSet(f, U) \in Nat
    OBVIOUS
  <2> PICK zero : zero = [x \in U |-> 0]
    OBVIOUS
  <2>1. IsFiniteSet(U)
    BY FS_Subset
  <2>2. SumFunctionOnSet(zero, U) = 0 * Cardinality(U) /\ Cardinality(U) \in Nat
    BY <2>1, SumOfEqual
  <2>3. 1 * SumFunctionOnSet(zero, U) <= 1 * SumFunctionOnSet(f, U)
    <3>1. \A x \in U : zero[x] \in Int /\ f[x] \in Int /\ 1 * zero[x] <= 1 * f[x]
      OBVIOUS
    <3> QED
      BY <2>1, <3>1, SumsCompare
  <2>4. SumFunctionOnSet(f, U) \in Int
    BY <1>1 DEF SumRule
  <2> QED
    BY <2>2, <2>3, <2>4
<1>3. SumFunctionOnSet(f, A \cup (S \ A)) = SumFunctionOnSet(f, A) + SumFunctionOnSet(f, S \ A)
  <2> PICK B : B = S \ A
    OBVIOUS
  <2>1. B \in SUBSET S /\ A \cap B = {} /\ \A x \in S : f[x] \in Int
    OBVIOUS
  <2>2. SumFunctionOnSet(f, A \cup B) = SumFunctionOnSet(f, A) + SumFunctionOnSet(f, B)
    BY <2>1, SumsSplit
  <2> QED
    BY <2>2
<1>4. A \cup (S \ A) = S
  OBVIOUS
<1>5. SumFunctionOnSet(f, A) <= SumFunctionOnSet(f, S)
  <2> PICK m, n, p : m = SumFunctionOnSet(f, A) /\ n = SumFunctionOnSet(f, S \ A) /\ p = SumFunctionOnSet(f, S)
    OBVIOUS
  <2>1. p = m + n
    BY <1>3, <1>4
  <2>2. m \in Nat /\ n \in Nat
    BY <1>2
  <2> QED
    BY <2>1, <2>2
<1>6. ASSUME NEW x \in A
      PROVE  f[x] <= SumFunctionOnSet(f, A)
  <2>1. SumFunctionOnSet(f, A) = f[x] + SumFunctionOnSet(f, A \ {x})
    BY <1>1 DEF SumRule
  <2>2. SumFunctionOnSet(f, A \ {x}) \in Nat /\ f[x] \in Nat
    BY <1>2
  <2> QED
    BY <2>1, <2>2
<1> QED
  BY <1>2, <1>5, <1>6

---------------------------------------------------------------------------
(* Rounds *)

LEMMA LeastNumber ==
    ASSUME NEW S \in SUBSET Nat, S # {}
    PROVE  \E m \in S : \A n \in S : m <= n
<1>1. PICK m \in S : \A n \in S : <<n, m>> \notin OpToRel(<, Nat)
  BY NatLessThanWellFounded, WFMin
<1>2. ASSUME NEW n \in S
      PROVE  m <= n
  <2>1. ~(n < m)
    BY <1>1 DEF OpToRel
  <2> QED
    BY <2>1
<1> QED
  BY <1>2

(* What starts with b and takes a step with each number exists.             *)
Steps(h, V, b, N, step) ==
    h \in [0..N -> V] /\ h[0] = b /\ \A k \in 1..N : h[k] = step[h[k - 1]]

LEMMA StepsExist ==
    ASSUME NEW V, NEW b \in V, NEW N \in Nat, NEW step \in [V -> V]
    PROVE  \E h : Steps(h, V, b, N, step)
<1> DEFINE Bad == {n \in 0..N : ~ \E h : Steps(h, V, b, n, step)}
<1>0. N \in 0..N
  OBVIOUS
<1> SUFFICES ASSUME Bad # {}
             PROVE  FALSE
  BY <1>0
<1>1. PICK m \in Bad : \A n \in Bad : m <= n
  <2>1. Bad \in SUBSET Nat
    OBVIOUS
  <2> HIDE DEF Bad
  <2> QED
    BY <2>1, LeastNumber
<1>2. m \in 0..N /\ ~ \E h : Steps(h, V, b, m, step)
  BY <1>1
<1>3. m # 0
  <2> PICK h : h = [k \in 0..0 |-> b]
    OBVIOUS
  <2>1. Steps(h, V, b, 0, step)
    BY DEF Steps
  <2> QED
    BY <1>2, <2>1
<1>4. PICK h : Steps(h, V, b, m - 1, step)
  <2>1. m - 1 \in 0..N /\ ~(m <= m - 1)
    BY <1>2, <1>3
  <2> QED
    BY <1>1, <2>1
<1> PICK j : j = [k \in 0..m |-> IF k = m THEN step[h[m - 1]] ELSE h[k]]
  OBVIOUS
<1>5. Steps(j, V, b, m, step)
  <2>1. h[m - 1] \in V /\ h \in [0..(m - 1) -> V] /\ h[0] = b
    BY <1>2, <1>3, <1>4 DEF Steps
  <2>2. j \in [0..m -> V] /\ j[0] = b
    BY <1>2, <1>3, <2>1
  <2>3. ASSUME NEW k \in 1..m
        PROVE  j[k] = step[j[k - 1]]
    <3>1. j[k - 1] = h[k - 1]
      BY <1>2
    <3>2. CASE k = m
      BY <1>2, <3>1, <3>2
    <3>3. CASE k # m
      <4>1. k \in 1..(m - 1)
        BY <1>2, <3>3
      <4>2. h[k] = step[h[k - 1]]
        BY <1>4, <4>1 DEF Steps
      <4> QED
        BY <1>2, <3>1, <3>3, <4>2
    <3> QED
      BY <3>2, <3>3
  <2> QED
    BY <2>2, <2>3 DEF Steps
<1> QED
  BY <1>2, <1>5

---------------------------------------------------------------------------
(* Guardrails *)

PinRecord(D) == [high : SUBSET D, low : SUBSET D, settled : BOOLEAN]

LEMMA PinRecordIs ==
    ASSUME NEW D, NEW h \in SUBSET D, NEW l \in SUBSET D, NEW t \in BOOLEAN
    PROVE  [high |-> h, low |-> l, settled |-> t] \in PinRecord(D)
BY DEF PinRecord

LEMMA PinTyped ==
    ASSUME NEW raw, NEW p \in PinRecord(DOMAIN raw)
    PROVE  Pin(raw, p) \in PinRecord(DOMAIN raw)
<1> DEFINE D == DOMAIN raw
           free == FreeOf(raw, p)
           sum == SumFunctionOnSet(raw, free)
           high == {c \in free : raw[c] * Budget(p) > 50 * sum}
           low == {c \in free : raw[c] * Budget(p) < 5 * sum}
<1>1. free \subseteq D /\ high \subseteq D /\ low \subseteq D
  BY DEF FreeOf
<1>2. \/ Pin(raw, p) = p
      \/ Pin(raw, p) = [p EXCEPT !.low = @ \union free]
      \/ Pin(raw, p) = [high |-> p.high \union high, low |-> p.low \union low,
                        settled |-> high \union low = {}]
  BY DEF Pin
<1> HIDE DEF high, low, free
<1>3. CASE Pin(raw, p) = p
  BY <1>3
<1>4. CASE Pin(raw, p) = [p EXCEPT !.low = @ \union free]
  <2>1. p = [high |-> p.high, low |-> p.low, settled |-> p.settled] /\ p.low \subseteq D /\ p.high \subseteq D
    BY DEF PinRecord
  <2>2. Pin(raw, p) = [high |-> p.high, low |-> p.low \union free, settled |-> p.settled]
    BY <1>4, <2>1
  <2>3. p.low \union free \in SUBSET D /\ p.high \in SUBSET D /\ p.settled \in BOOLEAN
    BY <1>1, <2>1 DEF PinRecord
  <2> QED
    BY <2>2, <2>3, PinRecordIs
<1>5. CASE Pin(raw, p) = [high |-> p.high \union high, low |-> p.low \union low,
                          settled |-> high \union low = {}]
  <2> PICK h, l : h = p.high \union high /\ l = p.low \union low
    OBVIOUS
  <2>1. h \in SUBSET D /\ l \in SUBSET D
    BY <1>1 DEF PinRecord
  <2>2. CASE high \union low = {}
    <3>1. Pin(raw, p) = [high |-> h, low |-> l, settled |-> TRUE]
      BY <1>5, <2>2
    <3> QED
      BY <2>1, <3>1, PinRecordIs
  <2>3. CASE high \union low # {}
    <3>1. Pin(raw, p) = [high |-> h, low |-> l, settled |-> FALSE]
      BY <1>5, <2>3
    <3> QED
      BY <2>1, <3>1, PinRecordIs
  <2> QED
    BY <2>2, <2>3
<1> QED
  BY <1>2, <1>3, <1>4, <1>5

(* The pins are what the passes of Pin come to.                             *)
Passes(h, raw) ==
    LET N == Cardinality(DOMAIN raw) + 1 IN
    /\ h \in [0..N -> PinRecord(DOMAIN raw)] /\ h[0] = NoPins
    /\ \A k \in 1..N : h[k] = Pin(raw, h[k - 1])

LEMMA PinsPass ==
    ASSUME NEW raw, IsFiniteSet(DOMAIN raw)
    PROVE  \E h : Passes(h, raw) /\ Pins(raw) = h[Cardinality(DOMAIN raw) + 1]
<1> DEFINE N == Cardinality(DOMAIN raw) + 1
           V == PinRecord(DOMAIN raw)
           Is(it) == it = [pass \in 0..N |-> IF pass = 0 THEN NoPins ELSE Pin(raw, it[pass - 1])]
           after == CHOOSE it : Is(it)
<1>1. Pins(raw) = after[N]
  BY DEF Pins
<1>2. N \in Nat /\ N \in 0..N
  BY FS_CardinalityType
<1> PICK step : step = [p \in V |-> Pin(raw, p)]
  OBVIOUS
<1>3. PICK h : Steps(h, V, NoPins, N, step)
  <2>1. NoPins \in V
    BY DEF NoPins, PinRecord
  <2>2. step \in [V -> V]
    BY PinTyped
  <2> HIDE DEF V, N
  <2> QED
    BY <1>2, <2>1, <2>2, StepsExist
<1>4. Is(h)
  <2> SUFFICES ASSUME NEW k \in 0..N
               PROVE  h[k] = IF k = 0 THEN NoPins ELSE Pin(raw, h[k - 1])
    BY <1>3 DEF Steps
  <2>1. CASE k = 0
    BY <1>3, <2>1 DEF Steps
  <2>2. CASE k # 0
    <3>1. k \in 1..N /\ k - 1 \in 0..N
      BY <1>2, <2>2
    <3>2. h[k - 1] \in V /\ h[k] = step[h[k - 1]]
      BY <1>3, <3>1 DEF Steps
    <3> QED
      BY <2>2, <3>2
  <2> QED
    BY <2>1, <2>2
<1>5. Is(after)
  BY <1>4
<1> HIDE DEF after
<1>6. \A k \in 0..N : after[k] = IF k = 0 THEN NoPins ELSE Pin(raw, after[k - 1])
  BY <1>5
<1>7. ASSUME NEW k \in 0..N
      PROVE  after[k] = h[k]
  <2> DEFINE Bad == {n \in 0..N : after[n] # h[n]}
  <2> SUFFICES ASSUME Bad # {}
               PROVE  FALSE
    OBVIOUS
  <2>1. PICK m \in Bad : \A n \in Bad : m <= n
    <3>1. Bad \in SUBSET Nat
      OBVIOUS
    <3> HIDE DEF Bad
    <3> QED
      BY <3>1, LeastNumber
  <2>2. m # 0
    BY <1>4, <1>6, <2>1
  <2>3. m - 1 \in 0..N /\ m - 1 \notin Bad
    BY <1>2, <2>1, <2>2
  <2>4. after[m - 1] = h[m - 1]
    BY <2>3
  <2> QED
    BY <1>4, <1>6, <2>1, <2>2, <2>4
<1>8. \A k \in 1..N : h[k] = Pin(raw, h[k - 1])
  <2> SUFFICES ASSUME NEW k \in 1..N
               PROVE  h[k] = Pin(raw, h[k - 1])
    OBVIOUS
  <2>1. k \in 0..N /\ k # 0
    BY <1>2
  <2> QED
    BY <1>4, <2>1
<1> QED
  BY <1>1, <1>2, <1>3, <1>7, <1>8 DEF Passes, Steps

Weighable(raw) == IsFiniteSet(DOMAIN raw) /\ \A c \in DOMAIN raw : raw[c] \in Nat

FreeSum(raw, p) == SumFunctionOnSet(raw, FreeOf(raw, p))

(* What is pinned stands apart from the rest, and at most one is pinned at  *)
(* the most.                                                                *)
PinsApart(raw, p) ==
    /\ p.high \cap p.low = {}
    /\ \A c \in p.high : \A d \in DOMAIN raw \ p.high : raw[c] > raw[d]
    /\ \A c \in p.low : \A d \in DOMAIN raw \ p.low : raw[c] < raw[d]
    /\ \A c, d \in p.high : c = d

(* Once settled, the free weights are in bounds.                            *)
PinsSettled(raw, p) ==
    p.settled =>
        /\ FreeOf(raw, p) # {} /\ FreeSum(raw, p) > 0 /\ Budget(p) > 0
        /\ \A c \in FreeOf(raw, p) :
            5 * FreeSum(raw, p) <= raw[c] * Budget(p) /\ raw[c] * Budget(p) <= 50 * FreeSum(raw, p)

(* After the first pass what is free was in bounds as it came.              *)
PinsFirst(raw, p) ==
    ~p.settled => \A c \in FreeOf(raw, p) :
        5 * SumFunction(raw) <= 100 * raw[c] /\ 100 * raw[c] <= 50 * SumFunction(raw)

(* A pass settles, or has nothing left to do, or pins one more.             *)
PinsProgress(raw, p, k) ==
    \/ p.settled \/ FreeOf(raw, p) = {} \/ Budget(p) <= 0
    \/ Cardinality(FreeOf(raw, p)) + k <= Cardinality(DOMAIN raw)

PinInv(raw, p, k) ==
    /\ PinsApart(raw, p) /\ PinsSettled(raw, p) /\ (k >= 1 => PinsFirst(raw, p))
    /\ PinsProgress(raw, p, k)

LEMMA BudgetIs ==
    ASSUME NEW raw, IsFiniteSet(DOMAIN raw), NEW p \in PinRecord(DOMAIN raw)
    PROVE  /\ Cardinality(p.high) \in Nat /\ Cardinality(p.low) \in Nat
           /\ Budget(p) \in Int /\ Budget(p) <= 100 /\ (p.high # {} => Budget(p) <= 50)
           /\ IsFiniteSet(p.high) /\ IsFiniteSet(p.low) /\ IsFiniteSet(FreeOf(raw, p))
           /\ FreeOf(raw, p) \subseteq DOMAIN raw
<1>1. p.high \subseteq DOMAIN raw /\ p.low \subseteq DOMAIN raw /\ FreeOf(raw, p) \subseteq DOMAIN raw
  BY DEF PinRecord, FreeOf
<1>2. IsFiniteSet(p.high) /\ IsFiniteSet(p.low) /\ IsFiniteSet(FreeOf(raw, p))
  BY <1>1, FS_Subset
<1>3. Cardinality(p.high) \in Nat /\ Cardinality(p.low) \in Nat
  BY <1>2, FS_CardinalityType
<1>4. p.high # {} => Cardinality(p.high) # 0
  BY <1>2, FS_EmptySet
<1> QED
  BY <1>1, <1>2, <1>3, <1>4 DEF Budget

(* What one pass puts out of bounds.                                        *)
TooHigh(raw, p) == {c \in FreeOf(raw, p) : raw[c] * Budget(p) > 50 * FreeSum(raw, p)}
TooLow(raw, p) == {c \in FreeOf(raw, p) : raw[c] * Budget(p) < 5 * FreeSum(raw, p)}

LEMMA PinIs ==
    ASSUME NEW raw, Weighable(raw), NEW p \in PinRecord(DOMAIN raw),
           ~p.settled, FreeOf(raw, p) # {}, Budget(p) > 0
    PROVE  /\ FreeSum(raw, p) \in Nat
           /\ FreeSum(raw, p) = 0 =>
                Pin(raw, p) = [high |-> p.high, low |-> p.low \union FreeOf(raw, p), settled |-> p.settled]
           /\ FreeSum(raw, p) # 0 =>
                Pin(raw, p) = [high |-> p.high \union TooHigh(raw, p), low |-> p.low \union TooLow(raw, p),
                               settled |-> TooHigh(raw, p) \union TooLow(raw, p) = {}]
           /\ \A c \in FreeOf(raw, p) : raw[c] \in Nat /\ raw[c] <= FreeSum(raw, p)
<1>1. FreeOf(raw, p) \in SUBSET DOMAIN raw
  BY DEF FreeOf
<1>2. FreeSum(raw, p) \in Nat /\ \A c \in FreeOf(raw, p) : raw[c] \in Nat /\ raw[c] <= FreeSum(raw, p)
  BY <1>1, SumOfPart DEF Weighable, FreeSum
<1>3. ASSUME FreeSum(raw, p) = 0
      PROVE  Pin(raw, p) = [high |-> p.high, low |-> p.low \union FreeOf(raw, p), settled |-> p.settled]
  <2>1. Pin(raw, p) = [p EXCEPT !.low = @ \union FreeOf(raw, p)]
    BY <1>3, ~p.settled, FreeOf(raw, p) # {}, <1>2, BudgetIs DEF Pin, FreeSum, Weighable
  <2>2. p = [high |-> p.high, low |-> p.low, settled |-> p.settled]
    BY DEF PinRecord
  <2> QED
    BY <2>1, <2>2
<1>4. ASSUME FreeSum(raw, p) # 0
      PROVE  Pin(raw, p) = [high |-> p.high \union TooHigh(raw, p), low |-> p.low \union TooLow(raw, p),
                            settled |-> TooHigh(raw, p) \union TooLow(raw, p) = {}]
  <2>1. ~(Budget(p) <= 0)
    BY BudgetIs DEF Weighable
  <2> QED
    BY <1>4, <2>1, Zenon DEF Pin, FreeSum, TooHigh, TooLow
<1> QED
  BY <1>2, <1>3, <1>4

(* Two weights over half of what is shared do not exist.                    *)
LEMMA OneTooHigh ==
    ASSUME NEW raw, Weighable(raw), NEW p \in PinRecord(DOMAIN raw),
           ~p.settled, FreeOf(raw, p) # {}, Budget(p) > 0
    PROVE  /\ \A c, d \in TooHigh(raw, p) : c = d
           /\ p.high # {} => TooHigh(raw, p) = {}
<1> PICK B, F, sum : B = Budget(p) /\ F = FreeOf(raw, p) /\ sum = FreeSum(raw, p)
  OBVIOUS
<1>1. /\ B \in Int /\ 0 < B /\ B <= 100 /\ (p.high # {} => B <= 50)
      /\ F \subseteq DOMAIN raw /\ IsFiniteSet(F)
  BY BudgetIs DEF Weighable
<1>2. sum \in Nat /\ \A c \in F : raw[c] \in Nat /\ raw[c] <= sum
  BY PinIs
<1>3. ASSUME NEW c \in F, NEW d \in F, c # d
      PROVE  raw[c] + raw[d] <= sum
  <2>1. SumRule(raw, F)
    BY <1>1, <1>2, SumObeys
  <2>2. sum = raw[c] + SumFunctionOnSet(raw, F \ {c})
    BY <2>1 DEF SumRule, FreeSum
  <2>3. raw[d] <= SumFunctionOnSet(raw, F \ {c}) /\ SumFunctionOnSet(raw, F \ {c}) \in Nat
    <3> PICK G : G = F \ {c}
      OBVIOUS
    <3>1. G \in SUBSET F /\ d \in G /\ \A x \in F : raw[x] \in Nat
      BY <1>2, <1>3
    <3>2. SumFunctionOnSet(raw, G) \in Nat /\ \A x \in G : raw[x] <= SumFunctionOnSet(raw, G)
      BY <1>1, <3>1, SumOfPart
    <3> QED
      BY <3>1, <3>2
  <2> PICK s : s = SumFunctionOnSet(raw, F \ {c})
    OBVIOUS
  <2>4. raw[c] \in Nat /\ raw[d] \in Nat
    BY <1>2
  <2> QED
    BY <2>2, <2>3, <2>4
<1>4. ASSUME NEW c \in TooHigh(raw, p), NEW d \in TooHigh(raw, p), c # d
      PROVE  FALSE
  <2> PICK x, y : x = raw[c] /\ y = raw[d]
    OBVIOUS
  <2>1. c \in F /\ d \in F /\ x * B > 50 * sum /\ y * B > 50 * sum
    BY DEF TooHigh
  <2>2. x \in Nat /\ y \in Nat /\ x + y <= sum
    BY <1>2, <1>3, <1>4, <2>1
  <2>3. (x + y) * B <= sum * 100
    <3>1. (x + y) * B <= sum * B
      BY <1>1, <1>2, <2>2
    <3>2. sum * B <= sum * 100
      BY <1>1, <1>2
    <3>3. (x + y) * B \in Int /\ sum * B \in Int /\ sum * 100 \in Int
      BY <1>1, <1>2, <2>2
    <3> QED
      BY <3>1, <3>2, <3>3
  <2>4. (x + y) * B = x * B + y * B
    BY <1>1, <2>2
  <2>5. x * B \in Int /\ y * B \in Int
    BY <1>1, <2>2
  <2> QED
    BY <1>2, <2>1, <2>3, <2>4, <2>5
<1>5. ASSUME p.high # {}, NEW c \in TooHigh(raw, p)
      PROVE  FALSE
  <2> PICK x : x = raw[c]
    OBVIOUS
  <2>1. c \in F /\ x * B > 50 * sum
    BY DEF TooHigh
  <2>2. x \in Nat /\ x <= sum /\ B <= 50
    BY <1>1, <1>2, <1>5, <2>1
  <2>3. x * B <= x * 50
    BY <1>1, <2>2
  <2>4. x * B \in Int
    BY <1>1, <2>2
  <2> QED
    BY <1>2, <2>1, <2>2, <2>3, <2>4
<1> QED
  BY <1>4, <1>5

LEMMA PinStep ==
    ASSUME NEW raw, Weighable(raw), NEW p \in PinRecord(DOMAIN raw), NEW k \in Nat,
           PinInv(raw, p, k), k = 0 => p = NoPins
    PROVE  PinInv(raw, Pin(raw, p), k + 1)
<1> PICK D : D = DOMAIN raw
  OBVIOUS
<1> PICK B, F, sum, q : B = Budget(p) /\ F = FreeOf(raw, p) /\ sum = FreeSum(raw, p) /\ q = Pin(raw, p)
  OBVIOUS
<1>1. /\ B \in Int /\ B <= 100 /\ F \subseteq D /\ IsFiniteSet(F) /\ IsFiniteSet(D)
      /\ F = D \ (p.high \union p.low) /\ p.high \subseteq D /\ p.low \subseteq D
      /\ \A c \in D : raw[c] \in Nat
  BY BudgetIs DEF Weighable, FreeOf, PinRecord
<1>2. CASE p.settled \/ F = {} \/ B <= 0
  <2>1. q = p
    BY <1>2 DEF Pin
  <2>2. PinsFirst(raw, p)
    <3>1. CASE k = 0
      <4>1. ~p.settled /\ B = 100
        <5>1. Cardinality({}) = 0
          BY FS_EmptySet
        <5> QED
          BY <3>1, <5>1 DEF NoPins, Budget
      <4>2. F = {}
        BY <1>2, <4>1
      <4> QED
        BY <4>2 DEF PinsFirst
    <3>2. CASE k # 0
      BY <3>2 DEF PinInv
    <3> QED
      BY <3>1, <3>2
  <2>3. PinsProgress(raw, p, k + 1)
    BY <1>2 DEF PinsProgress
  <2> QED
    BY <2>1, <2>2, <2>3 DEF PinInv
<1>3. CASE ~p.settled /\ F # {} /\ B > 0
  <2>1. /\ sum \in Nat
        /\ sum = 0 => q = [high |-> p.high, low |-> p.low \union F, settled |-> p.settled]
        /\ sum # 0 => q = [high |-> p.high \union TooHigh(raw, p), low |-> p.low \union TooLow(raw, p),
                           settled |-> TooHigh(raw, p) \union TooLow(raw, p) = {}]
        /\ \A c \in F : raw[c] \in Nat /\ raw[c] <= sum
    BY <1>3, PinIs
  <2>2. /\ p.high \cap p.low = {}
        /\ \A c \in p.high : \A d \in D \ p.high : raw[c] > raw[d]
        /\ \A c \in p.low : \A d \in D \ p.low : raw[c] < raw[d]
        /\ \A c, d \in p.high : c = d
    BY DEF PinInv, PinsApart
  <2>3. CASE sum = 0
    <3>1. q.high = p.high /\ q.low = p.low \union F /\ ~q.settled
      BY <1>3, <2>1, <2>3
    <3>2. FreeOf(raw, q) = {}
      BY <1>1, <3>1 DEF FreeOf
    <3>3. PinsApart(raw, q)
      <4>1. q.high \cap q.low = {}
        BY <1>1, <2>2, <3>1
      <4>2. \A c \in q.high : \A d \in D \ q.high : raw[c] > raw[d]
        BY <2>2, <3>1
      <4>3. ASSUME NEW c \in q.low, NEW d \in D \ q.low
            PROVE  raw[c] < raw[d]
        <5>1. d \in p.high
          BY <1>1, <3>1, <4>3
        <5>2. c \in D \ p.high
          BY <1>1, <2>2, <3>1
        <5>3. raw[d] > raw[c] /\ raw[c] \in Nat /\ raw[d] \in Nat
          BY <1>1, <2>2, <5>1, <5>2
        <5> QED
          BY <5>3
      <4>4. \A c, d \in q.high : c = d
        BY <2>2, <3>1
      <4> QED
        BY <4>1, <4>2, <4>3, <4>4 DEF PinsApart
    <3> QED
      BY <3>1, <3>2, <3>3 DEF PinInv, PinsSettled, PinsFirst, PinsProgress
  <2>4. CASE sum # 0
    <3> PICK H, L : H = TooHigh(raw, p) /\ L = TooLow(raw, p)
      OBVIOUS
    <3>1. q = [high |-> p.high \union H, low |-> p.low \union L, settled |-> H \union L = {}]
      BY <2>1, <2>4
    <3>2. q.high = p.high \union H /\ q.low = p.low \union L /\ (q.settled <=> H \union L = {})
      <4>1. q.high = p.high \union H /\ q.low = p.low \union L
        BY <3>1
      <4>2. CASE H \union L = {}
        <5>1. q = [high |-> p.high \union H, low |-> p.low \union L, settled |-> TRUE]
          BY <3>1, <4>2
        <5> QED
          BY <4>1, <4>2, <5>1
      <4>3. CASE H \union L # {}
        <5>1. q = [high |-> p.high \union H, low |-> p.low \union L, settled |-> FALSE]
          BY <3>1, <4>3
        <5> QED
          BY <4>1, <4>3, <5>1
      <4> QED
        BY <4>2, <4>3
    <3>3. /\ H = {c \in F : raw[c] * B > 50 * sum} /\ L = {c \in F : raw[c] * B < 5 * sum}
          /\ sum > 0 /\ \A c \in D : raw[c] * B \in Int
      BY <1>1, <2>1, <2>4 DEF TooHigh, TooLow
    <3>4. FreeOf(raw, q) = F \ (H \union L)
      BY <1>1, <3>2 DEF FreeOf
    <3>5. H \cap L = {}
      <4> SUFFICES ASSUME NEW c \in D, raw[c] * B > 50 * sum, raw[c] * B < 5 * sum
                   PROVE  FALSE
        BY <1>1, <3>3
      <4> PICK m : m = raw[c] * B
        OBVIOUS
      <4>1. m \in Int /\ m > 50 * sum /\ m < 5 * sum
        BY <3>3
      <4> QED
        BY <2>1, <4>1
    <3>6. PinsApart(raw, q)
      <4>1. q.high \cap q.low = {}
        <5>1. H \cap p.low = {} /\ L \cap p.high = {}
          BY <1>1, <3>3
        <5> QED
          BY <2>2, <3>2, <3>5, <5>1
      <4>2. ASSUME NEW c \in q.high, NEW d \in D \ q.high
            PROVE  raw[c] > raw[d]
        <5>1. CASE c \in p.high
          BY <2>2, <3>2, <5>1
        <5>2. CASE c \in H
          <6>1. CASE d \in p.low
            <7>1. c \in D \ p.low
              BY <1>1, <3>3, <5>2
            <7>2. raw[d] < raw[c] /\ raw[c] \in Nat /\ raw[d] \in Nat
              BY <1>1, <2>2, <6>1, <7>1
            <7> QED
              BY <7>2
          <6>2. CASE d \notin p.low
            <7>1. d \in F /\ d \notin H /\ c \in F
              BY <1>1, <3>2, <3>3, <4>2, <5>2, <6>2
            <7> PICK x, y : x = raw[c] /\ y = raw[d]
              OBVIOUS
            <7>2. x * B > 50 * sum /\ ~(y * B > 50 * sum) /\ x \in Nat /\ y \in Nat
              BY <2>1, <3>3, <5>2, <7>1
            <7>3. y * B < x * B
              BY <1>1, <2>1, <7>2
            <7>4. ~(x <= y)
              BY <1>1, <1>3, <7>2, <7>3
            <7> QED
              BY <7>2, <7>4
          <6> QED
            BY <6>1, <6>2
        <5> QED
          BY <3>2, <5>1, <5>2
      <4>3. ASSUME NEW c \in q.low, NEW d \in D \ q.low
            PROVE  raw[c] < raw[d]
        <5>1. CASE c \in p.low
          BY <2>2, <3>2, <5>1
        <5>2. CASE c \in L
          <6>1. CASE d \in p.high
            <7>1. c \in D \ p.high
              BY <1>1, <3>3, <5>2
            <7>2. raw[d] > raw[c] /\ raw[c] \in Nat /\ raw[d] \in Nat
              BY <1>1, <2>2, <6>1, <7>1
            <7> QED
              BY <7>2
          <6>2. CASE d \notin p.high
            <7>1. d \in F /\ d \notin L /\ c \in F
              BY <1>1, <3>2, <3>3, <4>3, <5>2, <6>2
            <7> PICK x, y : x = raw[c] /\ y = raw[d]
              OBVIOUS
            <7>2. x * B < 5 * sum /\ ~(y * B < 5 * sum) /\ x \in Nat /\ y \in Nat
              BY <2>1, <3>3, <5>2, <7>1
            <7>3. x * B < y * B
              BY <1>1, <2>1, <7>2
            <7>4. ~(y <= x)
              BY <1>1, <1>3, <7>2, <7>3
            <7> QED
              BY <7>2, <7>4
          <6> QED
            BY <6>1, <6>2
        <5> QED
          BY <3>2, <5>1, <5>2
      <4>4. \A c, d \in q.high : c = d
        <5>1. (\A c, d \in H : c = d) /\ (p.high # {} => H = {})
          BY <1>3, OneTooHigh
        <5> QED
          BY <2>2, <3>2, <5>1
      <4> QED
        BY <4>1, <4>2, <4>3, <4>4 DEF PinsApart
    <3>7. PinsSettled(raw, q)
      <4> SUFFICES ASSUME q.settled
                   PROVE  /\ FreeOf(raw, q) # {} /\ FreeSum(raw, q) > 0 /\ Budget(q) > 0
                          /\ \A c \in FreeOf(raw, q) :
                               5 * FreeSum(raw, q) <= raw[c] * Budget(q) /\ raw[c] * Budget(q) <= 50 * FreeSum(raw, q)
        BY DEF PinsSettled
      <4>1. H = {} /\ L = {}
        BY <3>2
      <4>2. q.high = p.high /\ q.low = p.low
        BY <3>2, <4>1
      <4>3. FreeOf(raw, q) = F /\ FreeSum(raw, q) = sum /\ Budget(q) = B
        BY <4>2 DEF FreeOf, FreeSum, Budget
      <4>4. \A c \in F : ~(raw[c] * B > 50 * sum) /\ ~(raw[c] * B < 5 * sum)
        BY <3>3, <4>1
      <4>5. \A c \in F : raw[c] * B \in Int
        BY <1>1, <3>3
      <4> QED
        BY <1>3, <2>1, <3>3, <4>3, <4>4, <4>5
    <3>8. PinsFirst(raw, q)
      <4>1. CASE k # 0
        <5>1. \A c \in F : 5 * SumFunction(raw) <= 100 * raw[c] /\ 100 * raw[c] <= 50 * SumFunction(raw)
          BY <1>3, <4>1 DEF PinInv, PinsFirst
        <5> QED
          BY <3>4, <5>1 DEF PinsFirst
      <4>2. CASE k = 0
        <5>1. B = 100 /\ F = D
          <6>1. Cardinality({}) = 0
            BY FS_EmptySet
          <6>2. p.high = {} /\ p.low = {}
            BY <4>2 DEF NoPins
          <6>3. B = 100
            BY <6>1, <6>2 DEF Budget
          <6>4. F = D
            BY <1>1, <6>2
          <6> QED
            BY <6>3, <6>4
        <5>2. sum = SumFunction(raw)
          BY <5>1 DEF SumFunction, FreeSum
        <5>3. \A c \in F \ (H \union L) : ~(raw[c] * B > 50 * sum) /\ ~(raw[c] * B < 5 * sum)
          BY <3>3
        <5>4. \A c \in F \ (H \union L) : 5 * sum <= 100 * raw[c] /\ 100 * raw[c] <= 50 * sum
          BY <2>1, <5>1, <5>3
        <5> QED
          BY <3>4, <5>2, <5>4 DEF PinsFirst
      <4> QED
        BY <4>1, <4>2
    <3>9. PinsProgress(raw, q, k + 1)
      <4>1. CASE H \union L = {}
        BY <3>2, <4>1 DEF PinsProgress
      <4>2. CASE H \union L # {}
        <5>1. PICK x \in H \union L : TRUE
          BY <4>2
        <5> PICK G : G = FreeOf(raw, q)
          OBVIOUS
        <5>2. G \subseteq F \ {x} /\ x \in F
          BY <3>3, <3>4, <5>1
        <5>3. IsFiniteSet(F \ {x}) /\ Cardinality(F \ {x}) = Cardinality(F) - 1 /\ Cardinality(F) \in Nat
          BY <1>1, <5>2, FS_RemoveElement, FS_CardinalityType
        <5>4. Cardinality(G) <= Cardinality(F \ {x}) /\ Cardinality(G) \in Nat
          BY <5>2, <5>3, FS_Subset, FS_CardinalityType
        <5>5. Cardinality(F) + k <= Cardinality(D)
          <6>1. PinsProgress(raw, p, k)
            BY DEF PinInv
          <6>2. ~(B <= 0)
            BY <1>1, <1>3
          <6> QED
            BY <1>3, <6>1, <6>2, Zenon DEF PinsProgress
        <5>6. Cardinality(D) \in Nat
          BY <1>1, FS_CardinalityType
        <5>7. Cardinality(G) + (k + 1) <= Cardinality(D)
          BY <5>3, <5>4, <5>5, <5>6
        <5> QED
          BY <5>7 DEF PinsProgress
      <4> QED
        BY <4>1, <4>2
    <3> QED
      BY <3>6, <3>7, <3>8, <3>9 DEF PinInv
  <2> QED
    BY <2>3, <2>4
<1> QED
  BY <1>1, <1>2, <1>3

(* The pins that a rebalance ends with.                                     *)
LEMMA PinsAre ==
    ASSUME NEW raw, Weighable(raw)
    PROVE  LET p == Pins(raw) IN
           /\ p \in PinRecord(DOMAIN raw)
           /\ PinsApart(raw, p) /\ PinsSettled(raw, p) /\ PinsFirst(raw, p)
           /\ p.settled \/ FreeOf(raw, p) = {} \/ Budget(p) <= 0
<1> PICK n, N : n = Cardinality(DOMAIN raw) /\ N = n + 1
  OBVIOUS
<1>1. n \in Nat /\ N \in Nat
  BY FS_CardinalityType DEF Weighable
<1>2. PICK h : Passes(h, raw) /\ Pins(raw) = h[N]
  BY PinsPass DEF Weighable
<1>3. /\ h \in [0..N -> PinRecord(DOMAIN raw)] /\ h[0] = NoPins
      /\ \A k \in 1..N : h[k] = Pin(raw, h[k - 1])
  BY <1>2 DEF Passes
<1>4. ASSUME NEW k \in 0..N
      PROVE  PinInv(raw, h[k], k)
  <2> DEFINE Bad == {m \in 0..N : ~PinInv(raw, h[m], m)}
  <2> SUFFICES ASSUME Bad # {}
               PROVE  FALSE
    OBVIOUS
  <2>1. PICK m \in Bad : \A j \in Bad : m <= j
    <3>1. Bad \in SUBSET Nat
      BY <1>1
    <3> HIDE DEF Bad
    <3> QED
      BY <3>1, LeastNumber
  <2>2. PinInv(raw, h[0], 0)
    <3>1. FreeOf(raw, NoPins) = DOMAIN raw
      BY DEF FreeOf, NoPins
    <3> QED
      BY <1>1, <1>3, <3>1 DEF PinInv, PinsApart, PinsSettled, PinsProgress, NoPins
  <2>3. m \in 1..N
    BY <1>1, <2>1, <2>2
  <2>4. m - 1 \in 0..N /\ m - 1 \notin Bad
    BY <1>1, <2>1, <2>3
  <2>5. PinInv(raw, h[m - 1], m - 1)
    BY <2>4
  <2>6. PinInv(raw, Pin(raw, h[m - 1]), (m - 1) + 1)
    <3> PICK p, j : p = h[m - 1] /\ j = m - 1
      OBVIOUS
    <3>1. p \in PinRecord(DOMAIN raw) /\ j \in Nat /\ PinInv(raw, p, j) /\ (j = 0 => p = NoPins)
      BY <1>1, <1>3, <2>3, <2>4, <2>5
    <3> QED
      BY <3>1, PinStep
  <2>7. PinInv(raw, h[m], m)
    BY <1>1, <1>3, <2>3, <2>6
  <2> QED
    BY <2>1, <2>7
<1>5. N \in 0..N /\ h[N] \in PinRecord(DOMAIN raw) /\ PinInv(raw, h[N], N)
  BY <1>1, <1>3, <1>4
<1>6. ~(Cardinality(FreeOf(raw, h[N])) + N <= n)
  <2>1. Cardinality(FreeOf(raw, h[N])) \in Nat
    BY <1>5, BudgetIs, FS_CardinalityType DEF Weighable
  <2> QED
    BY <1>1, <2>1
<1> QED
  BY <1>1, <1>2, <1>5, <1>6 DEF PinInv, PinsProgress

LEMMA MaxOfTwo ==
    ASSUME NEW a \in Int, NEW b \in Int
    PROVE  Max({a, b}) = IF a >= b THEN a ELSE b
<1> PICK m : m = IF a >= b THEN a ELSE b
  OBVIOUS
<1>1. m \in {a, b} /\ \A y \in {a, b} : m >= y
  OBVIOUS
<1>2. ASSUME NEW x \in {a, b}, \A y \in {a, b} : x >= y
      PROVE  x = m
  BY <1>2
<1>3. Max({a, b}) = m
  BY <1>1, <1>2 DEF Max
<1> QED
  BY <1>3

(* What a weight comes to: pinned, as it is shared, or as it came.          *)
Shared(raw, p, parts, unit) ==
    /\ parts = [c \in DOMAIN raw |-> parts[c]]
    /\ \A c \in p.high : parts[c] = 50 * unit
    /\ \A c \in p.low : parts[c] = 5 * unit
    /\ \A c \in FreeOf(raw, p) :
        /\ parts[c] = raw[c] * (IF p.settled THEN Budget(p) ELSE 100)
        /\ parts[c] \in Nat /\ parts[c] <= 50 * unit /\ (raw[c] > 0 => 5 * unit <= parts[c])
    /\ unit \in Nat \ {0} /\ (p.settled => unit = FreeSum(raw, p))

LEMMA GuardrailsShare ==
    ASSUME NEW raw, Weighable(raw)
    PROVE  /\ \E unit : Shared(raw, Pins(raw), Guardrails(raw).parts, unit)
           /\ Guardrails(raw).whole = SumFunction(Guardrails(raw).parts)
<1> PICK p, F, B, D, T : /\ p = Pins(raw) /\ F = FreeOf(raw, p) /\ B = Budget(p) /\ D = DOMAIN raw
                         /\ T = SumFunction(raw)
  OBVIOUS
<1> PICK unit : unit = IF p.settled THEN SumFunctionOnSet(raw, F) ELSE Max({1, SumFunction(raw)})
  OBVIOUS
<1> PICK parts : parts = [c \in D |-> IF c \notin F THEN (IF c \in p.high THEN 50 ELSE 5) * unit
                                      ELSE raw[c] * (IF p.settled THEN B ELSE 100)]
  OBVIOUS
<1>1. Guardrails(raw) = Parts(parts)
  BY Zenon DEF Guardrails
<1>2. Guardrails(raw).parts = parts /\ Guardrails(raw).whole = SumFunction(parts)
  BY <1>1 DEF Parts
<1>3. /\ p \in PinRecord(D) /\ PinsApart(raw, p) /\ PinsSettled(raw, p) /\ PinsFirst(raw, p)
      /\ p.settled \/ F = {} \/ B <= 0
  BY PinsAre
<1>4. /\ B \in Int /\ F \subseteq D /\ F = D \ (p.high \union p.low)
      /\ p.high \subseteq D /\ p.low \subseteq D /\ p.high \cap p.low = {}
      /\ \A c \in D : raw[c] \in Nat
  BY <1>3, BudgetIs DEF Weighable, FreeOf, PinRecord, PinsApart
<1>5. FreeSum(raw, p) \in Nat /\ T \in Nat
  BY <1>4, SumOfPart DEF Weighable, FreeSum, SumFunction
<1>6. unit \in Nat \ {0} /\ (p.settled => unit = FreeSum(raw, p)) /\ (~p.settled => T <= unit /\ (T >= 1 => unit = T))
  <2>1. CASE p.settled
    BY <1>3, <1>5, <2>1 DEF PinsSettled, FreeSum
  <2>2. CASE ~p.settled
    <3>1. unit = Max({1, T})
      BY <2>2
    <3>2. unit = IF 1 >= T THEN 1 ELSE T
      BY <1>5, <3>1, MaxOfTwo
    <3> QED
      BY <1>5, <2>2, <3>2
  <2> QED
    BY <2>1, <2>2
<1>7. ASSUME NEW c \in F
      PROVE  /\ parts[c] = raw[c] * (IF p.settled THEN B ELSE 100)
             /\ parts[c] \in Nat /\ parts[c] <= 50 * unit /\ (raw[c] > 0 => 5 * unit <= parts[c])
  <2>1. parts[c] = raw[c] * (IF p.settled THEN B ELSE 100) /\ raw[c] \in Nat
    BY <1>4
  <2> PICK x : x = raw[c]
    OBVIOUS
  <2>2. CASE p.settled
    <3>1. 5 * unit <= x * B /\ x * B <= 50 * unit
      BY <1>3, <1>6, <2>2 DEF PinsSettled
    <3>2. x * B \in Int
      BY <1>4, <2>1
    <3> QED
      BY <1>6, <2>1, <2>2, <3>1, <3>2
  <2>3. CASE ~p.settled
    <3>1. 5 * T <= 100 * x /\ 100 * x <= 50 * T
      BY <1>3, <2>3 DEF PinsFirst
    <3> QED
      BY <1>5, <1>6, <2>1, <2>3, <3>1
  <2> QED
    BY <2>2, <2>3
<1>8. (\A c \in p.high : parts[c] = 50 * unit) /\ (\A c \in p.low : parts[c] = 5 * unit)
  BY <1>4
<1>9. Shared(raw, p, parts, unit)
  <2>1. parts = [c \in DOMAIN raw |-> parts[c]]
    OBVIOUS
  <2>2. \A c \in FreeOf(raw, p) :
          /\ parts[c] = raw[c] * (IF p.settled THEN Budget(p) ELSE 100)
          /\ parts[c] \in Nat /\ parts[c] <= 50 * unit /\ (raw[c] > 0 => 5 * unit <= parts[c])
    BY <1>7
  <2> QED
    BY <1>6, <1>8, <2>1, <2>2 DEF Shared
<1> QED
  BY <1>2, <1>9

(* The order of the weights is kept.                                        *)
LEMMA GuardrailsOrder ==
    ASSUME NEW raw, Weighable(raw), NEW c \in DOMAIN raw, NEW d \in DOMAIN raw, raw[c] >= raw[d]
    PROVE  Guardrails(raw).parts[c] >= Guardrails(raw).parts[d]
<1> PICK p, F, B, D, parts : /\ p = Pins(raw) /\ F = FreeOf(raw, p) /\ B = Budget(p) /\ D = DOMAIN raw
                             /\ parts = Guardrails(raw).parts
  OBVIOUS
<1>1. PICK unit : Shared(raw, p, parts, unit)
  BY GuardrailsShare
<1>2. /\ p \in PinRecord(D) /\ PinsApart(raw, p) /\ PinsSettled(raw, p)
  BY PinsAre
<1>3. /\ F = D \ (p.high \union p.low) /\ B \in Int /\ (p.settled => B > 0)
      /\ raw[c] \in Nat /\ raw[d] \in Nat
  BY <1>2, BudgetIs DEF Weighable, FreeOf, PinsSettled
<1>4. /\ \A e \in p.high : parts[e] = 50 * unit
      /\ \A e \in p.low : parts[e] = 5 * unit
      /\ \A e \in F : /\ parts[e] = raw[e] * (IF p.settled THEN B ELSE 100)
                      /\ parts[e] \in Nat /\ parts[e] <= 50 * unit /\ (raw[e] > 0 => 5 * unit <= parts[e])
      /\ unit \in Nat
  BY <1>1 DEF Shared
<1>5. /\ \A e \in p.high : \A g \in D \ p.high : raw[e] > raw[g]
      /\ \A e \in p.low : \A g \in D \ p.low : raw[e] < raw[g]
  BY <1>2 DEF PinsApart
<1>6. CASE c \in p.high
  BY <1>3, <1>4, <1>6
<1>7. CASE c \in p.low
  <2>1. d \in p.low
    BY <1>3, <1>5, <1>7
  <2> QED
    BY <1>4, <1>7, <2>1
<1>8. CASE c \in F
  <2>1. d \notin p.high
    BY <1>3, <1>5, <1>8
  <2>2. CASE d \in p.low
    <3>1. raw[c] > 0
      BY <1>3, <1>5, <1>8, <2>2
    <3> QED
      BY <1>4, <1>8, <2>2, <3>1
  <2>3. CASE d \in F
    <3> PICK x, y, k : x = raw[c] /\ y = raw[d] /\ k = IF p.settled THEN B ELSE 100
      OBVIOUS
    <3>1. parts[c] = x * k /\ parts[d] = y * k
      BY <1>4, <1>8, <2>3
    <3>2. k \in Nat
      BY <1>3
    <3>3. y * k <= x * k
      BY <1>3, <3>2
    <3>4. y * k \in Int /\ x * k \in Int
      BY <1>3, <3>2
    <3> QED
      BY <3>1, <3>3, <3>4
  <2> QED
    BY <1>3, <2>1, <2>2, <2>3
<1> QED
  BY <1>3, <1>6, <1>7, <1>8

(* Eleven or fewer each get at least five per cent of the whole.            *)
LEMMA GuardrailsLeast ==
    ASSUME NEW raw, Weighable(raw), Cardinality(DOMAIN raw) <= 11, NEW c \in DOMAIN raw
    PROVE  100 * Guardrails(raw).parts[c] >= 5 * Guardrails(raw).whole
<1> PICK p, F, B, D, parts : /\ p = Pins(raw) /\ F = FreeOf(raw, p) /\ B = Budget(p) /\ D = DOMAIN raw
                             /\ parts = Guardrails(raw).parts
  OBVIOUS
<1>1. PICK unit : Shared(raw, p, parts, unit)
  BY GuardrailsShare
<1>2. /\ p \in PinRecord(D) /\ PinsApart(raw, p) /\ PinsSettled(raw, p)
      /\ p.settled \/ F = {} \/ B <= 0
  BY PinsAre
<1> PICK H, L, h, l, f : H = p.high /\ L = p.low /\ h = Cardinality(H) /\ l = Cardinality(L) /\ f = Cardinality(F)
  OBVIOUS
<1>3. /\ IsFiniteSet(H) /\ IsFiniteSet(L) /\ IsFiniteSet(F) /\ IsFiniteSet(D)
      /\ h \in Nat /\ l \in Nat /\ f \in Nat /\ B = 100 - 50 * h - 5 * l
  BY <1>2, BudgetIs, FS_CardinalityType DEF Weighable, Budget
<1>4. /\ F = D \ (H \union L) /\ H \cap L = {} /\ H \subseteq D /\ L \subseteq D
      /\ H \union L \subseteq D /\ (H \union L) \cap F = {} /\ D = (H \union L) \union F
  BY <1>2 DEF FreeOf, PinsApart, PinRecord
<1>5. h <= 1
  <2>1. CASE H = {}
    BY <2>1, FS_EmptySet
  <2>2. CASE H # {}
    <3>1. PICK x \in H : TRUE
      BY <2>2
    <3>2. H = {x}
      BY <1>2, <3>1 DEF PinsApart
    <3> QED
      BY <3>2, FS_Singleton
  <2> QED
    BY <2>1, <2>2
<1>6. h + l + f <= 11
  <2>1. Cardinality(H \cap L) = 0 /\ Cardinality((H \union L) \cap F) = 0
    BY <1>4, FS_EmptySet
  <2>2. Cardinality(H \union L) = h + l - Cardinality(H \cap L)
    BY <1>3, FS_Union
  <2>6. IsFiniteSet(H \union L)
    BY <1>3, <1>4, FS_Subset
  <2>3. Cardinality((H \union L) \union F) = Cardinality(H \union L) + f - Cardinality((H \union L) \cap F)
    BY <1>3, <2>6, FS_Union
  <2>4. Cardinality(D) = Cardinality((H \union L) \union F)
    BY <1>4
  <2> PICK n, a, b, d : /\ n = Cardinality(D) /\ a = Cardinality(H \union L) /\ b = Cardinality(H \cap L)
                        /\ d = Cardinality((H \union L) \cap F)
    OBVIOUS
  <2>5. n = a + f - d /\ a = h + l - b /\ b = 0 /\ d = 0 /\ n <= 11
    BY <2>1, <2>2, <2>3, <2>4
  <2> QED
    BY <1>3, <2>5
<1>7. /\ \A e \in H : parts[e] = 50 * unit
      /\ \A e \in L : parts[e] = 5 * unit
      /\ \A e \in F : /\ parts[e] = raw[e] * (IF p.settled THEN B ELSE 100)
                      /\ parts[e] \in Nat /\ (raw[e] > 0 => 5 * unit <= parts[e])
      /\ unit \in Nat \ {0} /\ (p.settled => unit = FreeSum(raw, p))
      /\ DOMAIN parts = D
  BY <1>1 DEF Shared
<1>8. p.settled \/ F = {}
  <2> SUFFICES ASSUME F # {}, B <= 0
               PROVE  FALSE
    BY <1>2
  <2>1. f # 0
    BY <1>3, FS_EmptySet
  <2> QED
    BY <1>3, <1>5, <1>6, <2>1
<1>9. \A e \in D : parts[e] \in Int
  BY <1>4, <1>7
<1> PICK high, low, free, whole : /\ high = SumFunctionOnSet(parts, H) /\ low = SumFunctionOnSet(parts, L)
                                  /\ free = SumFunctionOnSet(parts, F) /\ whole = Guardrails(raw).whole
  OBVIOUS
<1>10. whole = (high + low) + free
  <2>1. whole = SumFunctionOnSet(parts, D)
    BY <1>7, GuardrailsShare DEF SumFunction
  <2> PICK HL : HL = H \union L
    OBVIOUS
  <2>2. SumFunctionOnSet(parts, HL \union F) = SumFunctionOnSet(parts, HL) + SumFunctionOnSet(parts, F)
    <3>1. HL \in SUBSET D /\ F \in SUBSET D /\ HL \cap F = {}
      BY <1>4
    <3> QED
      BY <1>3, <1>9, <3>1, SumsSplit
  <2>3. SumFunctionOnSet(parts, H \union L) = SumFunctionOnSet(parts, H) + SumFunctionOnSet(parts, L)
    <3>1. H \in SUBSET D /\ L \in SUBSET D /\ H \cap L = {}
      BY <1>4
    <3> QED
      BY <1>3, <1>9, <3>1, SumsSplit
  <2>4. D = HL \union F
    BY <1>4
  <2> QED
    BY <2>1, <2>2, <2>3, <2>4
<1>11. high = (50 * unit) * h
  <2> PICK k : k = 50 * unit
    OBVIOUS
  <2>1. k \in Int /\ \A x \in H : parts[x] = k
    BY <1>7
  <2> QED
    BY <1>3, <2>1, SumOfEqual
<1>12. low = (5 * unit) * l
  <2> PICK k : k = 5 * unit
    OBVIOUS
  <2>1. k \in Int /\ \A x \in L : parts[x] = k
    BY <1>7
  <2> QED
    BY <1>3, <2>1, SumOfEqual
<1>13. free \in Int /\ high \in Int /\ low \in Int
  <2>1. SumRule(parts, F)
    BY <1>3, <1>4, <1>9, SumObeys
  <2>2. free \in Int
    BY <2>1 DEF SumRule
  <2> QED
    BY <1>3, <1>7, <1>11, <1>12, <2>2
<1>14. \/ F = {} /\ free = 0
       \/ free <= B * unit
  <2>1. CASE F = {}
    <3>1. SumRule(parts, {})
      BY FS_EmptySet, SumObeys
    <3> QED
      BY <2>1, <3>1 DEF SumRule
  <2>2. CASE p.settled
    <3>1. \A x \in F : raw[x] \in Int /\ parts[x] \in Int /\ 1 * parts[x] <= B * raw[x]
      <4> SUFFICES ASSUME NEW x \in F
                   PROVE  raw[x] \in Int /\ parts[x] \in Int /\ 1 * parts[x] <= B * raw[x]
        OBVIOUS
      <4>1. raw[x] \in Int /\ parts[x] = raw[x] * B
        BY <1>4, <1>7, <2>2 DEF Weighable
      <4>2. raw[x] * B = B * raw[x] /\ B * raw[x] \in Int
        BY <1>3, <4>1
      <4> QED
        BY <4>1, <4>2
    <3>2. 1 * SumFunctionOnSet(parts, F) <= B * SumFunctionOnSet(raw, F)
      <4>1. B \in Int /\ 1 \in Int
        BY <1>3
      <4> QED
        BY ZenonT(30), <1>3, <3>1, <4>1, SumsCompare
    <3>3. unit = SumFunctionOnSet(raw, F)
      BY <1>7, <2>2 DEF FreeSum
    <3>4. 1 * free <= B * unit
      BY <3>2, <3>3
    <3> QED
      BY <1>13, <3>4
  <2> QED
    BY <1>8, <2>1, <2>2
<1>15. whole <= 100 * unit /\ whole \in Int
  <2> PICK m : m = l * unit
    OBVIOUS
  <2>1. m \in Nat /\ low = 5 * m
    BY <1>3, <1>7, <1>12
  <2>2. m <= (11 - h) * unit
    <3>1. l <= 11 - h
      BY <1>3, <1>6
    <3> PICK j : j = 11 - h
      OBVIOUS
    <3>2. l * unit <= j * unit
      BY <1>3, <1>5, <1>7, <3>1
    <3> QED
      BY <3>2
  <2>3. CASE h = 0
    <3>1. high = 0 /\ m <= 11 * unit
      BY <1>7, <1>11, <2>2, <2>3
    <3>2. B * unit = 100 * unit - 5 * m
      BY <1>3, <1>7, <2>3
    <3> QED
      BY <1>7, <1>10, <1>13, <1>14, <2>1, <3>1, <3>2
  <2>4. CASE h = 1
    <3>1. high = 50 * unit /\ m <= 10 * unit
      BY <1>7, <1>11, <2>2, <2>4
    <3>2. B * unit = 50 * unit - 5 * m
      BY <1>3, <1>7, <2>4
    <3> QED
      BY <1>7, <1>10, <1>13, <1>14, <2>1, <3>1, <3>2
  <2>5. h = 0 \/ h = 1
    BY <1>3, <1>5
  <2> QED
    BY <2>3, <2>4, <2>5
<1>16. 5 * unit <= parts[c] /\ parts[c] \in Int
  <2>1. CASE c \in F
    <3>1. raw[c] > 0
      <4>1. p.settled
        BY <1>8, <2>1
      <4>2. unit > 0 /\ 5 * unit <= raw[c] * B
        BY <1>2, <1>7, <2>1, <4>1 DEF PinsSettled
      <4>3. raw[c] # 0
        BY <1>3, <1>7, <4>2
      <4> QED
        BY <4>3 DEF Weighable
    <3> QED
      BY <1>7, <2>1, <3>1
  <2>2. CASE c \notin F
    BY <1>4, <1>7, <2>2
  <2> QED
    BY <2>1, <2>2
<1> QED
  BY <1>7, <1>15, <1>16

---------------------------------------------------------------------------
(* The floor of an order, and the plan *)

(* Equity that covers an order covers it when it doubles.                   *)
LEMMA FloorFalls ==
    ASSUME NEW rows, NEW w, \A c \in DOMAIN w.parts : w.parts[c] \in Int, w.whole \in Int,
           NEW caller \in Int, NEW jvm, jvm = None \/ jvm \in Int, NEW kelly,
           \A r \in rows : r.allocation \in Int /\ (kelly[r.id] = None \/ kelly[r.id] \in Int),
           MinNotional \in Nat
    PROVE  BelowFloor(rows, w, 2 * caller, jvm, kelly) \subseteq BelowFloor(rows, w, caller, jvm, kelly)
<1> PICK funded, e, e2 : /\ funded = {r \in rows : r.code \in DOMAIN w.parts}
                         /\ e = Equity(caller, jvm) /\ e2 = Equity(2 * caller, jvm)
  OBVIOUS
<1> DEFINE Short(r, equity) ==
             /\ w.parts[r.code] > 0 /\ r.allocation > 0
             /\ equity * r.allocation * KellyOf(r, jvm, kelly) * w.parts[r.code] < 10000 * MinNotional * w.whole
<1>1. /\ BelowFloor(rows, w, caller, jvm, kelly) = IF e <= 0 THEN funded ELSE {r \in funded : Short(r, e)}
      /\ BelowFloor(rows, w, 2 * caller, jvm, kelly) = IF e2 <= 0 THEN funded ELSE {r \in funded : Short(r, e2)}
  BY DEF BelowFloor
<1>2. e \in Int /\ e2 \in Int /\ (e2 = e \/ e2 = 2 * e)
  BY DEF Equity
<1>3. ASSUME NEW r \in funded, Short(r, e2), e > 0, e2 > 0
      PROVE  Short(r, e)
  <2> PICK a, k, q, m : /\ a = r.allocation /\ k = KellyOf(r, jvm, kelly) /\ q = w.parts[r.code]
                        /\ m = 10000 * MinNotional * w.whole
    OBVIOUS
  <2>1. k \in Nat /\ k > 0
    BY DEF KellyOf
  <2>2. a \in Int /\ q \in Int /\ m \in Int /\ q > 0 /\ a > 0 /\ e2 * a * k * q < m
    BY <1>3
  <2>3. e * a * k * q < m
    <3>1. CASE e2 = e
      BY <2>2, <3>1
    <3>2. CASE e2 = 2 * e
      <4> PICK n : n = e * a * k * q
        OBVIOUS
      <4>1. n \in Nat
        <5>1. e \in Nat /\ a \in Nat /\ q \in Nat
          BY <1>2, <1>3, <2>2
        <5>2. e * a \in Nat
          BY <5>1
        <5>3. (e * a) * k \in Nat
          BY <2>1, <5>2
        <5> QED
          BY <5>1, <5>3
      <4>2. e2 * a * k * q = 2 * n
        BY <1>2, <2>1, <2>2, <3>2
      <4> QED
        BY <2>2, <4>1, <4>2
    <3> QED
      BY <1>2, <3>1, <3>2
  <2> QED
    BY <2>2, <2>3
<1> HIDE DEF Short
<1>4. e > 0 => e2 > 0
  BY <1>2
<1> QED
  BY <1>1, <1>2, <1>3, <1>4

(* A plan that can be asked for is fair.                                    *)
LEMMA PlanFair ==
    ASSUME NEW x, PlanGiven(x), MinNotional \in Nat
    PROVE  PlanIsFair(x, PlanOf(x.rows, x.optimizer, x.computed, x.days, x.caller, x.jvm, x.kelly, x.rehearsal))
<1> PICK codes, raw, w : /\ codes = EligibleCodes(x.days) /\ raw = RawWeights(x.optimizer, codes, x.computed)
                         /\ w = Guardrails(raw)
  OBVIOUS
<1> DEFINE plan(caller) == PlanOf(x.rows, x.optimizer, x.computed, x.days, caller, x.jvm, x.kelly, x.rehearsal)
           eligible == {r \in x.rows : r.code \in codes}
<1>1. DOMAIN raw = codes /\ Weighable(raw)
  <2>1. IsFiniteSet(codes)
    BY FS_Subset DEF EligibleCodes, PlanGiven
  <2>2. DOMAIN raw = codes /\ \A c \in codes : raw[c] \in Nat
    BY DEF RawWeights, PlanGiven
  <2> QED
    BY <2>1, <2>2 DEF Weighable
<1>2. CASE codes = {}
  <2>1. \A n : plan(n) = [weights |-> Parts(<<>>), below |-> {}, blocked |-> FALSE]
    BY <1>2 DEF PlanOf
  <2>2. \A n : DOMAIN plan(n).weights.parts = {} /\ plan(n).below = {}
    BY <2>1 DEF Parts
  <2> QED
    BY <2>2 DEF PlanIsFair
<1>3. CASE codes # {}
  <2>1. \A n : plan(n).weights = w /\ plan(n).below = BelowFloor(eligible, w, n, x.jvm, x.kelly)
    BY <1>3 DEF PlanOf
  <2>2. DOMAIN w.parts = codes /\ (\A c \in codes : w.parts[c] \in Int) /\ w.whole \in Int
    <3>1. PICK unit : Shared(raw, Pins(raw), w.parts, unit) /\ w.whole = SumFunction(w.parts)
      BY <1>1, GuardrailsShare
    <3>2. DOMAIN w.parts = codes
      BY <1>1, <3>1 DEF Shared
    <3>3. \A c \in codes : c \in Pins(raw).high \/ c \in Pins(raw).low \/ c \in FreeOf(raw, Pins(raw))
      BY <1>1 DEF FreeOf
    <3>4. \A c \in codes : w.parts[c] \in Int
      BY <3>1, <3>3 DEF Shared
    <3>5. SumRule(w.parts, codes)
      BY <1>1, <3>4, SumObeys DEF Weighable
    <3> QED
      BY <3>1, <3>2, <3>4, <3>5 DEF SumRule, SumFunction
  <2>3. \A c, d \in codes : raw[c] >= raw[d] => w.parts[c] >= w.parts[d]
    BY <1>1, GuardrailsOrder
  <2>4. Cardinality(codes) <= 11 => \A c \in codes : 100 * w.parts[c] >= 5 * w.whole
    BY <1>1, GuardrailsLeast
  <2>5. BelowFloor(eligible, w, 2 * x.caller, x.jvm, x.kelly) \subseteq BelowFloor(eligible, w, x.caller, x.jvm, x.kelly)
    BY <2>2, FloorFalls DEF PlanGiven
  <2> HIDE DEF plan, eligible
  <2>6. PlanIsFair(x, plan(x.caller))
    <3>1. /\ plan(x.caller).weights = w
          /\ plan(2 * x.caller).below \subseteq plan(x.caller).below
      BY <2>1, <2>5
    <3> USE DEF plan
    <3>2. /\ \A c, d \in DOMAIN w.parts : raw[c] >= raw[d] => w.parts[c] >= w.parts[d]
          /\ Cardinality(DOMAIN w.parts) <= 11 => \A c \in DOMAIN w.parts : 100 * w.parts[c] >= 5 * w.whole
      BY <2>2, <2>3, <2>4
    <3> QED
      BY <3>1, <3>2, Zenon DEF PlanIsFair
  <2> QED
    BY <2>6 DEF plan
<1> QED
  BY <1>2, <1>3

---------------------------------------------------------------------------
(* The cap per symbol *)

CapSum(base, P) == SumFunctionOnSet(base, DOMAIN base \ P)

(* What is pinned leaves a budget, of which its own share was too much.     *)
CapInv(base, cap, P, k) ==
    /\ cap * Cardinality(P) < 100
    /\ \A s \in P : cap * CapSum(base, P) < CapBudget(cap, P) * base[s]
    /\ Saturate(base, cap, P) = P \/ k <= Cardinality(P)

Cappable(base, cap) ==
    IsFiniteSet(DOMAIN base) /\ (\A s \in DOMAIN base : base[s] \in Nat \ {0}) /\ cap \in 1..100

LEMMA CapStep ==
    ASSUME NEW base, NEW cap, Cappable(base, cap), NEW P \in SUBSET DOMAIN base, NEW k \in Nat,
           CapInv(base, cap, P, k)
    PROVE  CapInv(base, cap, Saturate(base, cap, P), k + 1)
<1> PICK D, B, F, p : D = DOMAIN base /\ B = CapBudget(cap, P) /\ F = CapSum(base, P) /\ p = Cardinality(P)
  OBVIOUS
<1> PICK N, Q : N = {s \in D \ P : B * base[s] > cap * F} /\ Q = P \union N
  OBVIOUS
<1>1. Saturate(base, cap, P) = Q
  BY DEF Saturate, CapSum
<1>2. CASE N = {}
  <2>1. Q = P /\ Saturate(base, cap, P) = P
    BY <1>1, <1>2
  <2> QED
    BY <2>1 DEF CapInv
<1>3. CASE N # {}
  <2>1. /\ IsFiniteSet(D) /\ IsFiniteSet(N) /\ IsFiniteSet(P) /\ IsFiniteSet(D \ P) /\ IsFiniteSet(Q)
        /\ N \subseteq D \ P /\ P \subseteq D /\ Q \subseteq D /\ cap \in 1..100 /\ p \in Nat
        /\ \A s \in D : base[s] \in Nat /\ base[s] > 0
    <3>1. IsFiniteSet(D) /\ N \subseteq D /\ N \subseteq D \ P /\ P \subseteq D /\ D \ P \subseteq D /\ Q \subseteq D
      BY DEF Cappable
    <3>2. IsFiniteSet(N) /\ IsFiniteSet(P) /\ IsFiniteSet(D \ P) /\ IsFiniteSet(Q)
      BY <3>1, FS_Subset
    <3>3. p \in Nat
      BY <3>2, FS_CardinalityType
    <3> QED
      BY <3>1, <3>2, <3>3 DEF Cappable
  <2>2. B \in Nat /\ B > 0 /\ B = 100 - cap * p
    <3>1. cap * p < 100 /\ cap * p \in Int
      BY <2>1 DEF CapInv
    <3> QED
      BY <2>1, <3>1 DEF CapBudget
  <2> PICK n, S, G : /\ n = Cardinality(N) /\ S = SumFunctionOnSet(base, N)
                     /\ G = SumFunctionOnSet(base, (D \ P) \ N)
    OBVIOUS
  <2>3. n \in Nat /\ n > 0
    <3>1. n \in Nat
      BY <2>1, FS_CardinalityType
    <3>2. n # 0
      BY <1>3, <2>1, FS_EmptySet
    <3> QED
      BY <3>1, <3>2
  <2>4. S \in Nat /\ G \in Nat /\ F \in Nat /\ F = S + G
    <3> PICK A, R : A = D \ P /\ R = (D \ P) \ N
      OBVIOUS
    <3>1. A = N \union R /\ N \in SUBSET A /\ R \in SUBSET A /\ N \cap R = {} /\ IsFiniteSet(A)
      BY <2>1
    <3>2. \A s \in A : base[s] \in Nat
      BY <2>1
    <3>3. S \in Nat /\ SumFunctionOnSet(base, A) \in Nat
      BY <3>1, <3>2, SumOfPart
    <3>4. G \in Nat
      BY <3>1, <3>2, SumOfPart
    <3>5. SumFunctionOnSet(base, N \union R) = S + G
      <4>1. \A s \in A : base[s] \in Int
        BY <3>2
      <4> QED
        BY <3>1, <4>1, SumsSplit
    <3> QED
      BY <3>1, <3>3, <3>4, <3>5 DEF CapSum
  <2>5. (cap * F + 1) * n <= B * S
    <3> PICK m : m = cap * F + 1
      OBVIOUS
    <3> PICK even : even = [s \in N |-> m]
      OBVIOUS
    <3>1. m \in Int
      BY <2>1, <2>4
    <3>2. SumFunctionOnSet(even, N) = m * n
      BY <2>1, <3>1, SumOfEqual
    <3>3. 1 * SumFunctionOnSet(even, N) <= B * SumFunctionOnSet(base, N)
      <4>1. ASSUME NEW s \in N
            PROVE  even[s] \in Int /\ base[s] \in Int /\ 1 * even[s] <= B * base[s]
        <5>1. B * base[s] > cap * F /\ base[s] \in Nat
          BY <2>1
        <5>2. B * base[s] \in Int /\ cap * F \in Int
          BY <2>1, <2>2, <2>4, <5>1
        <5>3. m <= B * base[s]
          BY <5>1, <5>2
        <5> QED
          BY <3>1, <5>1, <5>3
      <4>2. 1 \in Int /\ B \in Int
        BY <2>2
      <4> QED
        BY <2>1, <4>1, <4>2, SumsCompare
    <3>4. m * n \in Int
      BY <2>3, <3>1
    <3> QED
      BY <3>2, <3>3, <3>4
  <2> PICK j : j = cap * n
    OBVIOUS
  <2>6. j \in Nat /\ j * F + n <= B * S
    <3>1. (cap * F + 1) * n = j * F + n
      BY <2>1, <2>3, <2>4
    <3> QED
      BY <2>1, <2>3, <2>5, <3>1
  <2>7. j < B
    <3>1. B * S <= B * F
      BY <2>2, <2>4
    <3>2. j * F < B * F
      <4>1. j * F \in Int /\ B * F \in Int /\ B * S \in Int
        BY <2>2, <2>4, <2>6
      <4> QED
        BY <2>3, <2>6, <3>1, <4>1
    <3>3. ~(B <= j)
      <4>1. B <= j => B * F <= j * F
        BY <2>2, <2>4, <2>6
      <4>2. j * F \in Int /\ B * F \in Int
        BY <2>2, <2>4, <2>6
      <4> QED
        BY <3>2, <4>1, <4>2
    <3> QED
      BY <2>2, <2>6, <3>3
  <2>8. Cardinality(Q) = p + n
    <3>1. P \cap N = {}
      BY <2>1
    <3>2. Cardinality(P \union N) = p + n - Cardinality(P \cap N)
      BY <2>1, FS_Union
    <3>3. Cardinality(P \cap N) = 0
      BY <3>1, FS_EmptySet
    <3> QED
      BY <2>1, <2>3, <3>2, <3>3
  <2> PICK C : C = B - j
    OBVIOUS
  <2>9. cap * Cardinality(Q) < 100 /\ CapBudget(cap, Q) = C /\ C \in Nat /\ C > 0
    <3>1. cap * (p + n) = cap * p + j
      BY <2>1, <2>3
    <3>2. cap * p = 100 - B
      BY <2>1, <2>2
    <3>3. cap * Cardinality(Q) = 100 - C
      BY <2>2, <2>6, <2>8, <3>1, <3>2
    <3> QED
      BY <2>2, <2>6, <2>7, <3>3 DEF CapBudget
  <2>10. CapSum(base, Q) = G
    <3>1. D \ Q = (D \ P) \ N
      OBVIOUS
    <3> QED
      BY <3>1 DEF CapSum
  <2>11. B * G <= C * F
    <3>1. B * F = B * S + B * G /\ C * F = B * F - j * F
      BY <2>2, <2>4, <2>6
    <3>2. B * S \in Int /\ B * G \in Int /\ j * F \in Int /\ B * F \in Int
      BY <2>2, <2>4, <2>6
    <3> QED
      BY <2>3, <2>6, <3>1, <3>2
  <2>12. ASSUME NEW s \in Q
         PROVE  cap * G < C * base[s]
    <3> PICK b : b = base[s]
      OBVIOUS
    <3>1. b \in Nat /\ cap * F < B * b
      BY <2>1 DEF CapInv
    <3> PICK cf, cg : cf = cap * F /\ cg = cap * G
      OBVIOUS
    <3>2. cf \in Nat /\ cg \in Nat /\ cf < B * b
      BY <2>1, <2>4, <3>1
    <3>3. B * cg <= C * cf
      <4>1. B * cg = cap * (B * G) /\ C * cf = cap * (C * F)
        BY <2>1, <2>2, <2>4, <2>9
      <4> PICK u, v : u = B * G /\ v = C * F
        OBVIOUS
      <4>2. u \in Int /\ v \in Int /\ u <= v
        BY <2>2, <2>4, <2>9, <2>11
      <4>3. cap * u <= cap * v
        BY <2>1, <4>2
      <4> QED
        BY <4>1, <4>3
    <3>4. C * cf < C * (B * b)
      <4> PICK z : z = B * b
        OBVIOUS
      <4>1. z \in Nat /\ cf < z
        BY <2>2, <3>1, <3>2
      <4>2. C * cf < C * z
        BY <2>9, <3>2, <4>1
      <4> QED
        BY <4>2
    <3>5. C * (B * b) = B * (C * b) /\ C * b \in Nat
      BY <2>2, <2>9, <3>1
    <3> PICK y : y = C * b
      OBVIOUS
    <3>6. B * cg < B * y
      <4>1. B * cg \in Int /\ C * cf \in Int /\ B * y \in Int
        BY <2>2, <2>9, <3>2, <3>5
      <4> QED
        BY <3>3, <3>4, <3>5, <4>1
    <3>7. ~(y <= cg)
      <4>1. y <= cg => B * y <= B * cg
        BY <2>2, <3>2, <3>5
      <4>2. B * cg \in Int /\ B * y \in Int
        BY <2>2, <3>2, <3>5
      <4> QED
        BY <3>6, <4>1, <4>2
    <3> QED
      BY <3>2, <3>5, <3>7
  <2>13. k + 1 <= Cardinality(Q)
    <3>1. Saturate(base, cap, P) # P
      BY <1>1, <1>3, <2>1
    <3>2. k <= p
      BY <3>1 DEF CapInv
    <3> QED
      BY <2>1, <2>3, <2>8, <3>2
  <2> QED
    BY <1>1, <2>9, <2>10, <2>12, <2>13 DEF CapInv
<1> QED
  BY <1>2, <1>3

(* What is pinned in the end: nothing more would be.                        *)
LEMMA PinnedIs ==
    ASSUME NEW base, NEW cap, Cappable(base, cap)
    PROVE  LET P == Pinned(base, cap) IN
           /\ P \in SUBSET DOMAIN base
           /\ CapInv(base, cap, P, 0) /\ Saturate(base, cap, P) = P
<1> PICK D, n, N : D = DOMAIN base /\ n = Cardinality(D) /\ N = n + 1
  OBVIOUS
<1>1. n \in Nat /\ N \in Nat /\ N \in 0..N /\ IsFiniteSet(D)
  BY FS_CardinalityType DEF Cappable
<1> DEFINE V == SUBSET D
           Is(it) == it = [pass \in 0..N |-> IF pass = 0 THEN {} ELSE Saturate(base, cap, it[pass - 1])]
           after == CHOOSE it : Is(it)
<1>2. Pinned(base, cap) = after[N]
  BY DEF Pinned
<1> PICK step : step = [P \in V |-> Saturate(base, cap, P)]
  OBVIOUS
<1>3. PICK h : Steps(h, V, {}, N, step)
  <2>1. {} \in V
    OBVIOUS
  <2>2. step \in [V -> V]
    BY DEF Saturate
  <2> HIDE DEF V
  <2> QED
    BY <1>1, <2>1, <2>2, StepsExist
<1>4. h \in [0..N -> V] /\ h[0] = {} /\ \A k \in 1..N : h[k] = Saturate(base, cap, h[k - 1])
  <2>1. h \in [0..N -> V] /\ h[0] = {} /\ \A k \in 1..N : h[k] = step[h[k - 1]]
    BY <1>3 DEF Steps
  <2>2. ASSUME NEW k \in 1..N
        PROVE  h[k] = Saturate(base, cap, h[k - 1])
    <3>1. k - 1 \in 0..N
      BY <1>1
    <3>2. h[k - 1] \in V
      BY <2>1, <3>1
    <3> QED
      BY <2>1, <3>2
  <2> QED
    BY <2>1, <2>2
<1>5. Is(h)
  <2> SUFFICES ASSUME NEW k \in 0..N
               PROVE  h[k] = IF k = 0 THEN {} ELSE Saturate(base, cap, h[k - 1])
    BY <1>4
  <2>1. k = 0 \/ k \in 1..N
    BY <1>1
  <2> QED
    BY <1>4, <2>1
<1>6. Is(after)
  BY <1>5
<1> HIDE DEF after
<1>7. \A k \in 0..N : after[k] = IF k = 0 THEN {} ELSE Saturate(base, cap, after[k - 1])
  BY <1>6
<1>8. ASSUME NEW k \in 0..N
      PROVE  after[k] \in V /\ CapInv(base, cap, after[k], k)
  <2> DEFINE Bad == {m \in 0..N : ~(after[m] \in V /\ CapInv(base, cap, after[m], m))}
  <2> SUFFICES ASSUME Bad # {}
               PROVE  FALSE
    OBVIOUS
  <2>1. PICK m \in Bad : \A i \in Bad : m <= i
    <3>1. Bad \in SUBSET Nat
      BY <1>1
    <3> HIDE DEF Bad
    <3> QED
      BY <3>1, LeastNumber
  <2>2. after[0] \in V /\ CapInv(base, cap, after[0], 0)
    <3>1. after[0] = {}
      BY <1>1, <1>7
    <3>2. Cardinality({}) = 0
      BY FS_EmptySet
    <3>3. CapInv(base, cap, {}, 0)
      BY <3>2 DEF CapInv, Cappable
    <3> QED
      BY <3>1, <3>3
  <2>3. m \in 1..N
    BY <1>1, <2>1, <2>2
  <2>4. m - 1 \in 0..N /\ m - 1 \notin Bad
    BY <1>1, <2>1, <2>3
  <2> PICK P, i : P = after[m - 1] /\ i = m - 1
    OBVIOUS
  <2>5. P \in SUBSET DOMAIN base /\ i \in Nat /\ CapInv(base, cap, P, i)
    BY <1>1, <2>3, <2>4
  <2>6. CapInv(base, cap, Saturate(base, cap, P), i + 1)
    BY <2>5, CapStep
  <2>7. after[m] = Saturate(base, cap, P) /\ i + 1 = m
    BY <1>1, <1>7, <2>3
  <2>8. Saturate(base, cap, P) \in V
    BY <2>5 DEF Saturate
  <2> QED
    BY <2>1, <2>6, <2>7, <2>8
<1>9. after[N] \in V /\ CapInv(base, cap, after[N], N)
  BY <1>1, <1>8
<1>10. Saturate(base, cap, after[N]) = after[N]
  <2>1. Cardinality(after[N]) <= n /\ Cardinality(after[N]) \in Nat
    BY <1>1, <1>9, FS_Subset, FS_CardinalityType
  <2>2. ~(N <= Cardinality(after[N]))
    BY <1>1, <2>1
  <2> QED
    BY <1>9, <2>2 DEF CapInv
<1> QED
  BY <1>2, <1>9, <1>10 DEF CapInv

LEMMA DivExact ==
    ASSUME NEW a \in Int, NEW b \in Nat \ {0}
    PROVE  (a * b) \div b = a
<1> PICK q, r : q = (a * b) \div b /\ r = (a * b) % b
  OBVIOUS
<1>1. q \in Int /\ r \in 0..(b - 1) /\ a * b = b * q + r
  OBVIOUS
<1>2. b * (a - q) = r
  <2>1. b * (a - q) = a * b - b * q
    BY <1>1
  <2> QED
    BY <1>1, <2>1
<1>3. a - q = 0
  <2> PICK d : d = a - q
    OBVIOUS
  <2>1. d \in Int /\ b * d = r
    BY <1>1, <1>2
  <2>2. CASE d >= 1
    <3>1. b * 1 <= b * d
      BY <2>1, <2>2
    <3> QED
      BY <1>1, <2>1, <3>1
  <2>3. CASE d <= -1
    <3>1. b * d <= b * (-1)
      BY <2>1, <2>3
    <3> QED
      BY <1>1, <2>1, <3>1
  <2> QED
    BY <2>1, <2>2, <2>3
<1> QED
  BY <1>1, <1>3

(* A sum of multiples.                                                      *)
Multiple(f, g, k, S) == k \in Int /\ \A x \in S : g[x] \in Int /\ f[x] = k * g[x]

LEMMA SumScaled ==
    ASSUME NEW S, IsFiniteSet(S), NEW f, NEW g, NEW k, Multiple(f, g, k, S)
    PROVE  SumFunctionOnSet(f, S) = k * SumFunctionOnSet(g, S) /\ SumFunctionOnSet(g, S) \in Int
<1> USE DEF Multiple
<1>1. \A x \in S : f[x] \in Int /\ 1 * f[x] <= k * g[x] /\ k * g[x] <= 1 * f[x]
  <2> SUFFICES ASSUME NEW x \in S
               PROVE  f[x] \in Int /\ 1 * f[x] <= k * g[x] /\ k * g[x] <= 1 * f[x]
    OBVIOUS
  <2> PICK m : m = k * g[x]
    OBVIOUS
  <2>1. m \in Int /\ f[x] = m
    OBVIOUS
  <2> QED
    BY <2>1
<1> PICK m, n : m = SumFunctionOnSet(f, S) /\ n = SumFunctionOnSet(g, S)
  OBVIOUS
<1>2. 1 * m <= k * n /\ k * n <= 1 * m
  BY <1>1, SumsCompare
<1>3. m \in Int /\ n \in Int
  BY <1>1, SumObeys DEF SumRule
<1>4. k * n \in Int
  BY <1>3
<1> QED
  BY <1>2, <1>3, <1>4

LEMMA MinOfTwo ==
    ASSUME NEW a \in Int, NEW b \in Int
    PROVE  Min({a, b}) = IF a <= b THEN a ELSE b
<1> PICK m : m = IF a <= b THEN a ELSE b
  OBVIOUS
<1>1. m \in {a, b} /\ \A y \in {a, b} : m <= y
  OBVIOUS
<1>2. ASSUME NEW x \in {a, b}, \A y \in {a, b} : x <= y
      PROVE  x = m
  BY <1>2
<1>3. Min({a, b}) = m
  BY <1>1, <1>2 DEF Min
<1> QED
  BY <1>3

(* The weights of the pool are all something.                               *)
LEMMA ClampIs ==
    ASSUME NEW raw, Weighable(raw), SumFunction(raw) > 0
    PROVE  LET w == ClampOnce(raw) IN
           /\ DOMAIN w.parts = DOMAIN raw
           /\ \A k \in DOMAIN raw : w.parts[k] \in Nat \ {0}
<1> PICK T : T = SumFunction(raw)
  OBVIOUS
<1>1. T \in Nat /\ T > 0
  BY SumOfPart DEF Weighable, SumFunction
<1> PICK parts : parts = [k \in DOMAIN raw |-> Max({5 * T, Min({50 * T, 100 * raw[k]})})]
  OBVIOUS
<1>2. ClampOnce(raw).parts = parts
  BY DEF ClampOnce, Parts
<1>3. ASSUME NEW k \in DOMAIN raw
      PROVE  parts[k] \in Nat \ {0}
  <2> PICK a, b, c : a = 5 * T /\ b = 50 * T /\ c = 100 * raw[k]
    OBVIOUS
  <2>1. a \in Nat \ {0} /\ b \in Int /\ c \in Int
    BY <1>1 DEF Weighable
  <2> PICK m : m = Min({b, c})
    OBVIOUS
  <2>2. m \in Int
    BY <2>1, MinOfTwo
  <2>3. parts[k] = Max({a, m})
    OBVIOUS
  <2> QED
    <3>1. a \in Int
      BY <2>1
    <3>2. Max({a, m}) = IF a >= m THEN a ELSE m
      BY <2>2, <3>1, MaxOfTwo
    <3> QED
      BY <2>1, <2>2, <2>3, <3>2
<1> QED
  BY <1>2, <1>3

(* The weight of a symbol is that of its members.                           *)
SymbolWeights(base, parts, symbolOf) ==
    /\ IsFiniteSet(DOMAIN base) /\ \A s \in DOMAIN base : base[s] \in Nat \ {0}
    /\ \A k \in DOMAIN parts : symbolOf[k] \in DOMAIN base
    /\ \A s \in DOMAIN base : \E k \in DOMAIN parts : symbolOf[k] = s
    /\ \A s \in DOMAIN base : base[s] = SumFunctionOnSet(parts, {k \in DOMAIN parts : symbolOf[k] = s})

LEMMA SymbolsAre ==
    ASSUME NEW w, NEW symbolOf, IsFiniteSet(DOMAIN w.parts), \A k \in DOMAIN w.parts : w.parts[k] \in Nat \ {0}
    PROVE  SymbolWeights(BySymbol(w, symbolOf), w.parts, symbolOf)
<1> PICK K, parts, base : K = DOMAIN w.parts /\ parts = w.parts /\ base = BySymbol(w, symbolOf)
  OBVIOUS
<1>1. /\ DOMAIN base = {symbolOf[k] : k \in K}
      /\ \A s \in DOMAIN base : base[s] = SumFunctionOnSet(parts, {k \in K : symbolOf[k] = s})
  BY DEF BySymbol
<1>2. IsFiniteSet(DOMAIN base)
  <2> PICK sym, S : sym = [k \in K |-> symbolOf[k]] /\ S = DOMAIN base
    OBVIOUS
  <2>1. sym \in Surjection(K, S)
    BY <1>1 DEF Surjection
  <2> QED
    BY <2>1, FS_Surjection
<1>3. ASSUME NEW s \in DOMAIN base
      PROVE  base[s] \in Nat \ {0} /\ \E k \in K : symbolOf[k] = s
  <2>1. PICK k \in K : symbolOf[k] = s
    BY <1>1
  <2> PICK M : M = {m \in K : symbolOf[m] = s}
    OBVIOUS
  <2>2. M \in SUBSET K /\ k \in M /\ \A m \in K : parts[m] \in Nat
    BY <2>1
  <2>3. SumFunctionOnSet(parts, M) \in Nat /\ parts[k] <= SumFunctionOnSet(parts, M)
    BY <2>2, SumOfPart
  <2>4. parts[k] \in Nat \ {0}
    OBVIOUS
  <2> QED
    BY <1>1, <2>1, <2>3, <2>4
<1>4. \A k \in K : symbolOf[k] \in DOMAIN base
  BY <1>1
<1>5. SymbolWeights(base, parts, symbolOf)
  BY <1>1, <1>2, <1>3, <1>4 DEF SymbolWeights
<1> QED
  BY <1>5

(* What the symbols share: they are at the cap or below it, together they   *)
(* are all there is, and one below the cap is raised the most.              *)
CapShare(base, cap) ==
    LET P == Pinned(base, cap) IN
    [s \in DOMAIN base |-> IF s \in P THEN cap * CapSum(base, P) ELSE CapBudget(cap, P) * base[s]]

Filled(base, cap, sh, total) ==
    /\ total \in Nat \ {0} /\ \A s \in DOMAIN base : sh[s] \in Nat
    /\ \A s \in DOMAIN base : 100 * sh[s] <= cap * total
    /\ SumFunctionOnSet(sh, DOMAIN base) = total
    /\ \A s, t \in DOMAIN base : 100 * sh[t] # cap * total => sh[s] * base[t] <= sh[t] * base[s]

LEMMA CapFills ==
    ASSUME NEW base, NEW cap, Cappable(base, cap), cap * Cardinality(DOMAIN base) >= 100
    PROVE  /\ CapSum(base, Pinned(base, cap)) \in Nat \ {0}
           /\ Filled(base, cap, CapShare(base, cap), 100 * CapSum(base, Pinned(base, cap)))
<1> PICK D, P : D = DOMAIN base /\ P = Pinned(base, cap)
  OBVIOUS
<1> PICK B, F, R : B = CapBudget(cap, P) /\ F = CapSum(base, P) /\ R = D \ P
  OBVIOUS
<1>1. IsFiniteSet(D) /\ cap \in 1..100 /\ \A s \in D : base[s] \in Nat /\ base[s] > 0
  BY DEF Cappable
<1>2. /\ P \in SUBSET D /\ cap * Cardinality(P) < 100
      /\ \A s \in P : cap * F < B * base[s]
      /\ Saturate(base, cap, P) = P
  BY PinnedIs DEF CapInv
<1>3. IsFiniteSet(P) /\ IsFiniteSet(R) /\ R \in SUBSET D /\ P \cap R = {} /\ P \union R = D
  BY <1>1, <1>2, FS_Subset
<1>4. /\ Cardinality(P) \in Nat /\ B = 100 - cap * Cardinality(P) /\ B \in Nat /\ B > 0
  <2>1. Cardinality(P) \in Nat
    BY <1>3, FS_CardinalityType
  <2>2. cap * Cardinality(P) \in Nat
    BY <1>1, <2>1
  <2> QED
    BY <1>2, <2>1, <2>2 DEF CapBudget
<1>5. F \in Nat /\ F > 0 /\ F = SumFunctionOnSet(base, R)
  <2>1. R # {}
    <3>1. P # D
      <4>1. Cardinality(D) \in Nat
        BY <1>1, FS_CardinalityType
      <4>2. cap * Cardinality(D) \in Nat
        BY <1>1, <4>1
      <4> QED
        BY <1>2, <4>2
    <3> QED
      BY <1>2, <3>1
  <2>2. PICK s \in R : TRUE
    BY <2>1
  <2>3. SumFunctionOnSet(base, R) \in Nat /\ base[s] <= SumFunctionOnSet(base, R)
    <3>1. \A t \in D : base[t] \in Nat
      BY <1>1
    <3> QED
      BY <1>1, <1>3, <2>2, <3>1, SumOfPart
  <2>4. F = SumFunctionOnSet(base, R)
    BY DEF CapSum
  <2>5. base[s] \in Nat /\ base[s] > 0
    BY <1>1, <1>3, <2>2
  <2> QED
    BY <2>3, <2>4, <2>5
<1> PICK sh, c : sh = [s \in D |-> IF s \in P THEN cap * F ELSE B * base[s]] /\ c = cap * F
  OBVIOUS
<1>6. sh = CapShare(base, cap)
  BY DEF CapShare
<1>7. c \in Nat /\ (\A s \in P : sh[s] = c) /\ \A s \in R : sh[s] = B * base[s]
  BY <1>1, <1>3, <1>5
<1>8. ASSUME NEW s \in D
      PROVE  sh[s] \in Nat /\ 100 * sh[s] <= 100 * c
  <2>1. CASE s \in P
    BY <1>7, <2>1
  <2>2. CASE s \notin P
    <3>1. s \in R
      BY <1>3, <2>2
    <3>2. ~(B * base[s] > c)
      BY <1>2, <2>2 DEF Saturate, CapSum
    <3>3. B * base[s] \in Nat
      BY <1>1, <1>4
    <3> QED
      BY <1>7, <3>1, <3>2, <3>3
  <2> QED
    BY <2>1, <2>2
<1>9. SumFunctionOnSet(sh, D) = 100 * F
  <2>1. SumFunctionOnSet(sh, P \union R) = SumFunctionOnSet(sh, P) + SumFunctionOnSet(sh, R)
    <3>1. \A s \in D : sh[s] \in Int
      BY <1>8
    <3> QED
      BY <1>1, <1>2, <1>3, <3>1, SumsSplit
  <2>2. SumFunctionOnSet(sh, P) = c * Cardinality(P)
    <3>1. c \in Int
      BY <1>7
    <3> QED
      BY <1>3, <1>7, <3>1, SumOfEqual
  <2>3. SumFunctionOnSet(sh, R) = B * F
    <3>1. \A s \in R : base[s] \in Int /\ sh[s] = B * base[s]
      BY <1>1, <1>3, <1>7
    <3>2. B \in Int
      BY <1>4
    <3>3. SumFunctionOnSet(sh, R) = B * SumFunctionOnSet(base, R)
      BY <1>3, <3>1, <3>2, SumScaled DEF Multiple
    <3> QED
      BY <1>5, <3>3
  <2>4. c * Cardinality(P) + B * F = 100 * F
    <3> PICK p, cp : p = Cardinality(P) /\ cp = cap * p
      OBVIOUS
    <3>1. p \in Nat /\ cp \in Nat /\ B = 100 - cp
      BY <1>1, <1>4
    <3>2. c * p = cp * F
      BY <1>1, <1>5, <3>1
    <3>3. (100 - cp) * F = 100 * F - cp * F
      BY <1>5, <3>1
    <3>4. cp * F \in Int
      BY <1>5, <3>1
    <3> QED
      BY <1>5, <3>1, <3>2, <3>3, <3>4
  <2> QED
    BY <1>3, <2>1, <2>2, <2>3, <2>4
<1>10. cap * (100 * F) = 100 * c
  BY <1>1, <1>5
<1>11. ASSUME NEW s \in D, NEW t \in D, 100 * sh[t] # 100 * c
       PROVE  sh[s] * base[t] <= sh[t] * base[s]
  <2> PICK a, b : a = base[s] /\ b = base[t]
    OBVIOUS
  <2>1. a \in Nat /\ b \in Nat
    BY <1>1
  <2>2. t \in R
    BY <1>3, <1>7, <1>11
  <2>3. sh[t] = B * b
    BY <1>7, <2>2
  <2>4. CASE s \in P
    <3> PICK v : v = B * a
      OBVIOUS
    <3>1. c \in Nat /\ v \in Nat /\ c < v
      BY <1>2, <1>4, <1>7, <2>1, <2>4
    <3>2. c * b <= v * b
      BY <2>1, <3>1
    <3>3. (B * b) * a = v * b
      BY <1>4, <2>1
    <3> QED
      BY <1>7, <2>3, <2>4, <3>2, <3>3
  <2>5. CASE s \notin P
    <3>1. sh[s] = B * a
      BY <1>3, <1>7, <2>5
    <3>2. (B * a) * b = (B * b) * a /\ (B * a) * b \in Int
      BY <1>4, <2>1
    <3> QED
      BY <2>3, <3>1, <3>2
  <2> QED
    BY <2>4, <2>5
<1>12. Filled(base, cap, sh, 100 * F)
  <2>1. \A s \in D : sh[s] \in Nat /\ 100 * sh[s] <= cap * (100 * F)
    BY <1>8, <1>10
  <2>2. \A s, t \in D : 100 * sh[t] # cap * (100 * F) => sh[s] * base[t] <= sh[t] * base[s]
    BY <1>10, <1>11
  <2>3. 100 * F \in Nat \ {0}
    BY <1>5
  <2> QED
    BY <1>9, <2>1, <2>2, <2>3 DEF Filled
<1> QED
  BY <1>5, <1>6, <1>12

(* What the members of a symbol get.                                        *)
LEMMA CapOut ==
    ASSUME NEW w, NEW symbolOf, NEW base, base = BySymbol(w, symbolOf), NEW cap, Cappable(base, cap),
           SymbolWeights(base, w.parts, symbolOf), cap * Cardinality(DOMAIN base) >= 100,
           NEW k \in DOMAIN w.parts
    PROVE  /\ SymbolCap(w, symbolOf, cap)[k].num = CapShare(base, cap)[symbolOf[k]] * w.parts[k]
           /\ SymbolCap(w, symbolOf, cap)[k].den = (100 * CapSum(base, Pinned(base, cap))) * base[symbolOf[k]]
<1> PICK P, s : P = Pinned(base, cap) /\ s = symbolOf[k]
  OBVIOUS
<1> PICK F, b : F = CapSum(base, P) /\ b = base[s]
  OBVIOUS
<1>1. F \in Nat \ {0}
  BY CapFills
<1>2. s \in DOMAIN base /\ b \in Nat \ {0}
  BY DEF SymbolWeights
<1>3. Max({1, F}) = F
  <2>1. Max({1, F}) = IF 1 >= F THEN 1 ELSE F
    BY <1>1, MaxOfTwo
  <2> QED
    BY <1>1, <2>1
<1>4. Max({1, b}) = b
  <2>1. Max({1, b}) = IF 1 >= b THEN 1 ELSE b
    BY <1>2, MaxOfTwo
  <2> QED
    BY <1>2, <2>1
<1>5. ~(cap * Cardinality(DOMAIN base) < 100)
  <2>1. cap * Cardinality(DOMAIN base) \in Int
    BY FS_CardinalityType DEF Cappable
  <2> QED
    BY <2>1
<1> PICK share, free : /\ free = Max({1, SumFunctionOnSet(base, DOMAIN base \ P)})
                       /\ share = IF s \in P THEN cap * free ELSE CapBudget(cap, P) * base[s]
  OBVIOUS
<1>6. SymbolCap(w, symbolOf, cap)[k] = [num |-> share * w.parts[k], den |-> 100 * free * Max({1, base[s]})]
  BY <1>5, Zenon DEF SymbolCap
<1>7. free = F
  BY <1>3 DEF CapSum
<1>8. share = CapShare(base, cap)[s]
  BY <1>2, <1>7 DEF CapShare
<1> QED
  BY <1>4, <1>6, <1>7, <1>8

(* A pool that can be asked for fills like water.                           *)
LEMMA PoolFair ==
    ASSUME NEW x, PoolGiven(x)
    PROVE  CapFillsLikeWater(x, PoolWeights(x.raw, x.symbolOf, x.cap))
<1> DEFINE w == ClampOnce(x.raw)
           cap == x.cap
           symbolOf == x.symbolOf
           base == BySymbol(w, symbolOf)
           out == SymbolCap(w, symbolOf, cap)
           parts == w.parts
           K == DOMAIN parts
           D == DOMAIN base
<1>1. IsFiniteSet(K) /\ \A k \in K : parts[k] \in Nat \ {0}
  BY ClampIs DEF PoolGiven, Weighable
<1>2. SymbolWeights(base, parts, symbolOf)
  <2> HIDE DEF w, symbolOf
  <2> QED
    BY <1>1, SymbolsAre
<1>3. Cappable(base, cap)
  <2>1. cap \in 1..100
    BY DEF PoolGiven
  <2> HIDE DEF base, cap, parts
  <2> QED
    BY <1>2, <2>1 DEF Cappable, SymbolWeights
<1> SUFFICES ASSUME cap * Cardinality(D) >= 100
             PROVE  CapFillsLikeWater(x, out)
  <2>1. PoolWeights(x.raw, x.symbolOf, x.cap) = out
    BY DEF PoolWeights
  <2>2. ~(cap * Cardinality(D) >= 100) => CapFillsLikeWater(x, out)
    BY Zenon DEF CapFillsLikeWater
  <2> QED
    BY <2>1, <2>2
<1>20. /\ base = BySymbol(w, symbolOf) /\ parts = w.parts /\ K = DOMAIN parts /\ D = DOMAIN base
       /\ out = SymbolCap(w, symbolOf, cap)
  OBVIOUS
<1> HIDE DEF w, cap, symbolOf, base, out, parts, K, D
<1> PICK sh, total : sh = CapShare(base, cap) /\ total = 100 * CapSum(base, Pinned(base, cap))
  OBVIOUS
<1>4. Filled(base, cap, sh, total)
  BY <1>3, <1>20, CapFills
<1>5. /\ total \in Nat \ {0} /\ \A s \in D : sh[s] \in Nat
      /\ \A s \in D : 100 * sh[s] <= cap * total
      /\ SumFunctionOnSet(sh, D) = total
      /\ \A s, t \in D : 100 * sh[t] # cap * total => sh[s] * base[t] <= sh[t] * base[s]
  BY <1>4, <1>20 DEF Filled
<1>6. \A k \in K : out[k].num = sh[symbolOf[k]] * parts[k] /\ out[k].den = total * base[symbolOf[k]]
  BY <1>2, <1>3, <1>20, CapOut
<1>7. DOMAIN out = K /\ DOMAIN sh = D
  BY <1>20 DEF SymbolCap, CapShare
<1>8. /\ \A s \in D : base[s] \in Nat \ {0}
      /\ \A k \in K : symbolOf[k] \in D
      /\ \A s \in D : \E k \in K : symbolOf[k] = s
      /\ \A s \in D : base[s] = SumFunctionOnSet(parts, {k \in K : symbolOf[k] = s})
  BY <1>2, <1>20 DEF SymbolWeights
<1> DEFINE members(s) == {k \in DOMAIN out : symbolOf[k] = s}
           one(s) == out[CHOOSE k \in members(s) : TRUE].den \div base[s]
           share(s) == SumFunction([k \in members(s) |-> out[k].num]) \div base[s]
<1>9. ASSUME NEW s \in D
      PROVE  one(s) = total
  <2> PICK M : M = members(s)
    OBVIOUS
  <2>1. M = {i \in K : symbolOf[i] = s} /\ M # {}
    BY <1>7, <1>8
  <2> PICK k : k = CHOOSE i \in M : TRUE
    OBVIOUS
  <2>2. k \in K /\ symbolOf[k] = s
    BY <2>1
  <2>3. out[k].den = total * base[s]
    <3>1. out[k].den = total * base[symbolOf[k]]
      BY <1>6, <2>2
    <3> QED
      BY <2>2, <3>1
  <2>4. total \in Int /\ base[s] \in Nat \ {0}
    BY <1>5, <1>8
  <2>5. (total * base[s]) \div base[s] = total
    BY <2>4, DivExact
  <2>6. one(s) = out[k].den \div base[s]
    OBVIOUS
  <2> QED
    BY <2>3, <2>5, <2>6
<1>10. ASSUME NEW s \in D
       PROVE  share(s) = sh[s]
  <2> PICK M : M = members(s)
    OBVIOUS
  <2> PICK num : num = [i \in M |-> out[i].num]
    OBVIOUS
  <2> PICK k, b : k = sh[s] /\ b = base[s]
    OBVIOUS
  <2>1. M = {i \in K : symbolOf[i] = s}
    BY <1>7
  <2>2. IsFiniteSet(M) /\ b = SumFunctionOnSet(parts, M) /\ DOMAIN num = M
    BY <1>1, <1>8, <2>1, FS_Subset
  <2>3. k \in Int /\ b \in Nat \ {0}
    BY <1>5, <1>8
  <2>4. \A i \in M : parts[i] \in Int /\ num[i] = k * parts[i]
    BY <1>1, <1>6, <2>1
  <2>5. SumFunctionOnSet(num, M) = k * b
    <3>1. SumFunctionOnSet(num, M) = k * SumFunctionOnSet(parts, M)
      <4>1. Multiple(num, parts, k, M)
        BY <2>3, <2>4 DEF Multiple
      <4> QED
        BY <2>2, <4>1, SumScaled
    <3> QED
      BY <2>2, <3>1
  <2>6. (k * b) \div b = k
    BY <2>3, DivExact
  <2>7. share(s) = SumFunctionOnSet(num, M) \div b
    BY <2>2 DEF SumFunction
  <2> QED
    BY <2>5, <2>6, <2>7
<1>11. ASSUME NEW s \in D, NEW k \in members(s)
       PROVE  out[k].num \div parts[k] = sh[s]
  <2>1. k \in K /\ symbolOf[k] = s
    BY <1>7
  <2> PICK a, b : a = sh[s] /\ b = parts[k]
    OBVIOUS
  <2>2. out[k].num = a * b
    BY <1>6, <2>1
  <2>3. a \in Int /\ b \in Nat \ {0}
    BY <1>1, <1>5, <2>1
  <2>4. (a * b) \div b = a
    BY <2>3, DivExact
  <2> QED
    BY <2>2, <2>4
<1> HIDE DEF members, one, share
<1>12. \A s \in D : 100 * share(s) <= cap * one(s)
  BY <1>5, <1>9, <1>10
<1>13. \A s \in D : SumFunction([t \in D |-> share(t)]) = one(s)
  <2>1. [t \in D |-> share(t)] = sh
    <3>1. [t \in D |-> share(t)] = [t \in D |-> sh[t]]
      BY <1>10
    <3>2. sh = [t \in D |-> sh[t]]
      BY <1>20 DEF CapShare
    <3> QED
      BY <3>1, <3>2
  <2> QED
    BY <1>5, <1>7, <1>9, <2>1 DEF SumFunction
<1>14. \A s, t \in D : ~(100 * share(t) = cap * one(t)) => share(s) * base[t] <= share(t) * base[s]
  BY <1>5, <1>9, <1>10
<1>15. \A s \in D : \A k, l \in members(s) : out[k].num \div parts[k] = out[l].num \div parts[l]
  BY <1>11
<1> QED
  BY <1>12, <1>13, <1>14, <1>15, Zenon DEF CapFillsLikeWater, members, one, share, w, cap, symbolOf, base, out, parts, K, D

---------------------------------------------------------------------------
(* The answer that stands is that to what was asked. *)

AlignSignalStands ==
    \E x \in Inputs.align :
        given = [kind |-> "align", of |-> x] /\ answer = ([signal |-> AlignPointInTime(x.bars, x.points),
                           pairs |-> PairedBars(x.bars, x.points, x.horizon)])

SplitQuantilesStands ==
    \E n \in Inputs.quantiles :
        given = [kind |-> "quantiles", of |-> n] /\ answer = ([k \in 1..n |-> BucketOf(n, Quantiles(n), k)])

MeasureContentionStands ==
    \E x \in Inputs.contention :
        given = [kind |-> "contention", of |-> x] /\ answer = (Contention(x, {x[i].inst : i \in DOMAIN x}))

AttributeGateStands ==
    \E x \in Inputs.gate :
        given = [kind |-> "gate", of |-> x] /\ answer = ([adds |-> GateAddsValue(x.rows, x.trades, x.window),
                          of |-> ShadowGate(x.rows, x.trades, x.window)])

CompareSeriesStands ==
    \E x \in Inputs.series :
        LET f == DailyReturns(x.f)
            g == DailyReturns(x.g)
        IN  given = [kind |-> "series", of |-> x] /\ answer = ([corr |-> Correlation(f, g, TRUE),
                                gate |-> PortfolioGate(x.low, f, Baselines([g |-> g]))])

PlanRebalanceStands ==
    \E x \in Inputs.plan :
        given = [kind |-> "plan", of |-> x] /\ answer = (PlanOf(x.rows, x.optimizer, x.computed, x.days, x.caller, x.jvm, x.kelly, x.rehearsal))

WeighPoolStands ==
    \E x \in Inputs.pool :
        given = [kind |-> "pool", of |-> x] /\ answer = (PoolWeights(x.raw, x.symbolOf, x.cap))

EvaluateCarryStands ==
    \E x \in Inputs.carry :
        given = [kind |-> "carry", of |-> x] /\ answer = (EvaluateRun(x.run, x.growth, x.sharpe, 3, x.strict))

PreviewCarryStands ==
    \E x \in Inputs.preview :
        given = [kind |-> "preview", of |-> x] /\ answer = (PreviewEquity(PreviewReturns(x.legs, x.leverage, x.borrow)))

HedgeAnswer(x) ==
    LET strat == HedgeMetrics(x.run, x.growth, x.sharpe)
        bench == MetricsOf(x.bench, 2000, 50)
        both == Aligned(HedgeReturns(x.run), ByDay(ReturnsOf(x.bench)))
    IN  [source |-> HedgeSource(x.run.points), both |-> both,
         stack |-> IF HedgeSource(x.run.points) = "trades" THEN None
                   ELSE StackMetrics(StackSeries(ValueOn(x.run.points), ValueOn(x.bench)), x.growth),
         passed |-> HedgePasses(strat, bench, both, x.resampled)]

EvaluateHedgeStands ==
    \E x \in Inputs.hedge : given = [kind |-> "hedge", of |-> x] /\ answer = HedgeAnswer(x)

AdmitAnswer(x) ==
    LET ic == Coefficient(x.xs, x.ys, MinIcObs, x.t)
        reasons == AdmissionReasons(ic, x.alpha, x.expected, x.marginal, x.correlation)
    IN  [ic |-> ic, reasons |-> reasons, admitted |-> Admitted(reasons)]

AdmitAlphaStands ==
    \E x \in Inputs.admit : given = [kind |-> "admit", of |-> x] /\ answer = AdmitAnswer(x)

FillRosterStands ==
    \E x \in Inputs.roster :
        given = [kind |-> "roster", of |-> x] /\ answer = (RosterFill(x.active, x.candidates, x.floor, x.excluded))

WatchVerdictsStands ==
    \E x \in Inputs.drift :
        given = [kind |-> "drift", of |-> x] /\ answer = (Drifts(x))

CompareArmsStands ==
    \E x \in Inputs.arms :
        LET deltas == Deltas(x.rows)
        IN  given = [kind |-> "arms", of |-> x] /\ answer = ([deltas |-> deltas,
                              verdict |-> DeltaVerdict(Cardinality(DOMAIN deltas), x.minimum,
                                                       x.metric, x.ci, x.mean)])

AnalyzeRegimesStands ==
    \E x \in Inputs.regimes :
        given = [kind |-> "regimes", of |-> x] /\ answer = (RegimeReport(x.trades, x.bars, Lengths, MinTrades))

PrescreenStands ==
    \E x \in Inputs.prescreen :
        given = [kind |-> "prescreen", of |-> x] /\ answer = (CallSkeptic(x.queued, x.axes, x.candidate, x.discarded, Latest,
                                          x.named, x.entry, x.declared, x.recorded))

Answers ==
    \/ given = Nothing
    \/ AlignSignalStands
    \/ SplitQuantilesStands
    \/ MeasureContentionStands
    \/ AttributeGateStands
    \/ CompareSeriesStands
    \/ PlanRebalanceStands
    \/ WeighPoolStands
    \/ EvaluateCarryStands
    \/ PreviewCarryStands
    \/ EvaluateHedgeStands
    \/ AdmitAlphaStands
    \/ FillRosterStands
    \/ WatchVerdictsStands
    \/ CompareArmsStands
    \/ AnalyzeRegimesStands
    \/ PrescreenStands

LEMMA AnswersStand == Spec => []Answers
<1>1. Init => Answers
  BY DEF Init, Answers
<1>2. Answers /\ [Next]_vars => Answers'
  <2> SUFFICES ASSUME Answers, [Next]_vars
               PROVE  Answers'
    OBVIOUS
  <2>1. CASE AlignSignal
    <3>1. AlignSignalStands'
      BY <2>1 DEF AlignSignal, AlignSignalStands, Reply
    <3> QED
      BY <3>1 DEF Answers
  <2>2. CASE SplitQuantiles
    <3>1. SplitQuantilesStands'
      BY <2>2 DEF SplitQuantiles, SplitQuantilesStands, Reply
    <3> QED
      BY <3>1 DEF Answers
  <2>3. CASE MeasureContention
    <3>1. MeasureContentionStands'
      BY <2>3 DEF MeasureContention, MeasureContentionStands, Reply
    <3> QED
      BY <3>1 DEF Answers
  <2>4. CASE AttributeGate
    <3>1. AttributeGateStands'
      BY <2>4 DEF AttributeGate, AttributeGateStands, Reply
    <3> QED
      BY <3>1 DEF Answers
  <2>5. CASE CompareSeries
    <3>1. CompareSeriesStands'
      BY <2>5 DEF CompareSeries, CompareSeriesStands, Reply
    <3> QED
      BY <3>1 DEF Answers
  <2>6. CASE PlanRebalance
    <3>1. PlanRebalanceStands'
      BY <2>6 DEF PlanRebalance, PlanRebalanceStands, Reply
    <3> QED
      BY <3>1 DEF Answers
  <2>7. CASE WeighPool
    <3>1. WeighPoolStands'
      BY <2>7 DEF WeighPool, WeighPoolStands, Reply
    <3> QED
      BY <3>1 DEF Answers
  <2>8. CASE EvaluateCarry
    <3>1. EvaluateCarryStands'
      BY <2>8 DEF EvaluateCarry, EvaluateCarryStands, Reply
    <3> QED
      BY <3>1 DEF Answers
  <2>9. CASE PreviewCarry
    <3>1. PreviewCarryStands'
      BY <2>9 DEF PreviewCarry, PreviewCarryStands, Reply
    <3> QED
      BY <3>1 DEF Answers
  <2>10. CASE EvaluateHedge
    <3>1. EvaluateHedgeStands'
      BY <2>10 DEF EvaluateHedge, EvaluateHedgeStands, HedgeAnswer, Reply
    <3> QED
      BY <3>1 DEF Answers
  <2>11. CASE AdmitAlpha
    <3>1. AdmitAlphaStands'
      BY <2>11 DEF AdmitAlpha, AdmitAlphaStands, AdmitAnswer, Reply
    <3> QED
      BY <3>1 DEF Answers
  <2>12. CASE FillRoster
    <3>1. FillRosterStands'
      BY <2>12 DEF FillRoster, FillRosterStands, Reply
    <3> QED
      BY <3>1 DEF Answers
  <2>13. CASE WatchVerdicts
    <3>1. WatchVerdictsStands'
      BY <2>13 DEF WatchVerdicts, WatchVerdictsStands, Reply
    <3> QED
      BY <3>1 DEF Answers
  <2>14. CASE CompareArms
    <3>1. CompareArmsStands'
      BY <2>14 DEF CompareArms, CompareArmsStands, Reply
    <3> QED
      BY <3>1 DEF Answers
  <2>15. CASE AnalyzeRegimes
    <3>1. AnalyzeRegimesStands'
      BY <2>15 DEF AnalyzeRegimes, AnalyzeRegimesStands, Reply
    <3> QED
      BY <3>1 DEF Answers
  <2>16. CASE Prescreen
    <3>1. PrescreenStands'
      BY <2>16 DEF Prescreen, PrescreenStands, Reply
    <3> QED
      BY <3>1 DEF Answers
  <2>17. CASE Forget
    BY <2>17 DEF Forget, Answers
  <2>18. CASE UNCHANGED vars
    <3>1. given' = given /\ answer' = answer
      BY <2>18 DEF vars
    <3>2. AlignSignalStands => AlignSignalStands'
      BY <3>1 DEF AlignSignalStands
    <3>3. SplitQuantilesStands => SplitQuantilesStands'
      BY <3>1 DEF SplitQuantilesStands
    <3>4. MeasureContentionStands => MeasureContentionStands'
      BY <3>1 DEF MeasureContentionStands
    <3>5. AttributeGateStands => AttributeGateStands'
      BY <3>1 DEF AttributeGateStands
    <3>6. CompareSeriesStands => CompareSeriesStands'
      BY <3>1 DEF CompareSeriesStands
    <3>7. PlanRebalanceStands => PlanRebalanceStands'
      BY <3>1 DEF PlanRebalanceStands
    <3>8. WeighPoolStands => WeighPoolStands'
      BY <3>1 DEF WeighPoolStands
    <3>9. EvaluateCarryStands => EvaluateCarryStands'
      BY <3>1 DEF EvaluateCarryStands
    <3>10. PreviewCarryStands => PreviewCarryStands'
      BY <3>1 DEF PreviewCarryStands
    <3>11. EvaluateHedgeStands => EvaluateHedgeStands'
      BY <3>1 DEF EvaluateHedgeStands
    <3>12. AdmitAlphaStands => AdmitAlphaStands'
      BY <3>1 DEF AdmitAlphaStands
    <3>13. FillRosterStands => FillRosterStands'
      BY <3>1 DEF FillRosterStands
    <3>14. WatchVerdictsStands => WatchVerdictsStands'
      BY <3>1 DEF WatchVerdictsStands
    <3>15. CompareArmsStands => CompareArmsStands'
      BY <3>1 DEF CompareArmsStands
    <3>16. AnalyzeRegimesStands => AnalyzeRegimesStands'
      BY <3>1 DEF AnalyzeRegimesStands
    <3>17. PrescreenStands => PrescreenStands'
      BY <3>1 DEF PrescreenStands
    <3> QED
      BY <3>1, <3>2, <3>3, <3>4, <3>5, <3>6, <3>7, <3>8, <3>9, <3>10, <3>11, <3>12, <3>13, <3>14, <3>15, <3>16, <3>17 DEF Answers
  <2> QED
    BY <2>1, <2>2, <2>3, <2>4, <2>5, <2>6, <2>7, <2>8, <2>9, <2>10, <2>11, <2>12, <2>13, <2>14, <2>15, <2>16, <2>17, <2>18 DEF Next
<1> QED
  BY <1>1, <1>2, PTL DEF Spec


LEMMA StandsIf ==
    ASSUME Answers
    PROVE  /\ Asked("align") => AlignSignalStands
           /\ Asked("quantiles") => SplitQuantilesStands
           /\ Asked("contention") => MeasureContentionStands
           /\ Asked("gate") => AttributeGateStands
           /\ Asked("series") => CompareSeriesStands
           /\ Asked("plan") => PlanRebalanceStands
           /\ Asked("pool") => WeighPoolStands
           /\ Asked("carry") => EvaluateCarryStands
           /\ Asked("preview") => PreviewCarryStands
           /\ Asked("hedge") => EvaluateHedgeStands
           /\ Asked("admit") => AdmitAlphaStands
           /\ Asked("roster") => FillRosterStands
           /\ Asked("drift") => WatchVerdictsStands
           /\ Asked("arms") => CompareArmsStands
           /\ Asked("regimes") => AnalyzeRegimesStands
           /\ Asked("prescreen") => PrescreenStands
<1>1. AlignSignalStands => given.kind = "align"
  BY DEF AlignSignalStands
<1>2. SplitQuantilesStands => given.kind = "quantiles"
  BY DEF SplitQuantilesStands
<1>3. MeasureContentionStands => given.kind = "contention"
  BY DEF MeasureContentionStands
<1>4. AttributeGateStands => given.kind = "gate"
  BY DEF AttributeGateStands
<1>5. CompareSeriesStands => given.kind = "series"
  BY DEF CompareSeriesStands
<1>6. PlanRebalanceStands => given.kind = "plan"
  BY DEF PlanRebalanceStands
<1>7. WeighPoolStands => given.kind = "pool"
  BY DEF WeighPoolStands
<1>8. EvaluateCarryStands => given.kind = "carry"
  BY DEF EvaluateCarryStands
<1>9. PreviewCarryStands => given.kind = "preview"
  BY DEF PreviewCarryStands
<1>10. EvaluateHedgeStands => given.kind = "hedge"
  BY DEF EvaluateHedgeStands
<1>11. AdmitAlphaStands => given.kind = "admit"
  BY DEF AdmitAlphaStands
<1>12. FillRosterStands => given.kind = "roster"
  BY DEF FillRosterStands
<1>13. WatchVerdictsStands => given.kind = "drift"
  BY DEF WatchVerdictsStands
<1>14. CompareArmsStands => given.kind = "arms"
  BY DEF CompareArmsStands
<1>15. AnalyzeRegimesStands => given.kind = "regimes"
  BY DEF AnalyzeRegimesStands
<1>16. PrescreenStands => given.kind = "prescreen"
  BY DEF PrescreenStands
<1> QED
  BY <1>1, <1>2, <1>3, <1>4, <1>5, <1>6, <1>7, <1>8, <1>9, <1>10, <1>11, <1>12, <1>13, <1>14, <1>15, <1>16 DEF Answers, Asked, Nothing


(* A rebalance keeps the optimizer's order, and leaves nobody of eleven or  *)
(* fewer below the least weight; the cap per symbol fills like water.       *)
THEOREM CapitalIsFair == Spec => []CapitalIsDividedFairly
<1>1. Answers => CapitalIsDividedFairly
  <2> SUFFICES ASSUME Answers
               PROVE  CapitalIsDividedFairly
    OBVIOUS
  <2>1. ASSUME Asked("plan")
        PROVE  PlanIsFair(given.of, answer)
    <3>1. PlanRebalanceStands
      BY <2>1, StandsIf
    <3>2. PICK x \in Inputs.plan :
            /\ given.of = x
            /\ answer = PlanOf(x.rows, x.optimizer, x.computed, x.days, x.caller, x.jvm, x.kelly, x.rehearsal)
      BY <3>1 DEF PlanRebalanceStands
    <3>3. PlanGiven(x) /\ MinNotional \in Nat
      BY InputsAssumption
    <3> QED
      BY <3>2, <3>3, PlanFair
  <2>2. ASSUME Asked("pool")
        PROVE  CapFillsLikeWater(given.of, answer)
    <3>1. WeighPoolStands
      BY <2>2, StandsIf
    <3>2. PICK x \in Inputs.pool : given.of = x /\ answer = PoolWeights(x.raw, x.symbolOf, x.cap)
      BY <3>1 DEF WeighPoolStands
    <3> QED
      BY <3>2, PoolFair, InputsAssumption
  <2> QED
    BY <2>1, <2>2 DEF CapitalIsDividedFairly
<1> QED
  BY <1>1, AnswersStand, PTL

---------------------------------------------------------------------------
(* Folds *)

LEMMA MaxIs ==
    ASSUME NEW S \in SUBSET Int, NEW m \in S, \A x \in S : x <= m
    PROVE  Max(S) = m
<1>1. \A x \in S : m >= x
  OBVIOUS
<1>2. ASSUME NEW x \in S, \A y \in S : x >= y
      PROVE  x = m
  <2>1. x >= m /\ m >= x
    BY <1>1, <1>2
  <2> QED
    BY <2>1
<1> QED
  BY <1>1, <1>2, Zenon DEF Max

LEMMA MinIs ==
    ASSUME NEW S \in SUBSET Int, NEW m \in S, \A x \in S : m <= x
    PROVE  Min(S) = m
<1>2. ASSUME NEW x \in S, \A y \in S : x <= y
      PROVE  x = m
  <2>1. x <= m /\ m <= x
    BY <1>2
  <2> QED
    BY <2>1
<1> QED
  BY <1>2, Zenon DEF Min

LEMMA LastOfInterval ==
    ASSUME NEW k \in Nat \ {0}
    PROVE  Max(1..k) = k /\ (1..k) \ {Max(1..k)} = 1..(k - 1) /\ 1..k # {}
<1> PICK S : S = 1..k
  OBVIOUS
<1>1. S \in SUBSET Int /\ k \in S /\ \A x \in S : x <= k
  OBVIOUS
<1>2. Max(S) = k
  BY <1>1, MaxIs
<1>3. (1..k) \ {k} = 1..(k - 1)
  OBVIOUS
<1> QED
  BY <1>2, <1>3

(* What a set of numbers comes to when its largest is taken last.           *)
Folds(it, V, b, n, step) ==
    /\ it \in [SUBSET (1..n) -> V]
    /\ it[{}] = b
    /\ \A U \in SUBSET (1..n) : U # {} => Max(U) \in U /\ it[U] = step[<<Max(U), it[U \ {Max(U)}]>>]

LEMMA FoldExists ==
    ASSUME NEW V, NEW b \in V, NEW N \in Nat, NEW step \in [(1..N) \X V -> V]
    PROVE  \E it : Folds(it, V, b, N, step)
<1> DEFINE Bad == {n \in 0..N : ~ \E it : Folds(it, V, b, n, step)}
<1>0. N \in 0..N
  OBVIOUS
<1> SUFFICES ASSUME Bad # {}
             PROVE  FALSE
  BY <1>0
<1>1. PICK n \in Bad : \A m \in Bad : n <= m
  <2>1. Bad \in SUBSET Nat
    OBVIOUS
  <2> HIDE DEF Bad
  <2> QED
    BY <2>1, LeastNumber
<1>2. n \in 0..N /\ ~ \E it : Folds(it, V, b, n, step)
  BY <1>1
<1>3. n # 0
  <2> SUFFICES ASSUME n = 0
               PROVE  FALSE
    OBVIOUS
  <2>1. SUBSET (1..n) = {{}}
    OBVIOUS
  <2> PICK it : it = [U \in {{}} |-> b]
    OBVIOUS
  <2>2. it \in [SUBSET (1..n) -> V] /\ it[{}] = b /\ \A U \in SUBSET (1..n) : U = {}
    BY <2>1
  <2>3. Folds(it, V, b, n, step)
    BY <2>2 DEF Folds
  <2> QED
    BY <1>2, <2>3
<1>4. PICK it : Folds(it, V, b, n - 1, step)
  <2>1. n - 1 \in 0..N /\ ~(n <= n - 1)
    BY <1>2, <1>3
  <2> QED
    BY <1>1, <2>1
<1>5. /\ it \in [SUBSET (1..(n - 1)) -> V] /\ it[{}] = b
      /\ \A U \in SUBSET (1..(n - 1)) : U # {} => Max(U) \in U /\ it[U] = step[<<Max(U), it[U \ {Max(U)}]>>]
  BY <1>4 DEF Folds
<1> DEFINE jt == [U \in SUBSET (1..n) |-> IF n \in U THEN step[<<n, it[U \ {n}]>>] ELSE it[U]]
<1>6. ASSUME NEW U \in SUBSET (1..n)
      PROVE  /\ jt[U] \in V
             /\ U # {} => Max(U) \in U /\ jt[U] = step[<<Max(U), jt[U \ {Max(U)}]>>]
  <2>1. CASE n \in U
    <3>1. U \ {n} \in SUBSET (1..(n - 1)) /\ U \ {n} \in SUBSET (1..n) /\ n \notin U \ {n}
      BY <1>2
    <3>2. it[U \ {n}] \in V /\ n \in 1..N
      BY <1>2, <1>3, <1>5, <3>1
    <3>3. jt[U] = step[<<n, it[U \ {n}]>>] /\ jt[U \ {n}] = it[U \ {n}]
      BY <2>1, <3>1
    <3>4. <<n, it[U \ {n}]>> \in (1..N) \X V
      BY <3>2
    <3>5. Max(U) = n
      <4>1. U \in SUBSET Int /\ \A x \in U : x <= n
        BY <1>2
      <4> QED
        BY <2>1, <4>1, MaxIs
    <3> HIDE DEF jt
    <3> QED
      BY <2>1, <3>3, <3>4, <3>5
  <2>2. CASE n \notin U
    <3>1. U \in SUBSET (1..(n - 1))
      BY <1>2, <2>2
    <3>2. jt[U] = it[U] /\ it[U] \in V
      BY <1>5, <2>2, <3>1
    <3>3. ASSUME U # {}
          PROVE  Max(U) \in U /\ jt[U] = step[<<Max(U), jt[U \ {Max(U)}]>>]
      <4>1. Max(U) \in U /\ it[U] = step[<<Max(U), it[U \ {Max(U)}]>>]
        BY <1>5, <3>1, <3>3
      <4>2. jt[U \ {Max(U)}] = it[U \ {Max(U)}]
        BY <2>2
      <4> HIDE DEF jt
      <4> QED
        BY <3>2, <4>1, <4>2
    <3> HIDE DEF jt
    <3> QED
      BY <3>2, <3>3
  <2> QED
    BY <2>1, <2>2
<1>7. Folds(jt, V, b, n, step)
  <2>1. jt[{}] = b
    BY <1>5
  <2>2. jt \in [SUBSET (1..n) -> V]
    BY <1>6
  <2> HIDE DEF jt
  <2> QED
    BY <1>6, <2>1, <2>2 DEF Folds
<1> QED
  BY <1>2, <1>7

---------------------------------------------------------------------------
(* Point in time *)

ListOf(s) == DOMAIN s = 1..Len(s) /\ Len(s) \in Nat

CursorAt(points) ==
    [next : 1..(Len(points) + 1), last : {None} \union {points[i].value : i \in DOMAIN points}, out : Seq({None} \union {points[i].value : i \in DOMAIN points})]

MovedTo(c, d, bar, points) ==
    /\ d.next \in c.next..(Len(points) + 1)
    /\ \A j \in c.next..(d.next - 1) : points[j].ts <= bar
    /\ d.next <= Len(points) => points[d.next].ts > bar
    /\ d.last = IF d.next = c.next THEN c.last ELSE points[d.next - 1].value
    /\ d.out = Append(c.out, d.last)

LEMMA CursorMoves ==
    ASSUME NEW points, ListOf(points), \A i \in DOMAIN points : points[i].ts \in Int,
           NEW bar \in Int, NEW c \in CursorAt(points)
    PROVE  /\ MoveCursor(c, bar, points) \in CursorAt(points)
           /\ MovedTo(c, MoveCursor(c, bar, points), bar, points)
<1> DEFINE n == Len(points)
           Values == {None} \union {points[i].value : i \in DOMAIN points}
           Stop(i) == /\ \A j \in c.next..(i - 1) : points[j].ts <= bar
                      /\ i <= n => points[i].ts > bar
           Late == {i \in c.next..(n + 1) : i <= n => points[i].ts > bar}
<1>1. n \in Nat /\ c.next \in 1..(n + 1) /\ c.last \in Values /\ c.out \in Seq(Values)
  BY DEF ListOf, CursorAt
<1>2. \E i \in c.next..(n + 1) : Stop(i)
  <2>1. n + 1 \in Late /\ Late \in SUBSET Nat
    BY <1>1
  <2>2. PICK i \in Late : \A j \in Late : i <= j
    <3> HIDE DEF Late
    <3> QED
      BY <2>1, LeastNumber
  <2>3. ASSUME NEW j \in c.next..(i - 1)
        PROVE  points[j].ts <= bar
    <3>1. j \in c.next..(n + 1) /\ j <= n /\ ~(i <= j) /\ j \in DOMAIN points
      BY <1>1, <2>2 DEF ListOf
    <3>2. j \notin Late
      BY <2>2, <3>1
    <3>3. ~(points[j].ts > bar)
      BY <3>1, <3>2
    <3> QED
      BY <3>1, <3>3
  <2> QED
    BY <2>2, <2>3
<1> DEFINE i == CHOOSE i \in c.next..(n + 1) : Stop(i)
           last == IF i = c.next THEN c.last ELSE points[i - 1].value
<1>3. MoveCursor(c, bar, points) = [next |-> i, last |-> last, out |-> Append(c.out, last)]
  BY DEF MoveCursor
<1>4. i \in c.next..(n + 1) /\ Stop(i)
  <2> HIDE DEF Stop
  <2> QED
    BY <1>2
<1> HIDE DEF i
<1>5. last \in Values
  <2>1. CASE i = c.next
    BY <1>1, <2>1
  <2>2. CASE i # c.next
    <3>1. i - 1 \in DOMAIN points
      BY <1>1, <1>4, <2>2 DEF ListOf
    <3> QED
      BY <2>2, <3>1
  <2> QED
    BY <2>1, <2>2
<1> HIDE DEF last
<1>6. i \in 1..(n + 1) /\ Append(c.out, last) \in Seq(Values)
  <2>1. Append(c.out, last) \in Seq(Values)
    <3> HIDE DEF Values
    <3> QED
      BY <1>1, <1>5, AppendProperties
  <2> QED
    BY <1>1, <1>4, <2>1
<1>7. MoveCursor(c, bar, points) \in CursorAt(points)
  BY <1>3, <1>5, <1>6 DEF CursorAt
<1>8. MovedTo(c, MoveCursor(c, bar, points), bar, points)
  BY <1>3, <1>4 DEF MovedTo, last
<1> QED
  BY <1>7, <1>8

CursorSteps(h, bars, points) ==
    /\ h[0] = [next |-> 1, last |-> None, out |-> <<>>]
    /\ \A k \in 0..Len(bars) : h[k] \in CursorAt(points)
    /\ \A k \in 1..Len(bars) : h[k] = MoveCursor(h[k - 1], bars[k], points)

LEMMA AlignIsSteps ==
    ASSUME NEW bars, ListOf(bars), \A t \in DOMAIN bars : bars[t] \in Int,
           NEW points, ListOf(points), \A i \in DOMAIN points : points[i].ts \in Int
    PROVE  \E h : CursorSteps(h, bars, points) /\ AlignPointInTime(bars, points) = h[Len(bars)].out
<1> DEFINE n == Len(bars)
           V == CursorAt(points)
           b == [next |-> 1, last |-> None, out |-> <<>>]
           Is(it) == it = [U \in SUBSET DOMAIN bars |->
                              IF U = {} THEN b
                              ELSE MoveCursor(it[U \ {Max(U)}], bars[Max(U)], points)]
           iter == CHOOSE it : Is(it)
<1>1. AlignPointInTime(bars, points) = iter[DOMAIN bars].out
  BY DEF AlignPointInTime, FoldLeft, MapThenFoldSet
<1>2. n \in Nat /\ DOMAIN bars = 1..n
  BY DEF ListOf
<1>3. b \in V
  <2>1. Len(points) \in Nat
    BY DEF ListOf
  <2> QED
    BY <2>1 DEF CursorAt
<1> DEFINE step == [p \in (1..n) \X V |-> MoveCursor(p[2], bars[p[1]], points)]
<1>4. step \in [(1..n) \X V -> V]
  <2> SUFFICES ASSUME NEW k \in 1..n, NEW v \in V
               PROVE  MoveCursor(v, bars[k], points) \in V
    OBVIOUS
  <2> QED
    BY <1>2, CursorMoves
<1>5. PICK it : Folds(it, V, b, n, step)
  <2> HIDE DEF V, b, step, n
  <2> QED
    BY <1>2, <1>3, <1>4, FoldExists
<1>6. \A U \in SUBSET DOMAIN bars : it[U] \in V
                /\ it[U] = IF U = {} THEN b ELSE MoveCursor(it[U \ {Max(U)}], bars[Max(U)], points)
  <2> SUFFICES ASSUME NEW U \in SUBSET (1..n)
               PROVE  it[U] \in V /\ it[U] = IF U = {} THEN b ELSE MoveCursor(it[U \ {Max(U)}], bars[Max(U)], points)
    BY <1>2
  <2>1. it[U] \in V /\ it[U \ {Max(U)}] \in V
    BY <1>5 DEF Folds
  <2>2. CASE U = {}
    BY <1>5, <2>1, <2>2 DEF Folds
  <2>3. CASE U # {}
    <3>1. Max(U) \in 1..n /\ it[U] = step[<<Max(U), it[U \ {Max(U)}]>>]
      BY <1>5, <2>3 DEF Folds
    <3> QED
      BY <2>1, <2>3, <3>1
  <2> QED
    BY <2>2, <2>3
<1>7. Is(it)
  <2>1. it \in [SUBSET DOMAIN bars -> V]
    BY <1>2, <1>5 DEF Folds
  <2> HIDE DEF b, V
  <2> QED
    BY <1>6, <2>1
<1>8. Is(iter)
  <2> HIDE DEF Is
  <2> QED
    BY <1>7
<1>9. ASSUME NEW U \in SUBSET (1..n)
      PROVE  iter[U] = IF U = {} THEN b ELSE MoveCursor(iter[U \ {Max(U)}], bars[Max(U)], points)
  BY <1>2, <1>8
<1> PICK h : h = [k \in 0..n |-> iter[1..k]]
  OBVIOUS
<1>10. h[0] = b
  <2>1. 1..0 = {} /\ {} \in SUBSET (1..n) /\ 0 \in 0..n
    BY <1>2
  <2> QED
    BY <1>9, <2>1
<1>11. ASSUME NEW k \in 1..n
       PROVE  h[k] = MoveCursor(h[k - 1], bars[k], points)
  <2>1. 1..k \in SUBSET (1..n) /\ 1..k # {} /\ k \in Nat \ {0} /\ k \in 0..n /\ k - 1 \in 0..n
    BY SMTT(30), <1>2
  <2>2. Max(1..k) = k /\ (1..k) \ {Max(1..k)} = 1..(k - 1)
    BY <2>1, LastOfInterval
  <2>3. iter[1..k] = MoveCursor(iter[1..(k - 1)], bars[k], points)
    BY <1>9, <2>1, <2>2
  <2>4. h[k] = iter[1..k] /\ h[k - 1] = iter[1..(k - 1)]
    BY <2>1
  <2> QED
    BY <2>3, <2>4
<1>12. \A k \in 0..n : h[k] \in V
  <2> DEFINE Bad == {k \in 0..n : h[k] \notin V}
  <2> SUFFICES ASSUME Bad # {}
               PROVE  FALSE
    OBVIOUS
  <2>1. PICK k \in Bad : \A j \in Bad : k <= j
    <3>1. Bad \in SUBSET Nat
      BY <1>2
    <3> HIDE DEF Bad
    <3> QED
      BY <3>1, LeastNumber
  <2>2. k \in 0..n /\ h[k] \notin V
    BY <2>1
  <2>3. k # 0
    BY <1>3, <1>10, <2>2
  <2>4. k \in 1..n /\ h[k - 1] \in V
    <3>1. k \in 1..n /\ k - 1 \in 0..n /\ ~(k <= k - 1)
      BY <1>2, <2>2, <2>3
    <3> HIDE DEF V
    <3> QED
      BY <2>1, <3>1
  <2>5. h[k] \in V
    <3>1. MoveCursor(h[k - 1], bars[k], points) \in V
      BY <1>2, <2>4, CursorMoves
    <3> QED
      BY <1>11, <2>4, <3>1
  <2> QED
    BY <2>2, <2>5
<1>13. AlignPointInTime(bars, points) = h[n].out
  BY <1>1, <1>2
<1> QED
  BY <1>10, <1>11, <1>12, <1>13 DEF CursorSteps

(* What the cursor has passed is not after the bar, the next point is, and  *)
(* every bar so far was answered with the latest point not after it.        *)
Past(bars, points, t) == {i \in DOMAIN points : points[i].ts <= bars[t]}
LatestPast(bars, points, t) ==
    IF Past(bars, points, t) = {} THEN None ELSE points[Max(Past(bars, points, t))].value

CursorInv(bars, points, c, k) ==
    /\ \A j \in 1..(c.next - 1) : k > 0 /\ points[j].ts <= bars[k]
    /\ k > 0 /\ c.next <= Len(points) => points[c.next].ts > bars[k]
    /\ c.last = IF c.next = 1 THEN None ELSE points[c.next - 1].value
    /\ Len(c.out) = k
    /\ \A t \in 1..k : c.out[t] = LatestPast(bars, points, t)

LEMMA AlignIs ==
    ASSUME NEW x, AlignGiven(x)
    PROVE  /\ \A t \in DOMAIN x.bars :
                AlignPointInTime(x.bars, x.points)[t] = LatestPast(x.bars, x.points, t)
           /\ DOMAIN x.bars = 1..Len(x.bars) /\ Len(x.bars) \in Nat
<1> PICK bars, points, n, m : bars = x.bars /\ points = x.points /\ n = Len(bars) /\ m = Len(points)
  OBVIOUS
<1>1. /\ n \in Nat /\ DOMAIN bars = 1..n /\ \A t \in 1..n : bars[t] \in Int
      /\ m \in Nat /\ DOMAIN points = 1..m /\ \A i \in 1..m : points[i].ts \in Int
      /\ \A t, u \in 1..n : t <= u => bars[t] <= bars[u]
      /\ \A i, j \in 1..m : i <= j => points[i].ts <= points[j].ts
  BY SMTT(30) DEF AlignGiven, List
<1>2. ListOf(bars) /\ ListOf(points)
  BY <1>1 DEF ListOf
<1>3. PICK h : CursorSteps(h, bars, points) /\ AlignPointInTime(bars, points) = h[n].out
  BY <1>1, <1>2, AlignIsSteps
<1>4. ASSUME NEW k \in 1..n, CursorInv(bars, points, h[k - 1], k - 1)
      PROVE  CursorInv(bars, points, h[k], k)
  <2> PICK c, d : c = h[k - 1] /\ d = h[k]
    OBVIOUS
  <2>1. c \in CursorAt(points) /\ d \in CursorAt(points) /\ d = MoveCursor(c, bars[k], points)
    <3>1. k \in 1..Len(bars) /\ k \in 0..Len(bars) /\ k - 1 \in 0..Len(bars)
      BY <1>1
    <3> QED
      BY <1>3, <3>1 DEF CursorSteps
  <2>2. /\ d.next \in c.next..(m + 1)
        /\ \A j \in c.next..(d.next - 1) : points[j].ts <= bars[k]
        /\ d.next <= m => points[d.next].ts > bars[k]
        /\ d.last = IF d.next = c.next THEN c.last ELSE points[d.next - 1].value
        /\ d.out = Append(c.out, d.last)
    <3>1. bars[k] \in Int /\ \A i \in DOMAIN points : points[i].ts \in Int
      BY <1>1
    <3>2. MovedTo(c, MoveCursor(c, bars[k], points), bars[k], points)
      BY <1>2, <2>1, <3>1, CursorMoves
    <3>3. MoveCursor(c, bars[k], points) = d /\ Len(points) = m
      BY <2>1
    <3> QED
      BY <3>2, <3>3 DEF MovedTo
  <2>3. c.next \in 1..(m + 1) /\ d.next \in 1..(m + 1)
    BY <2>1 DEF CursorAt
  <2>4. /\ \A j \in 1..(c.next - 1) : k - 1 > 0 /\ points[j].ts <= bars[k - 1]
        /\ c.last = IF c.next = 1 THEN None ELSE points[c.next - 1].value
        /\ Len(c.out) = k - 1
        /\ \A t \in 1..(k - 1) : c.out[t] = LatestPast(bars, points, t)
    BY <1>4 DEF CursorInv
  <2>5. ASSUME NEW j \in 1..(d.next - 1)
        PROVE  points[j].ts <= bars[k]
    <3>1. CASE j < c.next
      <4>1. k - 1 > 0 /\ points[j].ts <= bars[k - 1] /\ k - 1 \in 1..n /\ j \in 1..m
        BY SMTT(30), <1>1, <2>3, <2>4, <3>1
      <4>2. bars[k - 1] <= bars[k] /\ bars[k - 1] \in Int /\ bars[k] \in Int /\ points[j].ts \in Int
        BY <1>1, <4>1
      <4> QED
        BY SMTT(30), <4>1, <4>2
    <3>2. CASE j >= c.next
      BY SMTT(40), <2>2, <2>3, <3>2
    <3> QED
      BY <2>3, <3>1, <3>2
  <2>6. d.last = IF d.next = 1 THEN None ELSE points[d.next - 1].value
    BY SMTT(30), <2>2, <2>3, <2>4
  <2>7. d.last = LatestPast(bars, points, k)
    <3>1. Past(bars, points, k) = 1..(d.next - 1)
      <4>1. ASSUME NEW i \in 1..m, points[i].ts <= bars[k]
            PROVE  i < d.next
        <5> SUFFICES ASSUME d.next <= i
                     PROVE  FALSE
          BY <2>3
        <5>1. d.next \in 1..m
          BY <1>1, <2>3
        <5>2. points[d.next].ts > bars[k] /\ points[d.next].ts <= points[i].ts
          <6>1. points[d.next].ts > bars[k]
            BY <2>2, <5>1
          <6>2. points[d.next].ts <= points[i].ts
            BY <1>1, <4>1, <5>1
          <6> QED
            BY <6>1, <6>2
        <5>3. points[d.next].ts \in Int /\ points[i].ts \in Int /\ bars[k] \in Int
          BY <1>1, <5>1
        <5> QED
          BY <4>1, <5>2, <5>3
      <4>2. \A i \in 1..(d.next - 1) : i \in 1..m
        BY <1>1, <2>3
      <4> QED
        <5>1. \A i \in 1..m : points[i].ts <= bars[k] => i \in 1..(d.next - 1)
          BY <2>3, <4>1
        <5>2. DOMAIN points = 1..m
          BY <1>1
        <5> QED
          BY <2>5, <4>2, <5>1, <5>2 DEF Past
    <3>2. CASE d.next = 1
      BY <2>6, <3>1, <3>2 DEF LatestPast
    <3>3. CASE d.next # 1
      <4> PICK q : q = d.next - 1
        OBVIOUS
      <4>1. q \in Nat \ {0}
        BY <2>3, <3>3
      <4>2. Max(1..q) = q /\ 1..q # {}
        BY <4>1, LastOfInterval
      <4> QED
        BY <2>6, <3>1, <3>3, <4>2 DEF LatestPast
    <3> QED
      BY <3>2, <3>3
  <2>8. Len(d.out) = k /\ \A t \in 1..k : d.out[t] = LatestPast(bars, points, t)
    <3> PICK Values : Values = {None} \union {points[i].value : i \in DOMAIN points}
      OBVIOUS
    <3>1. c.out \in Seq(Values) /\ d.last \in Values
      BY <2>1 DEF CursorAt
    <3>2. /\ Len(d.out) = k /\ d.out[k] = d.last
          /\ \A t \in 1..(k - 1) : d.out[t] = c.out[t]
      <4>1. d.out = Append(c.out, d.last) /\ Len(c.out) = k - 1
        BY <2>2, <2>4
      <4>2. /\ Len(d.out) = Len(c.out) + 1 /\ d.out[Len(c.out) + 1] = d.last
            /\ \A t \in 1..Len(c.out) : d.out[t] = c.out[t]
        BY <3>1, <4>1, AppendProperties
      <4>3. Len(c.out) + 1 = k
        BY <4>1
      <4> QED
        BY <4>1, <4>2, <4>3
    <3> QED
      BY <2>4, <2>7, <3>2
  <2>9. k > 0
    OBVIOUS
  <2> QED
    BY <2>2, <2>5, <2>6, <2>8, <2>9 DEF CursorInv
<1>5. CursorInv(bars, points, h[0], 0)
  BY <1>3 DEF CursorSteps, CursorInv
<1>6. CursorInv(bars, points, h[n], n)
  <2> DEFINE Bad == {k \in 0..n : ~CursorInv(bars, points, h[k], k)}
  <2> SUFFICES ASSUME Bad # {}
               PROVE  FALSE
    BY <1>1
  <2>1. PICK k \in Bad : \A j \in Bad : k <= j
    <3>1. Bad \in SUBSET Nat
      BY <1>1
    <3> HIDE DEF Bad
    <3> QED
      BY <3>1, LeastNumber
  <2>2. k # 0
    BY <1>5, <2>1
  <2>3. k \in 1..n /\ k - 1 \in 0..n /\ ~(k <= k - 1)
    BY <1>1, <2>1, <2>2
  <2>4. CursorInv(bars, points, h[k - 1], k - 1)
    BY <2>1, <2>3
  <2> QED
    BY <1>4, <2>1, <2>3, <2>4
<1> QED
  BY <1>1, <1>3, <1>6 DEF CursorInv

LEMMA SignalCausal ==
    ASSUME NEW x, AlignGiven(x)
    PROVE  SignalIsCausal(x, [signal |-> AlignPointInTime(x.bars, x.points),
                              pairs |-> PairedBars(x.bars, x.points, x.horizon)])
<1> DEFINE a == [signal |-> AlignPointInTime(x.bars, x.points),
                 pairs |-> PairedBars(x.bars, x.points, x.horizon)]
<1> SUFFICES ASSUME NEW t \in DOMAIN x.bars
             PROVE  /\ a.signal[t] = IF Past(x.bars, x.points, t) = {} THEN None
                                     ELSE x.points[Max(Past(x.bars, x.points, t))].value
                    /\ t \in a.pairs => Past(x.bars, x.points, t) # {} /\ t + x.horizon \in DOMAIN x.bars
  BY DEF SignalIsCausal, Past
<1>1. a.signal[t] = LatestPast(x.bars, x.points, t)
  BY AlignIs
<1>2. DOMAIN x.bars = 1..Len(x.bars) /\ Len(x.bars) \in Nat /\ x.horizon \in Nat /\ t \in Nat \ {0}
  BY AlignIs DEF AlignGiven
<1>3. t \in a.pairs => a.signal[t] # None /\ ForwardBar(Len(x.bars), x.horizon, t) # None
  BY DEF PairedBars
<1>4. ForwardBar(Len(x.bars), x.horizon, t) # None => t + x.horizon \in DOMAIN x.bars
  BY <1>2 DEF ForwardBar
<1> HIDE DEF a
<1> QED
  BY <1>1, <1>3, <1>4 DEF LatestPast

---------------------------------------------------------------------------
(* Buckets *)

LEMMA DivIs ==
    ASSUME NEW a \in Int, NEW n \in Nat \ {0}, NEW b \in Int
    PROVE  a \div n \in Int /\ (a \div n = b <=> b * n <= a /\ a < b * n + n)
<1> PICK q, r : q = a \div n /\ r = a % n
  OBVIOUS
<1>1. q \in Int /\ r \in 0..(n - 1) /\ a = n * q + r
  OBVIOUS
<1>2. q = b => b * n <= a /\ a < b * n + n
  <2> SUFFICES ASSUME q = b
               PROVE  b * n <= a /\ a < b * n + n
    OBVIOUS
  <2> PICK p : p = b * n
    OBVIOUS
  <2>1. p = n * q /\ p \in Int
    OBVIOUS
  <2> QED
    BY <1>1, <2>1
<1>3. ASSUME b * n <= a, a < b * n + n
      PROVE  q = b
  <2>1. CASE q > b
    <3>1. n * q >= n * (b + 1) /\ n * (b + 1) = b * n + n
      BY <1>1, <2>1
    <3> QED
      BY <1>1, <1>3, <3>1
  <2>2. CASE q < b
    <3>1. n * (q + 1) <= n * b /\ n * (q + 1) = n * q + n /\ n * b = b * n
      BY <1>1, <2>2
    <3> QED
      BY <1>1, <1>3, <3>1
  <2> QED
    BY <1>1, <2>1, <2>2
<1> QED
  BY <1>1, <1>2, <1>3

LEMMA DivGrows ==
    ASSUME NEW a \in Int, NEW b \in Int, a <= b, NEW n \in Nat \ {0}
    PROVE  a \div n <= b \div n
<1> PICK q, p : q = a \div n /\ p = b \div n
  OBVIOUS
<1>1. q \in Int /\ p \in Int /\ q * n <= a /\ b < p * n + n
  <2>1. q \in Int /\ p \in Int
    BY DivIs
  <2> QED
    BY <2>1, DivIs
<1> SUFFICES ASSUME q > p
             PROVE  FALSE
  BY <1>1
<1>2. n * (p + 1) <= n * q /\ n * (p + 1) = p * n + n /\ n * q = q * n
  BY <1>1
<1> QED
  BY <1>1, <1>2

(* Where a bucket starts and ends.                                          *)
InBucket(n, q, b, lo, hi) ==
    /\ lo \in Nat /\ hi \in Nat /\ hi <= n
    /\ n \div q <= hi - lo /\ hi - lo <= n \div q + 1
    /\ {k \in 1..n : BucketOf(n, q, k) = b} = (lo + 1)..hi

LEMMA BucketIs ==
    ASSUME NEW n \in Nat, NEW q \in {3, 5}, n >= 2 * q, NEW b \in 0..(q - 1)
    PROVE  \E lo, hi : InBucket(n, q, b, lo, hi)
<1> PICK p, d, lo, hi : p = b * n /\ d = n \div q /\ lo = (p + q - 1) \div q /\ hi = (p + n + q - 1) \div q
  OBVIOUS
<1>1. p \in Nat /\ p + n <= q * n
  <2>1. b \in Nat /\ b + 1 <= q /\ q \in Nat
    OBVIOUS
  <2>2. (b + 1) * n <= q * n /\ (b + 1) * n = p + n /\ p \in Nat
    BY <2>1
  <2> QED
    BY <2>2
<1>2. /\ lo \in Nat /\ hi \in Nat /\ hi <= n
      /\ d <= hi - lo /\ hi - lo <= d + 1 /\ d \in Int
      /\ p <= q * lo /\ q * lo < p + q /\ p + n <= q * hi /\ q * hi < p + n + q
  <2>1. CASE q = 3
    BY <1>1, <2>1
  <2>2. CASE q = 5
    BY <1>1, <2>2
  <2> QED
    BY <2>1, <2>2
<1>3. ASSUME NEW k \in 1..n
      PROVE  BucketOf(n, q, k) = b <=> k \in (lo + 1)..hi
  <2> PICK z : z = (k - 1) * q
    OBVIOUS
  <2>1. z \in Int /\ n \in Nat \ {0} /\ b \in Int
    OBVIOUS
  <2>2. z \div n = b <=> b * n <= z /\ z < b * n + n
    BY <2>1, DivIs
  <2>3. BucketOf(n, q, k) = b <=> p <= z /\ z < p + n
    BY <2>2 DEF BucketOf
  <2>4. CASE q = 3
    <3>1. z = 3 * k - 3
      BY <2>4
    <3> QED
      BY <1>1, <1>2, <2>3, <2>4, <3>1
  <2>5. CASE q = 5
    <3>1. z = 5 * k - 5
      BY <2>5
    <3> QED
      BY <1>1, <1>2, <2>3, <2>5, <3>1
  <2> QED
    BY <2>4, <2>5
<1>4. {k \in 1..n : BucketOf(n, q, k) = b} = (lo + 1)..hi
  <2>1. \A k \in (lo + 1)..hi : k \in 1..n
    BY <1>2
  <2> QED
    BY <1>3, <2>1
<1> QED
  BY <1>2, <1>4 DEF InBucket

LEMMA BucketsEven ==
    ASSUME NEW n, QuantilesGiven(n)
    PROVE  BucketsAreEven(n, [k \in 1..n |-> BucketOf(n, Quantiles(n), k)])
<1> DEFINE q == Quantiles(n)
           a == [k \in 1..n |-> BucketOf(n, q, k)]
           size(b) == Cardinality({k \in 1..n : a[k] = b})
<1>1. n \in Nat /\ q \in {3, 5} /\ n >= 2 * q
  BY DEF QuantilesGiven, Quantiles
<1> HIDE DEF q
<1>2. ASSUME NEW k \in 1..(n - 1)
      PROVE  a[k] <= a[k + 1]
  <2>1. k \in 1..n /\ k + 1 \in 1..n /\ n \in Nat \ {0} /\ (k + 1) - 1 = k
    BY <1>1
  <2> PICK y, z : y = (k - 1) * q /\ z = k * q
    OBVIOUS
  <2>2. y \in Int /\ z \in Int /\ y <= z
    BY <1>1, <2>1
  <2>3. y \div n <= z \div n
    BY <2>1, <2>2, DivGrows
  <2>4. a[k] = y \div n /\ a[k + 1] = z \div n
    BY <2>1 DEF BucketOf
  <2> QED
    BY <2>3, <2>4
<1>3. ASSUME NEW b \in 0..(q - 1)
      PROVE  size(b) \in Nat /\ n \div q <= size(b) /\ size(b) <= n \div q + 1
  <2>1. PICK lo, hi : InBucket(n, q, b, lo, hi)
    BY <1>1, BucketIs
  <2>2. {k \in 1..n : a[k] = b} = {k \in 1..n : BucketOf(n, q, k) = b}
    OBVIOUS
  <2>3. size(b) = Cardinality((lo + 1)..hi)
    BY <2>1, <2>2 DEF InBucket
  <2>4. lo \in Nat /\ hi \in Nat /\ n \div q <= hi - lo /\ hi - lo <= n \div q + 1
    BY <2>1 DEF InBucket
  <2>5. n \div q >= 2 /\ n \div q \in Int
    <3>1. CASE q = 3
      BY <1>1, <3>1
    <3>2. CASE q = 5
      BY <1>1, <3>2
    <3> QED
      BY <1>1, <3>1, <3>2
  <2>6. Cardinality((lo + 1)..hi) = hi - (lo + 1) + 1
    <3>1. lo + 1 \in Int /\ hi \in Int /\ lo + 1 <= hi
      BY <2>4, <2>5
    <3> QED
      BY <3>1, FS_Interval
  <2> HIDE DEF size
  <2> QED
    BY <2>3, <2>4, <2>5, <2>6
<1>4. n \div q >= 2 /\ n \div q \in Int
  <2>1. CASE q = 3
    BY <1>1, <2>1
  <2>2. CASE q = 5
    BY <1>1, <2>2
  <2> QED
    BY <1>1, <2>1, <2>2
<1>5. \A b, c \in 0..(q - 1) : size(b) > 0 /\ size(b) - size(c) <= 1
  <2> HIDE DEF size, a
  <2> QED
    BY <1>3, <1>4
<1>6. BucketsAreEven(n, a) <=>
        /\ \A k \in 1..(n - 1) : a[k] <= a[k + 1]
        /\ \A b, c \in 0..(q - 1) : size(b) > 0 /\ size(b) - size(c) <= 1
  BY DEF BucketsAreEven, q
<1> QED
  BY <1>2, <1>5, <1>6 DEF q

---------------------------------------------------------------------------
(* The shadow gate *)

ClaimOf(trades, i) == <<trades[i].key, trades[i].entry>>

Tally(trades) ==
    [blocked : Seq(DOMAIN trades), allowed : Seq(DOMAIN trades), unmatched : Nat,
     claimed : SUBSET {ClaimOf(trades, i) : i \in DOMAIN trades}]

LEMMA NearestIs ==
    ASSUME NEW trades, ListOf(trades), \A i \in DOMAIN trades : trades[i].entry \in Int,
           NEW claimed, NEW row, row.at \in Int, NEW window \in Nat,
           Claimable(trades, claimed, row, window) # {}
    PROVE  Nearest(trades, Claimable(trades, claimed, row, window)) \in Claimable(trades, claimed, row, window)
<1> PICK fits, at : fits = Claimable(trades, claimed, row, window) /\ at = row.at
  OBVIOUS
<1>1. /\ fits \in SUBSET DOMAIN trades /\ DOMAIN trades \in SUBSET Nat
      /\ \A i \in fits : trades[i].entry \in Int /\ trades[i].entry - at \in 0..window
  BY DEF Claimable, ListOf
<1> DEFINE Waits == {trades[i].entry - at : i \in fits}
<1>2. PICK w \in Waits : \A v \in Waits : w <= v
  <2>1. Waits \in SUBSET Nat
    BY <1>1
  <2>2. Waits # {}
    OBVIOUS
  <2> HIDE DEF Waits
  <2> QED
    BY <2>1, <2>2, LeastNumber
<1> DEFINE First == {i \in fits : trades[i].entry - at = w}
<1>3. PICK i \in First : \A j \in First : i <= j
  <2>1. First \in SUBSET Nat
    BY <1>1
  <2>2. First # {}
    BY <1>2
  <2> HIDE DEF First
  <2> QED
    BY <2>1, <2>2, LeastNumber
<1>4. ASSUME NEW j \in fits
      PROVE  trades[i].entry < trades[j].entry \/ (trades[i].entry = trades[j].entry /\ i <= j)
  <2>1. i \in fits /\ trades[i].entry - at = w /\ w <= trades[j].entry - at
    BY <1>2, <1>3
  <2>2. trades[i].entry \in Int /\ trades[j].entry \in Int /\ at \in Int
    BY <1>1, <2>1
  <2>3. CASE trades[j].entry - at = w
    <3>1. j \in First
      BY <2>3
    <3>2. i <= j
      BY <1>3, <3>1
    <3> QED
      BY <2>1, <2>2, <2>3, <3>2
  <2>4. CASE trades[j].entry - at # w
    BY <2>1, <2>2, <2>4
  <2> QED
    BY <2>3, <2>4
<1>5. i \in fits
  BY <1>3
<1> QED
  BY <1>4, <1>5, Zenon DEF Nearest

Unclaimed(acc, d) ==
    d.blocked = acc.blocked /\ d.allowed = acc.allowed /\ d.claimed = acc.claimed

ClaimedBy(acc, d, gate, found, trades) ==
    /\ d.blocked = IF gate = "blocked" THEN Append(acc.blocked, found) ELSE acc.blocked
    /\ d.allowed = IF gate = "blocked" THEN acc.allowed ELSE Append(acc.allowed, found)
    /\ d.unmatched = acc.unmatched
    /\ d.claimed = acc.claimed \union {ClaimOf(trades, found)}

Checked(acc, d, trades, window, row) ==
    \/ row.gate = "unknown" /\ Unclaimed(acc, d) /\ d.unmatched = acc.unmatched
    \/ row.gate = "allowed" /\ Unclaimed(acc, d) /\ d.unmatched = acc.unmatched
    \/ row.gate = "blocked" /\ Unclaimed(acc, d) /\ d.unmatched = acc.unmatched + 1
    \/ /\ row.gate \in {"blocked", "allowed"}
       /\ \E found \in Claimable(trades, acc.claimed, row, window) : ClaimedBy(acc, d, row.gate, found, trades)

LEMMA CheckIs ==
    ASSUME NEW trades, ListOf(trades), \A i \in DOMAIN trades : trades[i].entry \in Int,
           NEW window \in Nat, NEW row, row.at \in Int, row.gate \in {"blocked", "allowed", "unknown"},
           NEW acc \in Tally(trades)
    PROVE  /\ Check(trades, window, acc, row) \in Tally(trades)
           /\ Checked(acc, Check(trades, window, acc, row), trades, window, row)
<1> PICK d, fits, found, D : /\ d = Check(trades, window, acc, row)
                             /\ fits = Claimable(trades, acc.claimed, row, window)
                             /\ found = Nearest(trades, fits) /\ D = DOMAIN trades
  OBVIOUS
<1>1. /\ acc.blocked \in Seq(D) /\ acc.allowed \in Seq(D) /\ acc.unmatched \in Nat
      /\ acc.claimed \in SUBSET {ClaimOf(trades, i) : i \in D}
      /\ acc = [blocked |-> acc.blocked, allowed |-> acc.allowed, unmatched |-> acc.unmatched, claimed |-> acc.claimed]
  BY DEF Tally
<1>2. CASE row.gate = "unknown"
  <2>1. d = acc
    BY <1>2 DEF Check
  <2> QED
    BY <1>2, <2>1 DEF Checked, Unclaimed
<1>3. CASE row.gate # "unknown" /\ fits = {}
  <2>1. d = [acc EXCEPT !.unmatched = @ + (IF row.gate = "blocked" THEN 1 ELSE 0)]
    BY <1>3 DEF Check
  <2>2. CASE row.gate = "blocked"
    <3>1. d = [blocked |-> acc.blocked, allowed |-> acc.allowed, unmatched |-> acc.unmatched + 1, claimed |-> acc.claimed]
      BY <1>1, <2>1, <2>2
    <3>2. d \in Tally(trades)
      BY <1>1, <3>1 DEF Tally
    <3> QED
      BY <2>2, <3>1, <3>2 DEF Checked, Unclaimed
  <2>3. CASE row.gate = "allowed"
    <3>1. d = [blocked |-> acc.blocked, allowed |-> acc.allowed, unmatched |-> acc.unmatched, claimed |-> acc.claimed]
      BY <1>1, <2>1, <2>3
    <3>2. d \in Tally(trades)
      BY SMTT(60), <1>1, <3>1 DEF Tally
    <3> QED
      BY <2>3, <3>1, <3>2 DEF Checked, Unclaimed
  <2> QED
    BY <1>3, <2>2, <2>3
<1>4. CASE row.gate # "unknown" /\ fits # {}
  <2>1. found \in fits /\ found \in D
    <3>1. found \in fits
      BY <1>4, NearestIs
    <3> QED
      BY <3>1 DEF Claimable
  <2>2. d = [acc EXCEPT ![row.gate] = Append(@, found),
                         !.claimed = @ \union {ClaimOf(trades, found)}]
    BY <1>4 DEF Check, ClaimOf
  <2>3. acc.claimed \union {ClaimOf(trades, found)} \in SUBSET {ClaimOf(trades, i) : i \in D}
    BY <1>1, <2>1
  <2>4. Append(acc.blocked, found) \in Seq(D) /\ Append(acc.allowed, found) \in Seq(D)
    BY <1>1, <2>1, AppendProperties
  <2>5. CASE row.gate = "blocked"
    <3>1. d = [blocked |-> Append(acc.blocked, found), allowed |-> acc.allowed, unmatched |-> acc.unmatched,
               claimed |-> acc.claimed \union {ClaimOf(trades, found)}]
      BY <1>1, <2>2, <2>5
    <3>2. d \in Tally(trades)
      BY <1>1, <2>3, <2>4, <3>1 DEF Tally
    <3>3. ClaimedBy(acc, d, row.gate, found, trades)
      BY <2>5, <3>1 DEF ClaimedBy
    <3> QED
      BY <2>1, <2>5, <3>2, <3>3 DEF Checked
  <2>6. CASE row.gate = "allowed"
    <3>1. d = [blocked |-> acc.blocked, allowed |-> Append(acc.allowed, found), unmatched |-> acc.unmatched,
               claimed |-> acc.claimed \union {ClaimOf(trades, found)}]
      BY <1>1, <2>2, <2>6
    <3>2. d \in Tally(trades)
      BY <1>1, <2>3, <2>4, <3>1 DEF Tally
    <3>3. ClaimedBy(acc, d, row.gate, found, trades)
      BY <2>6, <3>1 DEF ClaimedBy
    <3> QED
      BY <2>1, <2>6, <3>2, <3>3 DEF Checked
  <2> QED
    BY SMTT(60), <1>4, <2>5, <2>6
<1> QED
  BY <1>2, <1>3, <1>4

TallySteps(h, rows, trades, window) ==
    /\ h[0] = [blocked |-> <<>>, allowed |-> <<>>, unmatched |-> 0, claimed |-> {}]
    /\ \A k \in 0..Len(rows) : h[k] \in Tally(trades)
    /\ \A k \in 1..Len(rows) : h[k] = Check(trades, window, h[k - 1], rows[k])

LEMMA ShadowIsSteps ==
    ASSUME NEW rows, ListOf(rows),
           \A i \in DOMAIN rows : rows[i].at \in Int /\ rows[i].gate \in {"blocked", "allowed", "unknown"},
           NEW trades, ListOf(trades), \A i \in DOMAIN trades : trades[i].entry \in Int, NEW window \in Nat
    PROVE  \E h : TallySteps(h, rows, trades, window) /\ ShadowGate(rows, trades, window) = h[Len(rows)]
<1> DEFINE n == Len(rows)
           V == Tally(trades)
           b == [blocked |-> <<>>, allowed |-> <<>>, unmatched |-> 0, claimed |-> {}]
           Is(it) == it = [U \in SUBSET DOMAIN rows |->
                              IF U = {} THEN b ELSE Check(trades, window, it[U \ {Max(U)}], rows[Max(U)])]
           iter == CHOOSE it : Is(it)
<1>1. ShadowGate(rows, trades, window) = iter[DOMAIN rows]
  BY DEF ShadowGate, FoldLeft, MapThenFoldSet
<1>2. n \in Nat /\ DOMAIN rows = 1..n
  BY DEF ListOf
<1>3. b \in V
  BY DEF Tally
<1> DEFINE step == [p \in (1..n) \X V |-> Check(trades, window, p[2], rows[p[1]])]
<1>4. step \in [(1..n) \X V -> V]
  <2> SUFFICES ASSUME NEW k \in 1..n, NEW v \in V
               PROVE  Check(trades, window, v, rows[k]) \in V
    OBVIOUS
  <2> QED
    BY <1>2, CheckIs
<1>5. PICK it : Folds(it, V, b, n, step)
  <2> HIDE DEF V, b, step, n
  <2> QED
    BY <1>2, <1>3, <1>4, FoldExists
<1>6. \A U \in SUBSET DOMAIN rows :
        it[U] = IF U = {} THEN b ELSE Check(trades, window, it[U \ {Max(U)}], rows[Max(U)])
  <2> SUFFICES ASSUME NEW U \in SUBSET (1..n)
               PROVE  it[U] = IF U = {} THEN b ELSE Check(trades, window, it[U \ {Max(U)}], rows[Max(U)])
    BY <1>2
  <2>1. it[U] \in V /\ it[U \ {Max(U)}] \in V
    BY <1>5 DEF Folds
  <2>2. CASE U = {}
    BY <1>5, <2>1, <2>2 DEF Folds
  <2>3. CASE U # {}
    <3>1. Max(U) \in 1..n /\ it[U] = step[<<Max(U), it[U \ {Max(U)}]>>]
      BY <1>5, <2>3 DEF Folds
    <3> QED
      BY <2>1, <2>3, <3>1
  <2> QED
    BY <2>2, <2>3
<1>7. Is(it)
  <2>1. it \in [SUBSET DOMAIN rows -> V]
    BY <1>2, <1>5 DEF Folds
  <2> HIDE DEF b, V
  <2> QED
    BY <1>6, <2>1
<1>8. Is(iter)
  <2> HIDE DEF Is
  <2> QED
    BY <1>7
<1>9. ASSUME NEW U \in SUBSET (1..n)
      PROVE  iter[U] = IF U = {} THEN b ELSE Check(trades, window, iter[U \ {Max(U)}], rows[Max(U)])
  BY <1>2, <1>8
<1> PICK h : h = [k \in 0..n |-> iter[1..k]]
  OBVIOUS
<1>10. h[0] = b
  <2>1. 1..0 = {} /\ {} \in SUBSET (1..n) /\ 0 \in 0..n
    BY <1>2
  <2> QED
    BY <1>9, <2>1
<1>11. ASSUME NEW k \in 1..n
       PROVE  h[k] = Check(trades, window, h[k - 1], rows[k])
  <2>1. 1..k \in SUBSET (1..n) /\ 1..k # {} /\ k \in Nat \ {0} /\ k \in 0..n /\ k - 1 \in 0..n
    BY <1>2
  <2>2. Max(1..k) = k /\ (1..k) \ {Max(1..k)} = 1..(k - 1)
    BY <2>1, LastOfInterval
  <2>3. iter[1..k] = Check(trades, window, iter[1..(k - 1)], rows[k])
    BY <1>9, <2>1, <2>2
  <2>4. h[k] = iter[1..k] /\ h[k - 1] = iter[1..(k - 1)]
    BY <2>1
  <2> QED
    BY <2>3, <2>4
<1>12. \A k \in 0..n : h[k] \in V
  <2> DEFINE Bad == {k \in 0..n : h[k] \notin V}
  <2> SUFFICES ASSUME Bad # {}
               PROVE  FALSE
    OBVIOUS
  <2>1. PICK k \in Bad : \A j \in Bad : k <= j
    <3>1. Bad \in SUBSET Nat
      BY <1>2
    <3> HIDE DEF Bad
    <3> QED
      BY <3>1, LeastNumber
  <2>2. k \in 0..n /\ h[k] \notin V
    BY <2>1
  <2>3. k # 0
    BY <1>3, <1>10, <2>2
  <2>4. k \in 1..n /\ h[k - 1] \in V
    <3>1. k \in 1..n /\ k - 1 \in 0..n /\ ~(k <= k - 1)
      BY <1>2, <2>2, <2>3
    <3> HIDE DEF V
    <3> QED
      BY <2>1, <3>1
  <2>5. h[k] \in V
    <3>1. Check(trades, window, h[k - 1], rows[k]) \in V
      BY <1>2, <2>4, CheckIs
    <3> QED
      BY <1>11, <2>4, <3>1
  <2> QED
    BY <2>2, <2>5
<1>13. h[n] = iter[DOMAIN rows]
  BY <1>2
<1> HIDE DEF iter
<1> QED
  BY <1>1, <1>10, <1>11, <1>12, <1>13 DEF TallySteps

(* What is claimed is all there is on the lists, each once, and each for a  *)
(* check that came before it; every blocked check is on a list or counted.  *)
Due(found, trades, rows, window) ==
    \E i \in DOMAIN rows : rows[i].key = trades[found].key /\ trades[found].entry - rows[i].at \in 0..window

OnList(list, acc, trades, rows, window) ==
    /\ \A i \in DOMAIN list : ClaimOf(trades, list[i]) \in acc.claimed /\ Due(list[i], trades, rows, window)
    /\ \A i, j \in DOMAIN list : i # j => list[i] # list[j]

BlockedUpTo(rows, k) == {i \in 1..k : rows[i].gate = "blocked"}

TallyInv(acc, trades, rows, window, k) ==
    /\ OnList(acc.blocked, acc, trades, rows, window) /\ OnList(acc.allowed, acc, trades, rows, window)
    /\ \A i \in DOMAIN acc.blocked : \A j \in DOMAIN acc.allowed : acc.blocked[i] # acc.allowed[j]
    /\ Len(acc.blocked) + acc.unmatched = Cardinality(BlockedUpTo(rows, k))

LEMMA ListGrows ==
    ASSUME NEW trades, NEW list \in Seq(DOMAIN trades), NEW acc, NEW d, NEW rows, NEW window,
           OnList(list, acc, trades, rows, window),
           NEW found \in DOMAIN trades, Due(found, trades, rows, window),
           ClaimOf(trades, found) \notin acc.claimed,
           d.claimed = acc.claimed \union {ClaimOf(trades, found)}
    PROVE  /\ OnList(Append(list, found), d, trades, rows, window)
           /\ OnList(list, d, trades, rows, window)
           /\ \A i \in DOMAIN list : list[i] # found
<1> PICK l, n : l = Append(list, found) /\ n = Len(list)
  OBVIOUS
<1>1. /\ n \in Nat /\ DOMAIN list = 1..n /\ DOMAIN l = 1..(n + 1) /\ l[n + 1] = found
      /\ \A i \in 1..n : l[i] = list[i]
  BY AppendProperties
<1>2. \A i \in DOMAIN list : list[i] # found
  BY DEF OnList
<1>3. OnList(list, d, trades, rows, window)
  BY DEF OnList
<1>4. \A i \in DOMAIN l : ClaimOf(trades, l[i]) \in d.claimed /\ Due(l[i], trades, rows, window)
  <2> SUFFICES ASSUME NEW i \in 1..(n + 1)
               PROVE  ClaimOf(trades, l[i]) \in d.claimed /\ Due(l[i], trades, rows, window)
    BY <1>1
  <2>1. CASE i = n + 1
    BY <1>1, <2>1
  <2>2. CASE i \in 1..n
    BY <1>1, <1>3, <2>2 DEF OnList
  <2> QED
    BY <1>1, <2>1, <2>2
<1>5. \A i, j \in DOMAIN l : i # j => l[i] # l[j]
  <2> SUFFICES ASSUME NEW i \in 1..(n + 1), NEW j \in 1..(n + 1), i # j
               PROVE  l[i] # l[j]
    BY <1>1
  <2>1. CASE i = n + 1
    <3>1. j \in 1..n
      BY <1>1, <2>1
    <3> QED
      BY <1>1, <1>2, <2>1, <3>1
  <2>2. CASE j = n + 1
    <3>1. i \in 1..n
      BY <1>1, <2>2
    <3> QED
      BY <1>1, <1>2, <2>2, <3>1
  <2>3. CASE i \in 1..n /\ j \in 1..n
    BY <1>1, <1>3, <2>3 DEF OnList
  <2> QED
    BY <1>1, <2>1, <2>2, <2>3
<1> QED
  BY <1>2, <1>3, <1>4, <1>5 DEF OnList

LEMMA TallyStep ==
    ASSUME NEW rows, ListOf(rows),
           \A i \in DOMAIN rows : rows[i].at \in Int /\ rows[i].gate \in {"blocked", "allowed", "unknown"},
           NEW trades, ListOf(trades), \A i \in DOMAIN trades : trades[i].entry \in Int, NEW window \in Nat,
           NEW k \in 1..Len(rows), NEW acc \in Tally(trades), NEW d \in Tally(trades),
           Checked(acc, d, trades, window, rows[k]), TallyInv(acc, trades, rows, window, k - 1)
    PROVE  TallyInv(d, trades, rows, window, k)
<1> PICK row, n : row = rows[k] /\ n = Len(rows)
  OBVIOUS
<1>1. n \in Nat /\ DOMAIN rows = 1..n /\ k \in DOMAIN rows
  BY DEF ListOf
<1>2. /\ OnList(acc.blocked, acc, trades, rows, window) /\ OnList(acc.allowed, acc, trades, rows, window)
      /\ \A i \in DOMAIN acc.blocked : \A j \in DOMAIN acc.allowed : acc.blocked[i] # acc.allowed[j]
      /\ Len(acc.blocked) + acc.unmatched = Cardinality(BlockedUpTo(rows, k - 1))
      /\ acc.blocked \in Seq(DOMAIN trades) /\ acc.allowed \in Seq(DOMAIN trades) /\ acc.unmatched \in Nat
      /\ Len(acc.blocked) \in Nat
  BY DEF TallyInv, Tally
<1>3. /\ row.gate = "blocked" => Cardinality(BlockedUpTo(rows, k)) = Cardinality(BlockedUpTo(rows, k - 1)) + 1
      /\ row.gate # "blocked" => BlockedUpTo(rows, k) = BlockedUpTo(rows, k - 1)
  <2>1. IsFiniteSet(BlockedUpTo(rows, k - 1))
    <3>1. IsFiniteSet(1..(k - 1))
      <4>1. 1 \in Int /\ k - 1 \in Int
        BY <1>1
      <4> QED
        BY <4>1, FS_Interval
    <3>2. BlockedUpTo(rows, k - 1) \subseteq 1..(k - 1)
      BY DEF BlockedUpTo
    <3> QED
      BY <3>1, <3>2, FS_Subset
  <2>2. k \notin BlockedUpTo(rows, k - 1)
    BY <1>1 DEF BlockedUpTo
  <2>3. row.gate # "blocked" => BlockedUpTo(rows, k) = BlockedUpTo(rows, k - 1)
    BY <1>1 DEF BlockedUpTo
  <2>4. row.gate = "blocked" => BlockedUpTo(rows, k) = BlockedUpTo(rows, k - 1) \union {k}
    BY <1>1 DEF BlockedUpTo
  <2> QED
    BY <2>1, <2>2, <2>3, <2>4, FS_AddElement
<1>4. CASE \/ row.gate # "blocked" /\ Unclaimed(acc, d) /\ d.unmatched = acc.unmatched
           \/ row.gate = "blocked" /\ Unclaimed(acc, d) /\ d.unmatched = acc.unmatched + 1
  <2>1. OnList(d.blocked, d, trades, rows, window) /\ OnList(d.allowed, d, trades, rows, window)
    BY <1>2, <1>4 DEF OnList, Unclaimed
  <2>2. Len(d.blocked) + d.unmatched = Cardinality(BlockedUpTo(rows, k))
    BY <1>2, <1>3, <1>4 DEF Unclaimed
  <2> QED
    BY <1>2, <1>4, <2>1, <2>2 DEF TallyInv, Unclaimed
<1>5. ASSUME row.gate \in {"blocked", "allowed"},
             NEW found \in Claimable(trades, acc.claimed, row, window), ClaimedBy(acc, d, row.gate, found, trades)
      PROVE  TallyInv(d, trades, rows, window, k)
  <2>1. /\ found \in DOMAIN trades /\ ClaimOf(trades, found) \notin acc.claimed
        /\ Due(found, trades, rows, window)
    BY <1>1, <1>5 DEF Claimable, ClaimOf, Due
  <2>2. d.claimed = acc.claimed \union {ClaimOf(trades, found)} /\ d.unmatched = acc.unmatched
    BY <1>5 DEF ClaimedBy
  <2>3. /\ OnList(Append(acc.blocked, found), d, trades, rows, window)
        /\ OnList(acc.blocked, d, trades, rows, window)
        /\ \A i \in DOMAIN acc.blocked : acc.blocked[i] # found
    <3>1. acc.blocked \in Seq(DOMAIN trades) /\ OnList(acc.blocked, acc, trades, rows, window)
      BY <1>2
    <3> QED
      BY ZenonT(60), <2>1, <2>2, <3>1, ListGrows
  <2>4. /\ OnList(Append(acc.allowed, found), d, trades, rows, window)
        /\ OnList(acc.allowed, d, trades, rows, window)
        /\ \A i \in DOMAIN acc.allowed : acc.allowed[i] # found
    <3>1. acc.allowed \in Seq(DOMAIN trades) /\ OnList(acc.allowed, acc, trades, rows, window)
      BY <1>2
    <3> QED
      BY ZenonT(60), <2>1, <2>2, <3>1, ListGrows
  <2>5. CASE row.gate = "blocked"
    <3>1. d.blocked = Append(acc.blocked, found) /\ d.allowed = acc.allowed
      BY <1>5, <2>5 DEF ClaimedBy
    <3>2. /\ DOMAIN d.blocked = 1..(Len(acc.blocked) + 1) /\ d.blocked[Len(acc.blocked) + 1] = found
          /\ \A i \in 1..Len(acc.blocked) : d.blocked[i] = acc.blocked[i] /\ i \in DOMAIN acc.blocked
          /\ Len(d.blocked) = Len(acc.blocked) + 1
      BY <1>2, <2>1, <3>1, AppendProperties
    <3>3. ASSUME NEW i \in DOMAIN d.blocked, NEW j \in DOMAIN d.allowed
          PROVE  d.blocked[i] # d.allowed[j]
      <4>1. i = Len(acc.blocked) + 1 \/ i \in 1..Len(acc.blocked)
        BY <1>2, <3>2
      <4> QED
        BY <1>2, <2>4, <3>1, <3>2, <4>1
    <3>4. Len(d.blocked) + d.unmatched = Cardinality(BlockedUpTo(rows, k))
      <4> PICK a, u, c : a = Len(acc.blocked) /\ u = acc.unmatched /\ c = Cardinality(BlockedUpTo(rows, k - 1))
        OBVIOUS
      <4>1. a + u = c /\ a \in Nat /\ u \in Nat
        BY <1>2
      <4>2. Len(d.blocked) = a + 1 /\ d.unmatched = u /\ Cardinality(BlockedUpTo(rows, k)) = c + 1
        BY <1>3, <2>2, <2>5, <3>2
      <4>3. (a + 1) + u = c + 1
        BY <4>1
      <4> QED
        BY <4>2, <4>3
    <3> QED
      BY <2>3, <2>4, <3>1, <3>3, <3>4 DEF TallyInv
  <2>6. CASE row.gate = "allowed"
    <3>1. d.allowed = Append(acc.allowed, found) /\ d.blocked = acc.blocked
      BY <1>5, <2>6 DEF ClaimedBy
    <3>2. /\ DOMAIN d.allowed = 1..(Len(acc.allowed) + 1) /\ d.allowed[Len(acc.allowed) + 1] = found
          /\ \A i \in 1..Len(acc.allowed) : d.allowed[i] = acc.allowed[i] /\ i \in DOMAIN acc.allowed
          /\ Len(acc.allowed) \in Nat
      BY <1>2, <2>1, <3>1, AppendProperties
    <3>3. ASSUME NEW i \in DOMAIN d.blocked, NEW j \in DOMAIN d.allowed
          PROVE  d.blocked[i] # d.allowed[j]
      <4>1. j = Len(acc.allowed) + 1 \/ j \in 1..Len(acc.allowed)
        BY <3>2
      <4> QED
        BY <1>2, <2>3, <3>1, <3>2, <4>1
    <3>4. Len(d.blocked) + d.unmatched = Cardinality(BlockedUpTo(rows, k))
      BY <1>2, <1>3, <2>2, <2>6, <3>1
    <3> QED
      BY <2>3, <2>4, <3>1, <3>3, <3>4 DEF TallyInv
  <2> QED
    BY <1>5, <2>5, <2>6
<1>6. \/ row.gate # "blocked" /\ Unclaimed(acc, d) /\ d.unmatched = acc.unmatched
      \/ row.gate = "blocked" /\ Unclaimed(acc, d) /\ d.unmatched = acc.unmatched + 1
      \/ /\ row.gate \in {"blocked", "allowed"}
         /\ \E found \in Claimable(trades, acc.claimed, row, window) : ClaimedBy(acc, d, row.gate, found, trades)
  BY DEF Checked
<1> QED
  BY <1>4, <1>5, <1>6

Joined(c, s, t) ==
    /\ Len(s) \in Nat /\ DOMAIN s = 1..Len(s) /\ Len(t) \in Nat /\ DOMAIN t = 1..Len(t)
    /\ \A i \in 1..Len(s) : c[i] = s[i]
    /\ \A j \in 1..Len(t) : c[Len(s) + j] = t[j]
    /\ \A i \in DOMAIN c : i \in 1..Len(s) \/ \E j \in 1..Len(t) : i = Len(s) + j

LEMMA ConcatIs ==
    ASSUME NEW S, NEW s \in Seq(S), NEW t \in Seq(S)
    PROVE  Joined(s \o t, s, t)
<1> PICK m, n, c : m = Len(s) /\ n = Len(t) /\ c = s \o t
  OBVIOUS
<1>1. m \in Nat /\ n \in Nat /\ DOMAIN s = 1..m /\ DOMAIN t = 1..n
  OBVIOUS
<1>2. /\ c \in Seq(S) /\ Len(c) = m + n
      /\ \A i \in 1..(m + n) : c[i] = IF i <= m THEN s[i] ELSE t[i - m]
  BY ConcatProperties
<1>3. DOMAIN c = 1..(m + n)
  BY <1>2
<1>4. \A j \in 1..n : c[m + j] = t[j]
  <2> SUFFICES ASSUME NEW j \in 1..n
               PROVE  c[m + j] = t[j]
    OBVIOUS
  <2>1. m + j \in 1..(m + n) /\ ~(m + j <= m) /\ (m + j) - m = j
    BY <1>1
  <2> QED
    BY <1>2, <2>1
<1>5. \A i \in 1..m : c[i] = s[i]
  BY <1>1, <1>2
<1>6. \A i \in 1..(m + n) : i \in 1..m \/ \E j \in 1..n : i = m + j
  <2> SUFFICES ASSUME NEW i \in 1..(m + n), i \notin 1..m
               PROVE  \E j \in 1..n : i = m + j
    OBVIOUS
  <2>1. i - m \in 1..n /\ i = m + (i - m)
    BY <1>1
  <2> QED
    BY <2>1
<1> QED
  BY <1>1, <1>3, <1>4, <1>5, <1>6 DEF Joined

OnceEach(claimed, trades, rows, window) ==
    /\ \A i, j \in DOMAIN claimed : i # j => claimed[i] # claimed[j]
    /\ \A i \in DOMAIN claimed : \E r \in Range(rows) :
        r.key = trades[claimed[i]].key /\ trades[claimed[i]].entry - r.at \in 0..window

LEMMA JoinedOnce ==
    ASSUME NEW a, NEW b, NEW claimed, Joined(claimed, a, b), NEW of, NEW trades, NEW rows, NEW window,
           OnList(a, of, trades, rows, window), OnList(b, of, trades, rows, window),
           \A i \in DOMAIN a : \A j \in DOMAIN b : a[i] # b[j]
    PROVE  OnceEach(claimed, trades, rows, window)
<1>1. ASSUME NEW i \in DOMAIN claimed, NEW j \in DOMAIN claimed, i # j
      PROVE  claimed[i] # claimed[j]
  <2>1. CASE i \in 1..Len(a)
    <3>1. claimed[i] = a[i] /\ i \in DOMAIN a
      BY <2>1 DEF Joined
    <3>2. CASE j \in 1..Len(a)
      <4>1. claimed[j] = a[j] /\ j \in DOMAIN a
        BY <3>2 DEF Joined
      <4> QED
        BY <1>1, <3>1, <4>1 DEF OnList, Joined
    <3>3. ASSUME NEW l \in 1..Len(b), j = Len(a) + l
          PROVE  claimed[i] # claimed[j]
      <4>1. claimed[j] = b[l] /\ l \in DOMAIN b
        BY <3>3 DEF Joined
      <4> QED
        BY <3>1, <4>1 DEF Joined
    <3> QED
      BY <3>2, <3>3 DEF Joined
  <2>2. ASSUME NEW m \in 1..Len(b), i = Len(a) + m
        PROVE  claimed[i] # claimed[j]
    <3>1. claimed[i] = b[m] /\ m \in DOMAIN b
      BY <2>2 DEF Joined
    <3>2. CASE j \in 1..Len(a)
      <4>1. claimed[j] = a[j] /\ j \in DOMAIN a
        BY <3>2 DEF Joined
      <4> QED
        BY <3>1, <4>1 DEF Joined
    <3>3. ASSUME NEW l \in 1..Len(b), j = Len(a) + l
          PROVE  claimed[i] # claimed[j]
      <4>1. claimed[j] = b[l] /\ l \in DOMAIN b /\ l # m
        BY <1>1, <2>2, <3>3 DEF Joined
      <4> QED
        BY <3>1, <4>1 DEF OnList, Joined
    <3> QED
      BY <3>2, <3>3 DEF Joined
  <2> QED
    BY <2>1, <2>2 DEF Joined
<1>2. ASSUME NEW i \in DOMAIN claimed
       PROVE  \E r \in Range(rows) : r.key = trades[claimed[i]].key /\ trades[claimed[i]].entry - r.at \in 0..window
  <2>1. Due(claimed[i], trades, rows, window)
    <3>1. CASE i \in 1..Len(a)
      <4>1. claimed[i] = a[i] /\ i \in DOMAIN a
        BY <3>1 DEF Joined
      <4> QED
        BY <4>1 DEF OnList, Joined
    <3>2. ASSUME NEW l \in 1..Len(b), i = Len(a) + l
          PROVE  Due(claimed[i], trades, rows, window)
      <4>1. claimed[i] = b[l] /\ l \in DOMAIN b
        BY <3>2 DEF Joined
      <4> QED
        BY <4>1 DEF OnList, Joined
    <3> QED
      BY <3>1, <3>2 DEF Joined
  <2> QED
    BY <2>1 DEF Due, Range
<1> QED
  BY <1>1, <1>2 DEF OnceEach

LEMMA EachClaimedOnce ==
    ASSUME NEW x, GateGiven(x), NEW adds
    PROVE  EachTradeClaimedOnce(x, [adds |-> adds, of |-> ShadowGate(x.rows, x.trades, x.window)])
<1> PICK rows, trades, window, n, of : /\ rows = x.rows /\ trades = x.trades /\ window = x.window
                                       /\ n = Len(rows) /\ of = ShadowGate(rows, trades, window)
  OBVIOUS
<1>1. /\ ListOf(rows) /\ ListOf(trades) /\ window \in Nat /\ n \in Nat /\ DOMAIN rows = 1..n
      /\ \A i \in DOMAIN rows : rows[i].at \in Int /\ rows[i].gate \in {"blocked", "allowed", "unknown"}
      /\ \A i \in DOMAIN trades : trades[i].entry \in Int
  BY DEF GateGiven, List, ListOf
<1>2. PICK h : TallySteps(h, rows, trades, window) /\ of = h[n]
  BY <1>1, ShadowIsSteps
<1>3. ASSUME NEW k \in 1..n, TallyInv(h[k - 1], trades, rows, window, k - 1)
      PROVE  TallyInv(h[k], trades, rows, window, k)
  <2>1. k \in 0..n /\ k - 1 \in 0..n /\ k \in DOMAIN rows
    BY <1>1
  <2>2. h[k - 1] \in Tally(trades) /\ h[k] \in Tally(trades) /\ h[k] = Check(trades, window, h[k - 1], rows[k])
    BY <1>2, <2>1 DEF TallySteps
  <2>3. Checked(h[k - 1], h[k], trades, window, rows[k])
    BY <1>1, <2>1, <2>2, CheckIs
  <2> QED
    BY <1>1, <1>3, <2>2, <2>3, TallyStep
<1>4. TallyInv(h[0], trades, rows, window, 0)
  <2>1. BlockedUpTo(rows, 0) = {}
    BY DEF BlockedUpTo
  <2>2. Cardinality(BlockedUpTo(rows, 0)) = 0
    BY <2>1, FS_EmptySet
  <2> QED
    BY <1>2, <2>2 DEF TallySteps, TallyInv, OnList
<1>5. TallyInv(of, trades, rows, window, n)
  <2> DEFINE Bad == {k \in 0..n : ~TallyInv(h[k], trades, rows, window, k)}
  <2> SUFFICES ASSUME Bad # {}
               PROVE  FALSE
    BY <1>1, <1>2
  <2>1. PICK k \in Bad : \A j \in Bad : k <= j
    <3>1. Bad \in SUBSET Nat
      BY <1>1
    <3> HIDE DEF Bad
    <3> QED
      BY <3>1, LeastNumber
  <2>2. k # 0
    BY <1>4, <2>1
  <2>3. k \in 1..n /\ k - 1 \in 0..n /\ ~(k <= k - 1)
    BY <1>1, <2>1, <2>2
  <2>4. TallyInv(h[k - 1], trades, rows, window, k - 1)
    BY <2>1, <2>3
  <2> QED
    BY <1>3, <2>1, <2>3, <2>4
<1> PICK a, b, claimed : a = of.blocked /\ b = of.allowed /\ claimed = a \o b
  OBVIOUS
<1>6. of \in Tally(trades)
  BY <1>1, <1>2 DEF TallySteps
<1>7. Joined(claimed, a, b)
  <2>1. a \in Seq(DOMAIN trades) /\ b \in Seq(DOMAIN trades)
    BY <1>6 DEF Tally
  <2>2. Joined(a \o b, a, b)
    BY <2>1, ConcatIs
  <2> QED
    BY <2>2
<1>8. OnList(a, of, trades, rows, window) /\ OnList(b, of, trades, rows, window)
      /\ \A i \in DOMAIN a : \A j \in DOMAIN b : a[i] # b[j]
  BY <1>5 DEF TallyInv
<1>9. OnceEach(claimed, trades, rows, window)
  BY <1>7, <1>8, JoinedOnce
<1>11. Len(a) + of.unmatched = Cardinality({i \in DOMAIN rows : rows[i].gate = "blocked"})
  BY <1>1, <1>5 DEF TallyInv, BlockedUpTo
<1> DEFINE reply == [adds |-> adds, of |-> of]
<1>12. EachTradeClaimedOnce(x, reply) <=>
           /\ OnceEach(reply.of.blocked \o reply.of.allowed, x.trades, x.rows, x.window)
           /\ Len(reply.of.blocked) + reply.of.unmatched
                = Cardinality({i \in DOMAIN x.rows : x.rows[i].gate = "blocked"})
  <2> HIDE DEF reply
  <2> QED
    BY Zenon DEF EachTradeClaimedOnce, OnceEach
<1>13. reply.of = of
  OBVIOUS
<1>14. reply.of.blocked \o reply.of.allowed = claimed
  BY <1>13
<1>15. EachTradeClaimedOnce(x, reply)
  <2> HIDE DEF reply
  <2> QED
    BY <1>9, <1>11, <1>12, <1>13, <1>14
<1> QED
  BY <1>15

---------------------------------------------------------------------------
(* Correlation *)

Combined(f, a, g, b, h, S) ==
    a \in Int /\ b \in Int /\ \A x \in S : g[x] \in Int /\ h[x] \in Int /\ f[x] = a * g[x] + b * h[x]

LEMMA SumCombined ==
    ASSUME NEW S, IsFiniteSet(S), NEW f, NEW a, NEW g, NEW b, NEW h, Combined(f, a, g, b, h, S)
    PROVE  /\ SumFunctionOnSet(f, S) = a * SumFunctionOnSet(g, S) + b * SumFunctionOnSet(h, S)
           /\ SumFunctionOnSet(g, S) \in Int /\ SumFunctionOnSet(h, S) \in Int
<1> DEFINE Bad == {U \in SUBSET S : SumFunctionOnSet(f, U) # a * SumFunctionOnSet(g, U) + b * SumFunctionOnSet(h, U)}
<1>0. a \in Int /\ b \in Int /\ \A x \in S : f[x] \in Int /\ g[x] \in Int /\ h[x] \in Int
  <2> SUFFICES ASSUME NEW x \in S
               PROVE  f[x] \in Int /\ g[x] \in Int /\ h[x] \in Int
    BY DEF Combined
  <2> PICK p, q : p = a * g[x] /\ q = b * h[x]
    OBVIOUS
  <2>1. p \in Int /\ q \in Int /\ f[x] = p + q
    BY DEF Combined
  <2> QED
    BY <2>1 DEF Combined
<1>1. SumRule(f, S) /\ SumRule(g, S) /\ SumRule(h, S)
  BY <1>0, SumObeys
<1> SUFFICES ASSUME Bad # {}
             PROVE  FALSE
  BY <1>1 DEF SumRule
<1>2. PICK U \in Bad : \A V \in Bad : V \subseteq U => V = U
  <2>1. Bad \in SUBSET SUBSET S
    OBVIOUS
  <2> HIDE DEF Bad
  <2> QED
    BY <2>1, SmallestSet
<1>3. U # {}
  <2>1. a * 0 + b * 0 = 0
    BY <1>0
  <2> QED
    BY <1>1, <1>2, <2>1 DEF SumRule
<1>4. PICK x \in U : TRUE
  BY <1>3
<1>5. U \ {x} \notin Bad /\ U \ {x} \in SUBSET S /\ x \in S /\ U \in SUBSET S
  BY <1>2, <1>4
<1> PICK F, G, H, l, m, n, p, q, r :
        /\ F = SumFunctionOnSet(f, U \ {x}) /\ G = SumFunctionOnSet(g, U \ {x}) /\ H = SumFunctionOnSet(h, U \ {x})
        /\ l = SumFunctionOnSet(f, U) /\ m = SumFunctionOnSet(g, U) /\ n = SumFunctionOnSet(h, U)
        /\ p = f[x] /\ q = g[x] /\ r = h[x]
  OBVIOUS
<1>6. /\ G \in Int /\ H \in Int /\ q \in Int /\ r \in Int
      /\ l = p + F /\ m = q + G /\ n = r + H
  BY <1>0, <1>1, <1>4, <1>5 DEF SumRule
<1>7. F = a * G + b * H /\ p = a * q + b * r
  BY <1>5 DEF Combined
<1>8. l = a * m + b * n
  <2>1. a * m = a * q + a * G /\ b * n = b * r + b * H
    BY <1>0, <1>6
  <2>2. a * q \in Int /\ a * G \in Int /\ b * r \in Int /\ b * H \in Int
    BY <1>0, <1>6
  <2> QED
    BY <1>6, <1>7, <2>1, <2>2
<1> QED
  BY <1>2, <1>8

LEMMA SquaresAdd ==
    ASSUME NEW S, IsFiniteSet(S), NEW f, \A x \in S : f[x] \in Nat
    PROVE  SumFunctionOnSet(f, S) \in Nat
BY SumOfPart

Numbers(u, n) == DOMAIN u = 1..n /\ \A i \in 1..n : u[i] \in Int

LEMMA Expand ==
    ASSUME NEW n \in Int, NEW x \in Int, NEW y \in Int, NEW p \in Int, NEW q \in Int
    PROVE  (n * x - p) * (n * y - q) = ((n * n) * (x * y) + (-(n * q)) * x) + ((-(n * p)) * y + p * q)
<1> PICK s, t : s = n * x /\ t = n * y
  OBVIOUS
<1>1. s \in Int /\ t \in Int
  OBVIOUS
<1>2. (s - p) * (t - q) = s * t - s * q - p * t + p * q
  BY <1>1
<1>3. s * t = (n * n) * (x * y)
  OBVIOUS
<1>4. s * q = (n * q) * x /\ (-(n * q)) * x = -((n * q) * x)
  OBVIOUS
<1>5. p * t = (n * p) * y /\ (-(n * p)) * y = -((n * p) * y)
  OBVIOUS
<1> PICK a, b, c, d : a = (n * n) * (x * y) /\ b = (n * q) * x /\ c = (n * p) * y /\ d = p * q
  OBVIOUS
<1>6. a \in Int /\ b \in Int /\ c \in Int /\ d \in Int
  OBVIOUS
<1> QED
  BY <1>2, <1>3, <1>4, <1>5, <1>6


LEMMA Collect ==
    ASSUME NEW n \in Int, NEW p \in Int, NEW q \in Int, NEW r \in Int
    PROVE  ((n * n) * r + (-(n * q)) * p) + ((-(n * p)) * q + (p * q) * n) = n * (n * r - p * q)
  OBVIOUS

LEMMA Discriminant ==
    ASSUME NEW b \in Int, NEW c \in Int, NEW x \in Int, NEW y \in Int
    PROVE  (b * x - c * y) * (b * x - c * y) = ((b * b) * (x * x) + (-2 * b * c) * (x * y)) + (c * c) * (y * y)
  OBVIOUS

LEMMA Gathered ==
    ASSUME NEW n \in Int, NEW a \in Int, NEW b \in Int, NEW c \in Int
    PROVE  ((b * b) * (n * a) + (-2 * b * c) * (n * c)) + (c * c) * (n * b) = n * (b * (a * b - c * c))
  OBVIOUS

LEMMA CovSum ==
    ASSUME NEW n \in Nat, NEW u, NEW v, Numbers(u, n), Numbers(v, n),
           NEW f, \A i \in 1..n : f[i] = (n * u[i] - Total(u)) * (n * v[i] - Total(v))
    PROVE  /\ SumFunctionOnSet(f, 1..n) = n * Cov(u, v, n) /\ Cov(u, v, n) \in Int
           /\ Cov(u, v, n) = Cov(v, u, n) /\ Total(u) \in Int
<1> DEFINE S == 1..n
           uv == [i \in 1..n |-> u[i] * v[i]]
           one == [i \in 1..n |-> 1]
<1>a. PICK p, q, r : p = Total(u) /\ q = Total(v) /\ r = Total(uv)
  OBVIOUS
<1>1. IsFiniteSet(S) /\ Cardinality(S) = n
  <2>1. 1 \in Int /\ n \in Int
    OBVIOUS
  <2>2. IsFiniteSet(1..n) /\ Cardinality(1..n) = IF 1 > n THEN 0 ELSE n - 1 + 1
    BY <2>1, FS_Interval
  <2> QED
    BY <2>2
<1>2. /\ p = SumFunctionOnSet(u, S) /\ q = SumFunctionOnSet(v, S) /\ r = SumFunctionOnSet(uv, S)
  BY <1>a DEF Numbers, Total, SumFunction
<1>3. \A i \in S : u[i] \in Int /\ v[i] \in Int /\ uv[i] \in Int /\ uv[i] = u[i] * v[i] /\ one[i] = 1
  BY DEF Numbers
<1>b. uv = [i \in 1..n |-> u[i] * v[i]] /\ DOMAIN uv = 1..n
  OBVIOUS
<1> HIDE DEF uv, one, S
<1>4. p \in Int /\ q \in Int /\ r \in Int
  <2>1. SumRule(u, S) /\ SumRule(v, S) /\ SumRule(uv, S)
    BY <1>1, <1>3, SumObeys
  <2> QED
    BY <1>2, <2>1 DEF SumRule
<1>5. SumFunctionOnSet(one, S) = n
  <2>1. 1 \in Int /\ \A i \in S : one[i] = 1
    BY <1>3
  <2>2. SumFunctionOnSet(one, S) = 1 * Cardinality(S)
    BY <1>1, <2>1, SumOfEqual
  <2> QED
    BY <1>1, <2>2
<1>c. PICK a, b, c, d : a = n * n /\ b = -(n * q) /\ c = -(n * p) /\ d = p * q
  OBVIOUS
<1>6. a \in Int /\ b \in Int /\ c \in Int /\ d \in Int
  BY <1>4, <1>c
<1>d. PICK g, h : g = [i \in S |-> a * uv[i] + b * u[i]] /\ h = [i \in S |-> c * v[i] + d * one[i]]
  OBVIOUS
<1>7. Combined(g, a, uv, b, u, S) /\ Combined(h, c, v, d, one, S)
  BY <1>3, <1>6, <1>d DEF Combined
<1>8. Combined(f, 1, g, 1, h, S)
  <2> SUFFICES ASSUME NEW i \in S
               PROVE  g[i] \in Int /\ h[i] \in Int /\ f[i] = 1 * g[i] + 1 * h[i]
    BY DEF Combined
  <2>1. PICK x, y : x = u[i] /\ y = v[i]
    OBVIOUS
  <2>2. x \in Int /\ y \in Int /\ uv[i] = x * y
    BY <1>3, <2>1
  <2>3. g[i] = a * (x * y) + b * x /\ h[i] = c * y + d * 1
    BY <1>3, <1>d, <2>1, <2>2
  <2>4. f[i] = (n * x - p) * (n * y - q)
    BY <1>a, <2>1 DEF S
  <2>5. f[i] = (a * (x * y) + b * x) + (c * y + d)
    BY <1>4, <1>c, <2>2, <2>4, Expand
  <2>6. PICK s, t : s = a * (x * y) + b * x /\ t = c * y + d * 1
    OBVIOUS
  <2>7. s \in Int /\ t \in Int /\ c * y + d = t
    BY <1>6, <2>2, <2>6
  <2> QED
    BY <2>3, <2>5, <2>6, <2>7
<1>e. PICK G, H, F : G = SumFunctionOnSet(g, S) /\ H = SumFunctionOnSet(h, S) /\ F = SumFunctionOnSet(f, S)
  OBVIOUS
<1>9. G = a * r + b * p
  BY <1>1, <1>2, <1>7, <1>e, SumCombined
<1>10. H = c * q + d * n
  BY <1>1, <1>2, <1>5, <1>7, <1>e, SumCombined
<1>11. F = 1 * G + 1 * H /\ G \in Int /\ H \in Int
  BY <1>1, <1>8, <1>e, SumCombined
<1>12. Cov(u, v, n) = n * r - p * q
  BY <1>a, <1>b DEF Cov
<1>13. F = n * (n * r - p * q)
  <2>1. F = G + H
    BY <1>11
  <2>2. F = (a * r + b * p) + (c * q + d * n)
    BY <1>9, <1>10, <2>1
  <2> QED
    BY <1>4, <1>c, <2>2, Collect
<1>14. Cov(v, u, n) = Cov(u, v, n)
  <2>1. [i \in 1..n |-> u[i] * v[i]] = [i \in 1..n |-> v[i] * u[i]]
    <3>1. \A i \in 1..n : u[i] * v[i] = v[i] * u[i]
      BY <1>3 DEF S
    <3> QED
      BY <3>1
  <2>2. p * q = q * p
    BY <1>4
  <2>3. Cov(v, u, n) = n * Total([i \in 1..n |-> v[i] * u[i]]) - q * p
    BY <1>a DEF Cov
  <2>4. Cov(u, v, n) = n * Total([i \in 1..n |-> u[i] * v[i]]) - p * q
    BY <1>a DEF Cov
  <2> QED
    BY <2>1, <2>2, <2>3, <2>4, Zenon
<1>15. Cov(u, v, n) \in Int
  BY <1>4, <1>12
<1> QED
  BY <1>a, <1>e, <1>12, <1>13, <1>14, <1>15, <1>4 DEF S

(* The inequality of Cauchy and Schwarz.                                    *)
LEMMA CauchySchwarz ==
    ASSUME NEW n \in Nat \ {0}, NEW u, NEW v, Numbers(u, n), Numbers(v, n)
    PROVE  /\ Cov(u, v, n) \in Int /\ Cov(u, u, n) \in Nat /\ Cov(v, v, n) \in Nat
           /\ Cov(u, v, n) = Cov(v, u, n)
           /\ Cov(u, v, n) * Cov(u, v, n) <= Cov(u, u, n) * Cov(v, v, n)
<1> DEFINE S == 1..n
           X(i) == n * u[i] - Total(u)
           Y(i) == n * v[i] - Total(v)
           xx == [i \in 1..n |-> X(i) * X(i)]
           xy == [i \in 1..n |-> X(i) * Y(i)]
           yy == [i \in 1..n |-> Y(i) * Y(i)]
<1>a. PICK a, b, c : a = Cov(u, u, n) /\ b = Cov(v, v, n) /\ c = Cov(u, v, n)
  OBVIOUS
<1>1. IsFiniteSet(S)
  <2>1. 1 \in Int /\ n \in Int
    OBVIOUS
  <2> QED
    BY <2>1, FS_Interval
<1>2. /\ SumFunctionOnSet(xx, S) = n * a /\ a \in Int /\ Total(u) \in Int
  <2>1. \A i \in 1..n : xx[i] = (n * u[i] - Total(u)) * (n * u[i] - Total(u))
    OBVIOUS
  <2> HIDE DEF xx
  <2> QED
    BY <1>a, <2>1, CovSum
<1>3. /\ SumFunctionOnSet(yy, S) = n * b /\ b \in Int /\ Total(v) \in Int
  <2>1. \A i \in 1..n : yy[i] = (n * v[i] - Total(v)) * (n * v[i] - Total(v))
    OBVIOUS
  <2> HIDE DEF yy
  <2> QED
    BY <1>a, <2>1, CovSum
<1>4. /\ SumFunctionOnSet(xy, S) = n * c /\ c \in Int /\ c = Cov(v, u, n)
  <2>1. \A i \in 1..n : xy[i] = (n * u[i] - Total(u)) * (n * v[i] - Total(v))
    OBVIOUS
  <2> HIDE DEF xy
  <2> QED
    BY <1>a, <2>1, CovSum
<1>5. \A i \in S : X(i) \in Int /\ Y(i) \in Int
  <2> SUFFICES ASSUME NEW i \in S
               PROVE  X(i) \in Int /\ Y(i) \in Int
    OBVIOUS
  <2>1. PICK p, q, r, s : p = Total(u) /\ q = Total(v) /\ r = u[i] /\ s = v[i]
    OBVIOUS
  <2>2. p \in Int /\ q \in Int
    BY <1>2, <1>3, <2>1
  <2>3. r \in Int /\ s \in Int
    BY <2>1 DEF Numbers
  <2>4. X(i) = n * r - p /\ Y(i) = n * s - q
    BY <2>1
  <2>5. n * r - p \in Int /\ n * s - q \in Int
    BY <2>2, <2>3
  <2> QED
    BY <2>4, <2>5
<1>6. \A i \in S : xx[i] = X(i) * X(i) /\ xy[i] = X(i) * Y(i) /\ yy[i] = Y(i) * Y(i)
  OBVIOUS
<1>b. PICK m : m = -2 * b * c
  OBVIOUS
<1>7. m \in Int /\ b * b \in Int /\ c * c \in Int
  BY SMTT(30), <1>3, <1>4, <1>b
<1> HIDE DEF X, Y, xx, xy, yy
<1>c. PICK g : g = [i \in S |-> (b * b) * xx[i] + m * xy[i]]
  OBVIOUS
<1>d. PICK f : f = [i \in S |-> (b * X(i) - c * Y(i)) * (b * X(i) - c * Y(i))]
  OBVIOUS
<1>8. \A i \in S : xx[i] \in Nat /\ xy[i] \in Int /\ yy[i] \in Nat /\ f[i] \in Nat
  <2> SUFFICES ASSUME NEW i \in S
               PROVE  xx[i] \in Nat /\ xy[i] \in Int /\ yy[i] \in Nat /\ f[i] \in Nat
    OBVIOUS
  <2>1. ASSUME NEW z \in Int
        PROVE  z * z \in Nat
    OBVIOUS
  <2>2. PICK x, y : x = X(i) /\ y = Y(i)
    OBVIOUS
  <2>3. x \in Int /\ y \in Int
    BY <1>5, <2>2
  <2>4. b * x - c * y \in Int /\ x * y \in Int
    BY <1>3, <1>4, <2>3
  <2>5. PICK z : z = b * x - c * y
    OBVIOUS
  <2>6. z * z \in Nat /\ x * x \in Nat /\ y * y \in Nat
    BY <2>1, <2>3, <2>4, <2>5
  <2> QED
    BY <1>6, <1>d, <2>2, <2>4, <2>5, <2>6
<1>9. Combined(g, b * b, xx, m, xy, S)
  BY <1>7, <1>8, <1>c DEF Combined
<1>10. Combined(f, 1, g, c * c, yy, S)
  <2> SUFFICES ASSUME NEW i \in S
               PROVE  g[i] \in Int /\ yy[i] \in Int /\ f[i] = 1 * g[i] + (c * c) * yy[i]
    BY <1>7 DEF Combined
  <2>1. PICK x, y : x = X(i) /\ y = Y(i)
    OBVIOUS
  <2>2. x \in Int /\ y \in Int
    BY <1>5, <2>1
  <2>3. f[i] = (b * x - c * y) * (b * x - c * y)
    BY <1>d, <2>1
  <2>4. f[i] = ((b * b) * (x * x) + m * (x * y)) + (c * c) * (y * y)
    <3>1. b \in Int /\ c \in Int
      BY <1>3, <1>4
    <3>2. (b * x - c * y) * (b * x - c * y) = ((b * b) * (x * x) + (-2 * b * c) * (x * y)) + (c * c) * (y * y)
      BY <3>1, <2>2, Discriminant
    <3> QED
      BY <1>b, <2>3, <3>2, Zenon
  <2>5. g[i] = (b * b) * (x * x) + m * (x * y) /\ yy[i] = y * y
    BY <1>6, <1>c, <2>1
  <2>6. PICK s : s = (b * b) * (x * x) + m * (x * y)
    OBVIOUS
  <2>7. s \in Int
    <3>1. (b * b) * (x * x) \in Int /\ m * (x * y) \in Int
      BY <1>7, <2>2
    <3> QED
      BY <2>6, <3>1
  <2>8. 1 * s = s
    BY <2>7
  <2> QED
    BY <1>8, <2>4, <2>5, <2>6, <2>7, <2>8
<1>e. PICK A, C, B, G, F : /\ A = SumFunctionOnSet(xx, S) /\ C = SumFunctionOnSet(xy, S) /\ B = SumFunctionOnSet(yy, S)
                           /\ G = SumFunctionOnSet(g, S) /\ F = SumFunctionOnSet(f, S)
  OBVIOUS
<1>11. G = (b * b) * A + m * C
  BY <1>1, <1>9, <1>e, SumCombined
<1>12. F = 1 * G + (c * c) * B /\ G \in Int
  BY <1>1, <1>10, <1>e, SumCombined
<1>13. A \in Nat /\ B \in Nat /\ F \in Nat
  <2>1. (\A i \in S : xx[i] \in Nat) /\ (\A i \in S : yy[i] \in Nat) /\ (\A i \in S : f[i] \in Nat)
    BY <1>8
  <2> QED
    BY <1>1, <1>e, <2>1, SquaresAdd
<1>14. A = n * a /\ B = n * b /\ C = n * c
  BY <1>2, <1>3, <1>4, <1>e
<1>15. a \in Nat /\ b \in Nat
  <2>1. ASSUME NEW z \in Int, n * z \in Nat
        PROVE  z \in Nat
    <3>1. CASE z < 0
      <4>1. n * z <= n * (-1)
        BY <3>1
      <4> QED
        BY <2>1, <4>1
    <3> QED
      BY <3>1
  <2> QED
    BY <1>2, <1>3, <1>13, <1>14, <2>1
<1>16. F = n * (b * (a * b - c * c))
  <2>1. F = G + (c * c) * B
    BY <1>12
  <2>2. F = ((b * b) * (n * a) + (-2 * b * c) * (n * c)) + (c * c) * (n * b)
    BY <1>b, <1>11, <1>14, <2>1
  <2>3. n \in Int /\ a \in Int /\ b \in Int /\ c \in Int
    BY <1>2, <1>3, <1>4
  <2>4. ((b * b) * (n * a) + (-2 * b * c) * (n * c)) + (c * c) * (n * b) = n * (b * (a * b - c * c))
    BY <2>3, Gathered
  <2> QED
    BY <2>2, <2>4, Zenon
<1>17. c * c <= a * b
  <2>1. PICK d : d = a * b - c * c
    OBVIOUS
  <2>2. d \in Int
    BY <1>4, <1>15, <2>1
  <2>3. CASE b = 0
    <3>1. B = 0
      BY <1>14, <2>3
    <3>2. \A i \in S : yy[i] = 0
      <4>1. SumFunctionOnSet(yy, S) = B /\ \A i \in S : yy[i] \in Nat
        BY <1>8, <1>e
      <4>2. \A i \in S : yy[i] <= SumFunctionOnSet(yy, S)
        BY <1>1, <4>1, SumOfPart
      <4> QED
        BY <3>1, <4>1, <4>2
    <3>3. \A i \in S : xy[i] = 0
      <4> SUFFICES ASSUME NEW i \in S
                   PROVE  xy[i] = 0
        OBVIOUS
      <4>1. PICK x, y : x = X(i) /\ y = Y(i)
        OBVIOUS
      <4>2. x \in Int /\ y \in Int /\ y * y = 0 /\ xy[i] = x * y
        BY <1>5, <1>6, <3>2, <4>1
      <4>3. y = 0
        <5>1. CASE y >= 1
          <6>1. y * y >= 1
            BY <4>2, <5>1
          <6> QED
            BY <4>2, <6>1
        <5>2. CASE y <= -1
          <6>1. y * y >= 1
            BY <4>2, <5>2
          <6> QED
            BY <4>2, <6>1
        <5> QED
          BY <4>2, <5>1, <5>2
      <4> QED
        BY <4>2, <4>3
    <3>4. C = 0
      <4>1. 0 \in Int /\ \A i \in S : xy[i] = 0
        BY <3>3
      <4>2. C = 0 * Cardinality(S) /\ Cardinality(S) \in Nat
        BY <1>1, <1>e, <4>1, SumOfEqual
      <4> QED
        BY <4>2
    <3>5. c = 0
      <4>1. n * c = 0
        BY <1>14, <3>4
      <4> QED
        BY <1>4, <4>1
    <3> QED
      BY <1>15, <2>3, <3>5
  <2>4. CASE b > 0
    <3> SUFFICES ASSUME d < 0
                 PROVE  FALSE
      BY <1>4, <1>15, <2>1, <2>2
    <3>1. PICK e : e = b * d
      OBVIOUS
    <3>2. e \in Int /\ e < 0
      BY <1>15, <2>2, <2>4, <3>1
    <3>3. n * e < 0
      BY <3>2
    <3>4. F = n * e
      BY <1>16, <2>1, <3>1
    <3> QED
      BY <1>13, <3>3, <3>4
  <2> QED
    BY <1>15, <2>3, <2>4
<1> QED
  BY <1>4, <1>15, <1>17, <1>a
(* Sorting *)

(* before is a strict order of its domain, and s its members in that order. *)
Orders(before, S) ==
    /\ DOMAIN before = S
    /\ \A d \in S : before[d] \subseteq S /\ d \notin before[d]
    /\ \A d, e \in S : d \in before[e] => before[d] \subseteq before[e]
    /\ \A d, e \in S : d = e \/ d \in before[e] \/ e \in before[d]

InPlace(s, before, S) ==
    /\ DOMAIN s = 1..Cardinality(S) /\ s \in Seq(S) /\ Len(s) = Cardinality(S)
    /\ \A k \in DOMAIN s : s[k] \in S /\ Cardinality(before[s[k]]) = k - 1
    /\ \A d \in S : \E k \in DOMAIN s : s[k] = d
    /\ \A j, k \in DOMAIN s : s[j] \in before[s[k]] <=> j < k
    /\ \A j, k \in DOMAIN s : s[j] = s[k] => j = k

LEMMA ArrangedIs ==
    ASSUME NEW S, IsFiniteSet(S), NEW before, Orders(before, S)
    PROVE  InPlace(Arranged(before), before, S) /\ Cardinality(S) \in Nat
<1>a. PICK n : n = Cardinality(S)
  OBVIOUS
<1>1. n \in Nat
  BY <1>a, FS_CardinalityType
<1> DEFINE rank == [d \in S |-> Cardinality(before[d])]
<1>2. \A d \in S : /\ IsFiniteSet(before[d]) /\ Cardinality(before[d]) \in Nat /\ Cardinality(before[d]) < n
  <2> SUFFICES ASSUME NEW d \in S
               PROVE  IsFiniteSet(before[d]) /\ Cardinality(before[d]) \in Nat /\ Cardinality(before[d]) < n
    OBVIOUS
  <2>1. before[d] \in SUBSET S /\ before[d] # S
    BY DEF Orders
  <2>2. /\ IsFiniteSet(before[d]) /\ Cardinality(before[d]) <= Cardinality(S)
        /\ Cardinality(S) = Cardinality(before[d]) => S = before[d]
    BY <2>1, FS_Subset, Zenon
  <2>3. Cardinality(before[d]) \in Nat
    BY <2>2, FS_CardinalityType
  <2> QED
    BY <1>a, <1>1, <2>1, <2>2, <2>3
<1>3. ASSUME NEW d \in S, NEW e \in S, d \in before[e]
      PROVE  Cardinality(before[d]) < Cardinality(before[e])
  <2>1. before[d] \in SUBSET before[e] /\ before[d] # before[e]
    BY <1>3 DEF Orders
  <2>2. /\ Cardinality(before[d]) <= Cardinality(before[e])
        /\ Cardinality(before[e]) = Cardinality(before[d]) => before[e] = before[d]
    BY <1>2, <2>1, FS_Subset, Zenon
  <2> QED
    BY <1>2, <2>1, <2>2
<1>4. ASSUME NEW d \in S, NEW e \in S, Cardinality(before[d]) = Cardinality(before[e])
      PROVE  d = e
  <2>1. ~(Cardinality(before[d]) < Cardinality(before[e])) /\ ~(Cardinality(before[e]) < Cardinality(before[d]))
    BY <1>2, <1>4
  <2>2. d = e \/ d \in before[e] \/ e \in before[d]
    BY DEF Orders
  <2> QED
    BY <1>3, <2>1, <2>2
<1>5. \A k \in 1..n : \E d \in S : Cardinality(before[d]) = k - 1
  <2> DEFINE T == 0..(n - 1)
  <2>1. rank \in Injection(S, T)
    <3>1. \A d \in S : rank[d] \in T
      BY <1>1, <1>2
    <3>2. \A d, e \in S : rank[d] = rank[e] => d = e
      BY <1>4
    <3>3. rank \in [S -> T]
      BY <3>1
    <3> HIDE DEF rank, T
    <3> QED
      BY <3>2, <3>3 DEF Injection, IsInjective
  <2>2. IsFiniteSet(T) /\ Cardinality(T) = n
    <3>1. 0 \in Int /\ n - 1 \in Int
      BY <1>1
    <3>2. IsFiniteSet(0..(n - 1)) /\ Cardinality(0..(n - 1)) = IF 0 > n - 1 THEN 0 ELSE (n - 1) - 0 + 1
      BY <3>1, FS_Interval, Zenon
    <3> QED
      BY <1>1, <3>2
  <2>3. rank \in Surjection(S, T)
    <3> HIDE DEF rank, T
    <3> QED
      BY <1>a, <2>1, <2>2, FS_Injection
  <2>4. \A t \in T : \E d \in S : rank[d] = t
    <3> HIDE DEF rank, T
    <3> QED
      BY <2>3 DEF Surjection
  <2> QED
    BY <1>1, <2>4
<1>b. PICK s : s = Arranged(before)
  OBVIOUS
<1>6. s = [k \in 1..n |-> CHOOSE d \in S : Cardinality(before[d]) = k - 1]
  BY <1>a, <1>b DEF Arranged, Orders
<1>7. DOMAIN s = 1..n /\ \A k \in 1..n : s[k] \in S /\ Cardinality(before[s[k]]) = k - 1
  BY <1>5, <1>6
<1>10. s \in Seq(S) /\ Len(s) = n
  <2>1. s \in [1..n -> S]
    BY <1>5, <1>6
  <2> QED
    BY <1>1, <2>1
<1>8. \A d \in S : \E k \in 1..n : s[k] = d
  <2> SUFFICES ASSUME NEW d \in S
               PROVE  \E k \in 1..n : s[k] = d
    OBVIOUS
  <2>1. PICK k : k = Cardinality(before[d]) + 1
    OBVIOUS
  <2>2. k \in 1..n /\ Cardinality(before[d]) = k - 1
    BY <1>1, <1>2, <2>1
  <2> QED
    BY <1>4, <1>7, <2>2
<1>9. \A j, k \in 1..n : (s[j] \in before[s[k]] <=> j < k) /\ (s[j] = s[k] => j = k)
  <2> SUFFICES ASSUME NEW j \in 1..n, NEW k \in 1..n
               PROVE  (s[j] \in before[s[k]] <=> j < k) /\ (s[j] = s[k] => j = k)
    OBVIOUS
  <2>1. s[j] \in S /\ s[k] \in S /\ Cardinality(before[s[j]]) = j - 1 /\ Cardinality(before[s[k]]) = k - 1
    BY <1>7
  <2>2. s[j] = s[k] => j = k
    BY <2>1
  <2>3. s[j] \in before[s[k]] => j < k
    <3>1. s[j] \in before[s[k]] => Cardinality(before[s[j]]) < Cardinality(before[s[k]])
      BY <1>3, <2>1
    <3> QED
      BY <2>1, <3>1
  <2>4. j < k => s[j] \in before[s[k]]
    <3>1. s[k] \in before[s[j]] => Cardinality(before[s[k]]) < Cardinality(before[s[j]])
      BY <1>3, <2>1
    <3>2. s[k] \in before[s[j]] => k < j
      BY <2>1, <3>1
    <3>3. j < k => s[k] # s[j]
      BY <2>1
    <3> QED
      BY <2>1, <3>2, <3>3 DEF Orders
  <2> QED
    BY <2>2, <2>3, <2>4
<1> QED
  BY <1>1, <1>7, <1>8, <1>9, <1>10, <1>a, <1>b DEF InPlace

LEMMA GreatestNumber ==
    ASSUME NEW n \in Nat, NEW S \in SUBSET (1..n), S # {}
    PROVE  \E m \in S : \A x \in S : x <= m
<1> DEFINE T == {n - x : x \in S}
<1>1. T \in SUBSET Nat /\ T # {}
  <2>1. \A x \in S : n - x \in Nat
    OBVIOUS
  <2> QED
    BY <2>1
<1>2. PICK t \in T : \A y \in T : t <= y
  <2> HIDE DEF T
  <2> QED
    BY <1>1, LeastNumber
<1>3. PICK m \in S : t = n - m
  BY <1>2
<1>4. \A x \in S : n - m <= n - x
  BY <1>2, <1>3
<1>5. \A x \in S : x <= m
  BY <1>4
<1> QED
  BY <1>5

Lower(u, i) == {j \in DOMAIN u : u[j] < u[i]}
Level(u, i) == {j \in DOMAIN u : u[j] = u[i]}

LEMMA LevelsCount ==
    ASSUME NEW n \in Nat, NEW u, Numbers(u, n), NEW i \in 1..n
    PROVE  /\ IsFiniteSet(Lower(u, i)) /\ IsFiniteSet(Level(u, i))
           /\ Cardinality(Lower(u, i)) \in Nat /\ Cardinality(Level(u, i)) \in Nat
           /\ Lower(u, i) \cap Level(u, i) = {} /\ i \in Level(u, i)
           /\ Lower(u, i) \subseteq 1..n /\ Level(u, i) \subseteq 1..n
           /\ IsFiniteSet(Lower(u, i) \union Level(u, i))
           /\ Cardinality(Lower(u, i) \union Level(u, i)) = Cardinality(Lower(u, i)) + Cardinality(Level(u, i))
<1>1. IsFiniteSet(1..n)
  <2>1. 1 \in Int /\ n \in Int
    OBVIOUS
  <2> QED
    BY <2>1, FS_Interval
<1>2. Lower(u, i) \in SUBSET (1..n) /\ Level(u, i) \in SUBSET (1..n)
  BY DEF Lower, Level, Numbers
<1>3. \A j \in 1..n : u[j] \in Int
  BY DEF Numbers
<1>4. Lower(u, i) \cap Level(u, i) = {} /\ i \in Level(u, i)
  <2>1. ASSUME NEW j, j \in Lower(u, i), j \in Level(u, i)
        PROVE  FALSE
    <3>1. j \in 1..n /\ u[j] < u[i] /\ u[j] = u[i]
      BY <1>2, <2>1 DEF Lower, Level
    <3> QED
      BY <1>3, <3>1
  <2>2. i \in Level(u, i)
    BY DEF Level, Numbers
  <2> QED
    BY <2>1, <2>2
<1>b. PICK L, E : L = Lower(u, i) /\ E = Level(u, i)
  OBVIOUS
<1>5. IsFiniteSet(L) /\ IsFiniteSet(E)
  BY <1>1, <1>2, <1>b, FS_Subset
<1>6. Cardinality(L) \in Nat /\ Cardinality(E) \in Nat
  BY <1>5, FS_CardinalityType
<1>7. IsFiniteSet(L \union E) /\ Cardinality(L \union E) = Cardinality(L) + Cardinality(E) - Cardinality(L \cap E)
  BY <1>5, FS_Union
<1>8. L \cap E = {}
  BY <1>4, <1>b
<1>9. Cardinality(L \cap E) = 0
  BY <1>8, FS_EmptySet
<1>10. Cardinality(L \union E) = Cardinality(L) + Cardinality(E)
  BY <1>6, <1>7, <1>9
<1> QED
  BY <1>2, <1>4, <1>5, <1>6, <1>7, <1>10, <1>b, Zenon

(* What comes before one in the sorted order, by values and then by place.  *)
LEMMA BelowOrders ==
    ASSUME NEW n \in Nat, NEW u, Numbers(u, n)
    PROVE  Orders([i \in 1..n |-> Below(u, i)], 1..n)
<1>1. DOMAIN u = 1..n /\ \A i \in 1..n : u[i] \in Int
  BY DEF Numbers
<1>2. \A i \in 1..n : Below(u, i) = {j \in 1..n : u[j] < u[i] \/ (u[j] = u[i] /\ j < i)}
  BY <1>1 DEF Below
<1>3. \A i \in 1..n : Below(u, i) \subseteq 1..n /\ i \notin Below(u, i)
  BY <1>1, <1>2
<1>4. ASSUME NEW i \in 1..n, NEW j \in 1..n, i \in Below(u, j), NEW k \in Below(u, i)
      PROVE  k \in Below(u, j)
  <2>1. k \in 1..n /\ (u[k] < u[i] \/ (u[k] = u[i] /\ k < i)) /\ (u[i] < u[j] \/ (u[i] = u[j] /\ i < j))
    BY <1>2, <1>4
  <2>2. u[k] < u[j] \/ (u[k] = u[j] /\ k < j)
    BY <1>1, <2>1
  <2> QED
    BY <1>2, <2>1, <2>2
<1>5. ASSUME NEW i \in 1..n, NEW j \in 1..n
      PROVE  i = j \/ i \in Below(u, j) \/ j \in Below(u, i)
  <2>1. i = j \/ (u[i] < u[j] \/ (u[i] = u[j] /\ i < j)) \/ (u[j] < u[i] \/ (u[j] = u[i] /\ j < i))
    BY <1>1
  <2> QED
    BY <1>2, <2>1
<1> QED
  BY <1>3, <1>4, <1>5 DEF Orders

(* Where a value stands: after all lower ones, in the middle of its equals. *)
RankOf(u, i) == 2 * Cardinality(Lower(u, i)) + Cardinality(Level(u, i)) + 1

LEMMA RanksAre ==
    ASSUME NEW n \in Nat, NEW u, Numbers(u, n)
    PROVE  Numbers(Ranks(u), n) /\ \A i \in 1..n : Ranks(u)[i] = RankOf(u, i)
<1>a. PICK s : s = Order(u)
  OBVIOUS
<1>1. DOMAIN u = 1..n /\ \A i \in 1..n : u[i] \in Int
  BY DEF Numbers
<1>b. PICK before : before = [i \in 1..n |-> Below(u, i)]
  OBVIOUS
<1>2. s = Arranged(before)
  BY <1>a, <1>b, <1>1 DEF Order
<1>3. IsFiniteSet(1..n) /\ Cardinality(1..n) = n
  <2>1. 1 \in Int /\ n \in Int
    OBVIOUS
  <2>2. IsFiniteSet(1..n) /\ Cardinality(1..n) = IF 1 > n THEN 0 ELSE n - 1 + 1
    BY <2>1, FS_Interval, Zenon
  <2> QED
    BY <2>2
<1>4. InPlace(s, before, 1..n)
  BY <1>2, <1>3, <1>b, BelowOrders, ArrangedIs
<1>5. /\ DOMAIN s = 1..n
      /\ \A k \in 1..n : s[k] \in 1..n /\ Cardinality(Below(u, s[k])) = k - 1
      /\ \A d \in 1..n : \E k \in 1..n : s[k] = d
  BY <1>3, <1>4, <1>b DEF InPlace
<1>6. ASSUME NEW i \in 1..n
      PROVE  RankOf(u, i) \in Int /\ Min(Places(u, i)) + Max(Places(u, i)) = RankOf(u, i)
  <2>a. PICK L, E, a, b, P : /\ L = Lower(u, i) /\ E = Level(u, i) /\ a = Cardinality(L) /\ b = Cardinality(E)
                             /\ P = Places(u, i)
    OBVIOUS
  <2>1. /\ IsFiniteSet(L) /\ IsFiniteSet(E) /\ a \in Nat /\ b \in Nat /\ L \cap E = {} /\ i \in E
        /\ L \subseteq 1..n /\ E \subseteq 1..n
        /\ IsFiniteSet(L \union E) /\ Cardinality(L \union E) = a + b
    BY <2>a, LevelsCount, Zenon
  <2>2. P = {k \in 1..n : u[s[k]] = u[i]}
    BY <1>1, <1>a, <2>a DEF Places
  <2>3. \A d \in E : Below(u, d) = L \union {j \in E : j < d}
    BY <1>1, <2>a DEF Below, Lower, Level
  <2>4. ASSUME NEW k \in P
        PROVE  a + 1 <= k /\ k <= a + b
    <3>1. k \in 1..n /\ s[k] \in E /\ Cardinality(Below(u, s[k])) = k - 1
      BY <1>1, <1>5, <2>2, <2>4, <2>a DEF Level
    <3>b. PICK d, B, W : d = s[k] /\ B = Below(u, d) /\ W = (L \union E) \ {d}
      OBVIOUS
    <3>2. B = L \union {j \in E : j < d} /\ d \in E /\ d \in 1..n
      BY <2>1, <2>3, <3>1, <3>b
    <3>3. L \in SUBSET B /\ B \in SUBSET W
      <4>1. d \notin L
        BY <2>1, <3>2
      <4> QED
        BY <3>2, <3>b, <4>1
    <3>4. IsFiniteSet(W) /\ Cardinality(W) = IF d \in L \union E THEN Cardinality(L \union E) - 1 ELSE Cardinality(L \union E)
      BY <2>1, <3>b, FS_RemoveElement, Zenon
    <3>5. Cardinality(W) = a + b - 1
      BY <2>1, <3>2, <3>4
    <3>6. IsFiniteSet(B) /\ Cardinality(B) <= Cardinality(W)
      BY <3>3, <3>4, FS_Subset, Zenon
    <3>7. Cardinality(L) <= Cardinality(B)
      BY <3>3, <3>6, FS_Subset, Zenon
    <3>8. Cardinality(B) = k - 1
      BY <3>1, <3>b
    <3> QED
      BY <2>1, <2>a, <3>1, <3>5, <3>6, <3>7, <3>8
  <2>5. ASSUME NEW d \in E
        PROVE  \E k \in P : s[k] = d /\ k = Cardinality(Below(u, d)) + 1
    <3>1. d \in 1..n /\ u[d] = u[i]
      BY <2>1, <2>5, <2>a DEF Level
    <3>2. PICK k \in 1..n : s[k] = d
      BY <1>5, <3>1
    <3>3. Cardinality(Below(u, d)) = k - 1
      BY <1>5, <3>2
    <3> QED
      BY <2>2, <3>1, <3>2, <3>3
  <2>6. a + 1 \in P
    <3>1. PICK d \in E : \A x \in E : d <= x
      <4>1. E \in SUBSET Nat /\ E # {}
        BY <2>1
      <4> QED
        BY <4>1, LeastNumber
    <3>2. Below(u, d) = L
      <4>1. {j \in E : j < d} = {}
        <5>1. \A j \in E : j \in Int /\ d \in Int /\ d <= j
          BY <2>1, <3>1
        <5>2. \A j \in E : ~(j < d)
          BY <5>1
        <5> QED
          BY <5>2
      <4> QED
        BY <2>3, <4>1
    <3> QED
      BY <2>5, <2>a, <3>1, <3>2
  <2>7. a + b \in P
    <3>1. PICK d \in E : \A x \in E : x <= d
      <4>1. E \in SUBSET (1..n) /\ E # {}
        BY <2>1
      <4> QED
        BY <4>1, GreatestNumber
    <3>b. PICK B : B = Below(u, d)
      OBVIOUS
    <3>2. B = (L \union E) \ {d}
      <4>1. {j \in E : j < d} = E \ {d}
        <5>1. \A j \in E : j \in Int /\ d \in Int /\ j <= d
          BY <2>1, <3>1
        <5>2. \A j \in E : j < d <=> j # d
          BY <5>1
        <5> QED
          BY <5>2
      <4>2. d \notin L
        BY <2>1, <3>1
      <4> QED
        BY <2>3, <3>b, <4>1, <4>2
    <3>3. Cardinality((L \union E) \ {d}) = IF d \in L \union E THEN Cardinality(L \union E) - 1 ELSE Cardinality(L \union E)
      BY <2>1, FS_RemoveElement, Zenon
    <3>4. Cardinality(B) = a + b - 1
      BY <2>1, <3>1, <3>2, <3>3
    <3>5. PICK k \in P : k = Cardinality(B) + 1
      BY <2>5, <3>1, <3>b
    <3>6. k = a + b
      BY <2>1, <3>4, <3>5
    <3> QED
      BY <3>5, <3>6
  <2>8. P \in SUBSET Int
    BY <2>2
  <2>9. Min(P) = a + 1
    <3>1. \A x \in P : a + 1 <= x
      BY <2>4
    <3> QED
      BY <2>6, <2>8, <3>1, MinIs
  <2>10. Max(P) = a + b
    <3>1. \A x \in P : x <= a + b
      BY <2>4
    <3> QED
      BY <2>7, <2>8, <3>1, MaxIs
  <2>11. RankOf(u, i) = 2 * a + b + 1
    BY <2>a DEF RankOf
  <2>12. Min(Places(u, i)) + Max(Places(u, i)) = (a + 1) + (a + b)
    BY <2>9, <2>10, <2>a
  <2> QED
    BY <2>1, <2>11, <2>12
<1>7. Ranks(u) = [i \in 1..n |-> Min(Places(u, i)) + Max(Places(u, i))]
  BY <1>1 DEF Ranks
<1> QED
  BY <1>6, <1>7 DEF Numbers

(* A correlation reads the same both ways, and Cauchy and Schwarz bound it. *)
Bounded(c, d) ==
    IF c = None THEN d = None
    ELSE c.num = d.num /\ c.num * c.num <= c.a * c.b

LEMMA PearsonIs ==
    ASSUME NEW n \in Nat, NEW u \in Seq(Int), NEW v \in Seq(Int), Len(u) = n, Len(v) = n,
           None \notin [num : Int, a : Int, b : Int]
    PROVE  Bounded(Pearson(u, v), Pearson(v, u))
<1>1. Numbers(u, n) /\ Numbers(v, n)
  BY DEF Numbers
<1>2. CASE n < 2
  BY <1>2 DEF Pearson, Bounded
<1>3. CASE n >= 2
  <2>1. n \in Nat \ {0}
    BY <1>3
  <2>2. /\ Cov(u, v, n) \in Int /\ Cov(u, u, n) \in Nat /\ Cov(v, v, n) \in Nat
        /\ Cov(u, v, n) = Cov(v, u, n)
        /\ Cov(u, v, n) * Cov(u, v, n) <= Cov(u, u, n) * Cov(v, v, n)
    BY <1>1, <2>1, CauchySchwarz
  <2>a. PICK a, b, c : a = Cov(u, u, n) /\ b = Cov(v, v, n) /\ c = Cov(u, v, n)
    OBVIOUS
  <2>3. Pearson(u, v) = IF a = 0 \/ b = 0 THEN None ELSE [num |-> c, a |-> a, b |-> b]
    BY <1>3, <2>a DEF Pearson
  <2>4. Pearson(v, u) = IF a = 0 \/ b = 0 THEN None ELSE [num |-> c, a |-> b, b |-> a]
    BY <1>3, <2>2, <2>a DEF Pearson
  <2>5. a \in Int /\ b \in Int /\ c \in Int /\ c * c <= a * b
    BY <2>2, <2>a
  <2>6. [num |-> c, a |-> a, b |-> b] # None
    BY <2>5
  <2> QED
    BY <2>3, <2>4, <2>5, <2>6 DEF Bounded
<1> QED
  BY <1>2, <1>3

(* A series has a number for each of some days.                             *)
DatedNumbers(f) == IsFiniteSet(DOMAIN f) /\ DOMAIN f \subseteq Int /\ \A d \in DOMAIN f : f[d] \in Int

LEMMA ReturnsAreDated ==
    ASSUME NEW s, List(s), None \notin Int,
           \A t \in Range(s) : t.pnl \in Int /\ {t.entry, t.exit} \subseteq Int \union {None}
    PROVE  DatedNumbers(DailyReturns(s))
<1>1. PICK n \in Nat : n = Len(s) /\ DOMAIN s = 1..n /\ \A i \in 1..n : s[i] \in Range(s)
  <2>1. s \in Seq(Range(s))
    BY DEF List
  <2>2. Len(s) \in Nat /\ DOMAIN s = 1..Len(s)
    BY <2>1
  <2> QED
    BY <2>2 DEF Range
<1>2. IsFiniteSet(1..n)
  <2>1. 1 \in Int /\ n \in Int
    OBVIOUS
  <2> QED
    BY <2>1, FS_Interval
<1>3. \A i \in 1..n : s[i].pnl \in Int /\ DayOf(s[i]) \in Int \union {None}
  BY <1>1 DEF DayOf
<1> DEFINE Days == {DayOf(s[i]) : i \in DOMAIN s} \ {None}
           closed(d) == {i \in DOMAIN s : DayOf(s[i]) = d}
<1>4. IsFiniteSet(Days) /\ Days \subseteq Int
  <2>a. PICK T, day : T = {DayOf(s[i]) : i \in 1..n} /\ day = [i \in 1..n |-> DayOf(s[i])]
    OBVIOUS
  <2>1. day \in Surjection(1..n, T)
    BY <2>a DEF Surjection
  <2>2. IsFiniteSet(T)
    BY <1>2, <2>1, FS_Surjection
  <2>3. Days \in SUBSET T
    BY <1>1, <2>a
  <2>4. Days \subseteq Int
    BY <1>1, <1>3
  <2> HIDE DEF Days
  <2> QED
    BY <2>2, <2>3, <2>4, FS_Subset
<1>5. ASSUME NEW d \in Days
      PROVE  SumFunction([i \in closed(d) |-> s[i].pnl]) \in Int
  <2>a. PICK C, f : C = closed(d) /\ f = [i \in C |-> s[i].pnl]
    OBVIOUS
  <2>1. C \in SUBSET (1..n)
    BY <1>1, <2>a
  <2>2. IsFiniteSet(C)
    BY <1>2, <2>1, FS_Subset
  <2>3. \A i \in C : f[i] \in Int
    BY <1>3, <2>1, <2>a
  <2>4. SumRule(f, C)
    BY <2>2, <2>3, SumObeys
  <2>5. SumFunctionOnSet(f, C) \in Int
    BY <2>4 DEF SumRule
  <2>6. SumFunction(f) = SumFunctionOnSet(f, C)
    BY <2>a DEF SumFunction
  <2> QED
    BY <2>5, <2>6, <2>a
<1>6. DailyReturns(s) = [d \in Days |-> SumFunction([i \in closed(d) |-> s[i].pnl])]
  BY DEF DailyReturns
<1> HIDE DEF Days, closed
<1> QED
  BY <1>4, <1>5, <1>6 DEF DatedNumbers

LEMMA NumbersInOrder ==
    ASSUME NEW S, IsFiniteSet(S), S \subseteq Int
    PROVE  Orders([d \in S |-> {e \in S : e < d}], S)
<1> DEFINE before == [d \in S |-> {e \in S : e < d}]
<1>1. DOMAIN before = S /\ \A d \in S : before[d] = {e \in S : e < d}
  OBVIOUS
<1> HIDE DEF before
<1>2. \A d, e \in S : d \in before[e] <=> d < e
  BY <1>1
<1>3. \A d \in S : before[d] \subseteq S /\ d \notin before[d]
  BY <1>1
<1>4. \A d, e \in S : d = e \/ d \in before[e] \/ e \in before[d]
  <2>1. \A d, e \in S : d = e \/ d < e \/ e < d
    OBVIOUS
  <2> QED
    BY <1>2, <2>1
<1>5. ASSUME NEW d \in S, NEW e \in S, d \in before[e], NEW c \in before[d]
      PROVE  c \in before[e]
  <2>1. c \in S /\ c < d /\ d < e
    BY <1>1, <1>2, <1>5
  <2> QED
    BY <1>2, <2>1
<1> QED
  BY <1>1, <1>3, <1>4, <1>5 DEF Orders, before

LEMMA CorrelationIs ==
    ASSUME NEW f, NEW g, DatedNumbers(f), DatedNumbers(g), MinOverlap \in Nat,
           None \notin [num : Int, a : Int, b : Int]
    PROVE  Bounded(Correlation(f, g, TRUE), Correlation(g, f, TRUE))
<1>a. PICK both, before : both = DOMAIN f \cap DOMAIN g /\ before = [d \in both |-> {e \in both : e < d}]
  OBVIOUS
<1>b. PICK days, n : days = Arranged(before) /\ n = Cardinality(both)
  OBVIOUS
<1>1. IsFiniteSet(both) /\ both \subseteq Int
  <2>1. both \in SUBSET DOMAIN f
    BY <1>a
  <2> QED
    BY <2>1, FS_Subset DEF DatedNumbers
<1>2. Orders(before, both)
  BY <1>1, <1>a, NumbersInOrder
<1>3. InPlace(days, before, both) /\ n \in Nat
  BY <1>1, <1>2, <1>b, ArrangedIs
<1>4. DOMAIN days = 1..n /\ \A k \in 1..n : days[k] \in both
  BY <1>3, <1>b DEF InPlace
<1>c. PICK x, y : x = [i \in 1..n |-> f[days[i]]] /\ y = [i \in 1..n |-> g[days[i]]]
  OBVIOUS
<1>5. Numbers(x, n) /\ Numbers(y, n)
  BY <1>4, <1>a, <1>c DEF Numbers, DatedNumbers
<1>6. Numbers(Ranks(x), n) /\ Numbers(Ranks(y), n)
  BY <1>3, <1>5, RanksAre
<1>d. PICK u, v : u = Ranks(x) /\ v = Ranks(y)
  OBVIOUS
<1>7. u \in Seq(Int) /\ v \in Seq(Int) /\ Len(u) = n /\ Len(v) = n
  <2>1. /\ u \in [1..n -> Int] /\ v \in [1..n -> Int]
    <3>1. u = [i \in 1..n |-> u[i]] /\ v = [i \in 1..n |-> v[i]]
      BY <1>d, <1>5 DEF Ranks, Numbers
    <3> QED
      BY <1>6, <1>d, <3>1 DEF Numbers
  <2> QED
    BY <1>3, <2>1
<1>8. Len(days) = n
  BY <1>3, <1>b DEF InPlace
<1>9. Correlation(f, g, TRUE) = IF n < MinOverlap THEN None ELSE Pearson(u, v)
  BY <1>4, <1>8, <1>a, <1>b, <1>c, <1>d DEF Correlation
<1>10. Correlation(g, f, TRUE) = IF n < MinOverlap THEN None ELSE Pearson(v, u)
  <2>1. both = DOMAIN g \cap DOMAIN f
    BY <1>a
  <2> QED
    BY <1>4, <1>8, <1>a, <1>b, <1>c, <1>d, <2>1 DEF Correlation
<1>11. Bounded(Pearson(u, v), Pearson(v, u))
  BY <1>3, <1>7, PearsonIs
<1> QED
  BY <1>9, <1>10, <1>11 DEF Bounded

LEMMA CorrelationSound ==
    ASSUME NEW x, SeriesGiven(x), None \notin Int, MinOverlap \in Nat,
           None \notin [num : Int, a : Int, b : Int], NEW c, NEW gate,
           c = Correlation(DailyReturns(x.f), DailyReturns(x.g), TRUE),
           gate = PortfolioGate(x.low, DailyReturns(x.f), Baselines([g |-> DailyReturns(x.g)]))
    PROVE  CorrelationIsSound(x, [corr |-> c, gate |-> gate])
<1>a. PICK f, g, d : f = DailyReturns(x.f) /\ g = DailyReturns(x.g) /\ d = Correlation(g, f, TRUE)
  OBVIOUS
<1>1. DatedNumbers(f) /\ DatedNumbers(g)
  <2>1. /\ List(x.f) /\ List(x.g)
        /\ \A t \in Range(x.f) : t.pnl \in Int /\ {t.entry, t.exit} \subseteq Int \union {None}
        /\ \A t \in Range(x.g) : t.pnl \in Int /\ {t.entry, t.exit} \subseteq Int \union {None}
    BY DEF SeriesGiven
  <2> QED
    BY <1>a, <2>1, ReturnsAreDated
<1>2. c = Correlation(f, g, TRUE) /\ Bounded(c, d)
  BY <1>1, <1>a, CorrelationIs
<1>b. PICK base : base = Baselines([g |-> g])
  OBVIOUS
<1>3. DOMAIN base \subseteq {"g"} /\ \A b \in DOMAIN base : base[b] = g
  BY <1>b DEF Baselines
<1>c. PICK found : found = {Correlation(f, base[b], TRUE) : b \in DOMAIN base} \ {None}
  OBVIOUS
<1>4. found \subseteq {c} \ {None}
  BY <1>2, <1>3, <1>c
<1>5. gate = IF found = {} \/ x.low = NoPf THEN [applied |-> FALSE, demote |-> FALSE]
             ELSE [applied |-> TRUE, demote |-> \E e \in found : DropsToOne(x.low, e)]
  BY <1>a, <1>b, <1>c DEF PortfolioGate
<1>6. c = None => ~gate.applied
  <2> SUFFICES ASSUME c = None
               PROVE  ~gate.applied
    OBVIOUS
  <2>1. found = {}
    BY <1>4
  <2>2. gate = [applied |-> FALSE, demote |-> FALSE]
    BY <1>5, <2>1
  <2> QED
    BY <2>2
<1>7. ASSUME c # None, gate.demote
      PROVE  x.low <= 100 \/ c.num > 0
  <2>1. \E e \in found : DropsToOne(x.low, e)
    BY <1>5, <1>7
  <2>2. DropsToOne(x.low, c)
    BY <1>4, <2>1
  <2> QED
    BY <2>2 DEF DropsToOne
<1>8. d = Correlation(DailyReturns(x.g), DailyReturns(x.f), TRUE)
  BY <1>a
<1> QED
  BY <1>2, <1>6, <1>7, <1>8 DEF CorrelationIsSound, Bounded

(* The sweep of contention_diagnostics *)

(* at[k] is when the k-th event is; trade i opens at event p[i] and closes  *)
(* at event q[i], and each event is one of these.                           *)
Timeline(x, n, at, p, q) ==
    /\ n \in Nat /\ at \in [1..n -> Int] /\ p \in [Real(x) -> 1..n] /\ q \in [Real(x) -> 1..n]
    /\ \A k \in 1..n : \E i \in Real(x) : k = p[i] \/ k = q[i]
    /\ \A i, j \in Real(x) : (p[i] = p[j] => i = j) /\ (q[i] = q[j] => i = j) /\ p[i] # q[j]
    /\ \A i \in Real(x) : at[p[i]] = x[i].entry /\ at[q[i]] = x[i].exit
    /\ \A j, k \in 1..n : j <= k => at[j] <= at[k]
    /\ \A i, j \in Real(x) : x[i].entry <= x[j].exit => p[i] < q[j]

Marks(x, ev, p, q) == \A i \in Real(x) : ev[p[i]] = Opens(x, i) /\ ev[q[i]] = Closes(x, i)

LEMMA RealTrades ==
    ASSUME NEW x, ContentionGiven(x)
    PROVE  /\ IsFiniteSet(Real(x)) /\ Real(x) \subseteq Nat
           /\ \A i \in Real(x) : x[i].entry \in Int /\ x[i].exit \in Int /\ x[i].entry < x[i].exit
<1>1. PICK n \in Nat : DOMAIN x = 1..n /\ \A i \in 1..n : x[i] \in Range(x)
  <2>1. x \in Seq(Range(x))
    BY DEF ContentionGiven, List
  <2>2. Len(x) \in Nat /\ DOMAIN x = 1..Len(x)
    BY <2>1
  <2> QED
    BY <2>2 DEF Range
<1>2. IsFiniteSet(1..n)
  <2>1. 1 \in Int /\ n \in Int
    OBVIOUS
  <2> QED
    BY <2>1, FS_Interval
<1>3. \A i \in 1..n : x[i].entry \in Int /\ x[i].exit \in Int
  BY <1>1 DEF ContentionGiven
<1>4. Real(x) \in SUBSET (1..n)
  BY <1>1 DEF Real
<1>5. IsFiniteSet(Real(x))
  BY <1>2, <1>4, FS_Subset
<1>6. \A i \in Real(x) : x[i].exit > x[i].entry
  BY DEF Real
<1> QED
  BY <1>3, <1>4, <1>5, <1>6

LEMMA EventsOrdered ==
    ASSUME NEW x, ContentionGiven(x)
    PROVE  /\ IsFiniteSet(EventsOf(x))
           /\ Orders([e \in EventsOf(x) |-> {f \in EventsOf(x) : Sooner(f, e)}], EventsOf(x))
<1>1. /\ IsFiniteSet(Real(x)) /\ Real(x) \subseteq Nat
      /\ \A i \in Real(x) : x[i].entry \in Int /\ x[i].exit \in Int
  BY RealTrades
<1>a. PICK S, R : S = EventsOf(x) /\ R = Real(x)
  OBVIOUS
<1>2. IsFiniteSet(S)
  <2>a. PICK A, B : A = {Opens(x, i) : i \in R} /\ B = {Closes(x, i) : i \in R}
    OBVIOUS
  <2>b. PICK f, g : f = [i \in R |-> Opens(x, i)] /\ g = [i \in R |-> Closes(x, i)]
    OBVIOUS
  <2>1. f \in Surjection(R, A) /\ g \in Surjection(R, B)
    BY <2>a, <2>b DEF Surjection
  <2>2. IsFiniteSet(A) /\ IsFiniteSet(B)
    BY <1>1, <1>a, <2>1, FS_Surjection
  <2>3. S = A \union B
    BY <1>a, <2>a DEF EventsOf
  <2> QED
    BY <2>2, <2>3, FS_Union
<1>3. \A e \in S : e.at \in Int /\ e.delta \in Int /\ e.of \in Int
  BY <1>1, <1>a DEF EventsOf, Opens, Closes
<1>4. \A e, f \in S : e.delta = f.delta /\ e.of = f.of => e = f
  BY <1>a DEF EventsOf, Opens, Closes
<1>b. PICK before : before = [e \in S |-> {f \in S : Sooner(f, e)}]
  OBVIOUS
<1>5. DOMAIN before = S /\ \A e \in S : before[e] = {f \in S : Sooner(f, e)}
  BY <1>b
<1>6. \A e \in S : before[e] \subseteq S /\ e \notin before[e]
  <2>1. \A e \in S : ~Sooner(e, e)
    BY <1>3 DEF Sooner
  <2> QED
    BY <1>5, <2>1
<1>7. ASSUME NEW e \in S, NEW f \in S, e \in before[f], NEW g \in before[e]
      PROVE  g \in before[f]
  <2>1. g \in S /\ Sooner(g, e) /\ Sooner(e, f)
    BY <1>5, <1>7
  <2>2. Sooner(g, f)
    BY <1>3, <2>1 DEF Sooner
  <2> QED
    BY <1>5, <2>1, <2>2
<1>8. \A e, f \in S : e = f \/ e \in before[f] \/ f \in before[e]
  <2>1. ASSUME NEW e \in S, NEW f \in S
        PROVE  Sooner(e, f) \/ Sooner(f, e) \/ (e.delta = f.delta /\ e.of = f.of)
    BY <1>3 DEF Sooner
  <2> QED
    BY <1>4, <1>5, <2>1
<1> QED
  BY <1>2, <1>5, <1>6, <1>7, <1>8, <1>a, <1>b DEF Orders

LEMMA TimelineIs ==
    ASSUME NEW x, ContentionGiven(x), NEW ev, ev = Events(x), NEW at, at = [k \in 1..Len(ev) |-> ev[k].at]
    PROVE  /\ ListOf(ev)
           /\ \E p, q : /\ Timeline(x, Len(ev), at, p, q)
                        /\ Marks(x, ev, p, q)
<1>a. PICK S, before, n : S = EventsOf(x) /\ before = [e \in S |-> {f \in S : Sooner(f, e)}] /\ n = Len(ev)
  OBVIOUS
<1>1. IsFiniteSet(S) /\ Orders(before, S)
  BY <1>a, EventsOrdered
<1>2. ev = Arranged(before)
  BY <1>a DEF Events
<1>3. InPlace(ev, before, S) /\ Cardinality(S) \in Nat
  BY <1>1, <1>2, ArrangedIs
<1>4. /\ n \in Nat /\ DOMAIN ev = 1..n /\ \A k \in 1..n : ev[k] \in S
      /\ \A e \in S : \E k \in 1..n : ev[k] = e
      /\ \A j, k \in 1..n : (ev[j] \in before[ev[k]] <=> j < k) /\ (ev[j] = ev[k] => j = k)
  BY <1>3, <1>a DEF InPlace
<1>5. \A j, k \in 1..n : j < k <=> Sooner(ev[j], ev[k])
  BY <1>4, <1>a
<1>6. \A i \in Real(x) : Opens(x, i) \in S /\ Closes(x, i) \in S
  BY <1>a DEF EventsOf
<1>b. PICK R, p, q : /\ R = Real(x)
                     /\ p = [i \in R |-> CHOOSE k \in 1..n : ev[k] = Opens(x, i)]
                     /\ q = [i \in R |-> CHOOSE k \in 1..n : ev[k] = Closes(x, i)]
  OBVIOUS
<1>7. \A i \in R : p[i] \in 1..n /\ q[i] \in 1..n /\ ev[p[i]] = Opens(x, i) /\ ev[q[i]] = Closes(x, i)
  BY <1>4, <1>6, <1>b
<1>8. p \in [R -> 1..n] /\ q \in [R -> 1..n]
  BY <1>7, <1>b
<1>c. at = [k \in 1..n |-> ev[k].at]
  BY <1>a
<1>9. \A i \in R : x[i].entry \in Int /\ x[i].exit \in Int /\ x[i].entry < x[i].exit
  BY <1>b, RealTrades
<1>10. \A k \in 1..n : \E i \in R : ev[k] = Opens(x, i) \/ ev[k] = Closes(x, i)
  BY <1>4, <1>a, <1>b DEF EventsOf
<1>11. \A k \in 1..n : \E i \in R : k = p[i] \/ k = q[i]
  BY SMTT(30), <1>4, <1>7, <1>10
<1>12. at \in [1..n -> Int]
  <2>1. \A i \in R : Opens(x, i).at \in Int /\ Closes(x, i).at \in Int
    BY <1>9 DEF Opens, Closes
  <2>2. \A k \in 1..n : ev[k].at \in Int
    BY <1>10, <2>1
  <2> QED
    BY <1>c, <2>2
<1>13. ASSUME NEW i \in R, NEW j \in R
       PROVE  (p[i] = p[j] => i = j) /\ (q[i] = q[j] => i = j) /\ p[i] # q[j]
  <2>1. p[i] = p[j] => Opens(x, i).of = Opens(x, j).of
    BY <1>7
  <2>2. q[i] = q[j] => Closes(x, i).of = Closes(x, j).of
    BY <1>7
  <2>3. p[i] = q[j] => Opens(x, i).delta = Closes(x, j).delta
    BY <1>7
  <2> QED
    BY <2>1, <2>2, <2>3 DEF Opens, Closes
<1>14. \A i \in R : at[p[i]] = x[i].entry /\ at[q[i]] = x[i].exit
  <2>1. \A i \in R : Opens(x, i).at = x[i].entry /\ Closes(x, i).at = x[i].exit
    BY DEF Opens, Closes
  <2>2. \A i \in R : at[p[i]] = ev[p[i]].at /\ at[q[i]] = ev[q[i]].at
    BY <1>7, <1>c
  <2> QED
    BY <1>7, <2>1, <2>2
<1>15. ASSUME NEW j \in 1..n, NEW k \in 1..n, j <= k
       PROVE  at[j] <= at[k]
  <2>1. at[j] \in Int /\ at[k] \in Int
    BY <1>12
  <2>2. CASE j = k
    BY <2>1, <2>2
  <2>3. CASE j < k
    <3>1. Sooner(ev[j], ev[k])
      BY <1>5, <2>3
    <3>2. at[j] = ev[j].at /\ at[k] = ev[k].at
      BY <1>c
    <3>3. ev[j].at <= ev[k].at
      BY <2>1, <3>1, <3>2 DEF Sooner
    <3> QED
      BY <3>2, <3>3
  <2> QED
    BY <1>15, <2>2, <2>3
<1>16. ASSUME NEW i \in R, NEW j \in R, x[i].entry <= x[j].exit
       PROVE  p[i] < q[j]
  <2>1. Sooner(Opens(x, i), Closes(x, j))
    BY <1>9, <1>16 DEF Sooner, Opens, Closes
  <2> QED
    BY <1>5, <1>7, <2>1
<1>17. Timeline(x, n, at, p, q)
  <2>1. \A j, k \in 1..n : j <= k => at[j] <= at[k]
    BY <1>15
  <2>2. \A i, j \in R : (p[i] = p[j] => i = j) /\ (q[i] = q[j] => i = j) /\ p[i] # q[j]
    BY <1>13
  <2>3. \A i, j \in R : x[i].entry <= x[j].exit => p[i] < q[j]
    BY <1>16
  <2>4. n \in Nat /\ R = Real(x)
    BY <1>4, <1>b
  <2> QED
    BY <1>8, <1>11, <1>12, <1>14, <2>1, <2>2, <2>3, <2>4, Zenon DEF Timeline
<1>18. ListOf(ev)
  BY <1>4, <1>a DEF ListOf
<1>19. Timeline(x, Len(ev), at, p, q)
  BY <1>17, <1>a
<1>20. Marks(x, ev, p, q)
  BY <1>7, <1>b DEF Marks
<1> QED
  BY <1>18, <1>19, <1>20

(* Who is open after k events.                                              *)
Live(x, p, q, k) == {i \in Real(x) : p[i] <= k /\ k < q[i]}

LEMMA LiveIs ==
    ASSUME NEW x, ContentionGiven(x), NEW n, NEW at, NEW p, NEW q, Timeline(x, n, at, p, q),
           NEW k \in 1..n, NEW u \in Int, at[k] <= u, k < n => u < at[k + 1]
    PROVE  OpenAt(x, u) = IF k = n THEN {} ELSE Live(x, p, q, k)
<1>1. /\ n \in Nat /\ \A j \in 1..n : at[j] \in Int
      /\ \A i \in Real(x) : p[i] \in 1..n /\ q[i] \in 1..n
      /\ \A i \in Real(x) : at[p[i]] = x[i].entry /\ at[q[i]] = x[i].exit
      /\ \A i, j \in 1..n : i <= j => at[i] <= at[j]
  BY DEF Timeline
<1>2. ASSUME NEW j \in 1..n
      PROVE  at[j] <= u <=> j <= k
  <2>1. at[j] \in Int /\ at[k] \in Int /\ k \in 1..n
    BY <1>1
  <2>2. CASE j <= k
    <3>1. at[j] <= at[k]
      BY <1>1, <2>2
    <3> QED
      BY <2>1, <2>2, <3>1
  <2>3. CASE k < j
    <3>1. k + 1 \in 1..n /\ k + 1 <= j /\ k < n
      BY <1>1, <2>3
    <3>2. at[k + 1] <= at[j] /\ at[k + 1] \in Int
      BY <1>1, <3>1
    <3> QED
      BY <2>1, <2>3, <3>1, <3>2
  <2> QED
    BY <2>1, <2>2, <2>3
<1>3. \A i \in Real(x) : x[i].entry \in Int /\ x[i].exit \in Int
  BY <1>1
<1>4. \A i \in Real(x) : (x[i].entry <= u <=> p[i] <= k) /\ (u < x[i].exit <=> k < q[i])
  <2> SUFFICES ASSUME NEW i \in Real(x)
               PROVE  (x[i].entry <= u <=> p[i] <= k) /\ (u < x[i].exit <=> k < q[i])
    OBVIOUS
  <2>1. (x[i].entry <= u <=> p[i] <= k) /\ (x[i].exit <= u <=> q[i] <= k)
    BY <1>1, <1>2
  <2>2. q[i] \in Int /\ x[i].exit \in Int
    BY <1>1, <1>3
  <2> QED
    BY <2>1, <2>2
<1>5. OpenAt(x, u) = Live(x, p, q, k)
  BY <1>4 DEF OpenAt, Live
<1>6. k = n => Live(x, p, q, k) = {}
  <2>1. \A i \in Real(x) : ~(n < q[i])
    BY <1>1
  <2> QED
    BY <2>1 DEF Live
<1> QED
  BY <1>5, <1>6

LEMMA LiveMoves ==
    ASSUME NEW x, ContentionGiven(x), NEW n, NEW at, NEW p, NEW q, Timeline(x, n, at, p, q), NEW i \in Real(x)
    PROVE  /\ i \notin Live(x, p, q, p[i] - 1) /\ Live(x, p, q, p[i]) = Live(x, p, q, p[i] - 1) \union {i}
           /\ i \in Live(x, p, q, q[i] - 1) /\ Live(x, p, q, q[i]) = Live(x, p, q, q[i] - 1) \ {i}
<1>1. /\ n \in Nat
      /\ \A j \in Real(x) : p[j] \in 1..n /\ q[j] \in 1..n
      /\ \A j, k \in Real(x) : (p[j] = p[k] => j = k) /\ (q[j] = q[k] => j = k) /\ p[j] # q[k]
      /\ \A j, k \in Real(x) : x[j].entry <= x[k].exit => p[j] < q[k]
  BY DEF Timeline
<1>2. p[i] < q[i]
  <2>1. x[i].entry \in Int /\ x[i].exit \in Int /\ x[i].entry < x[i].exit
    BY RealTrades
  <2> QED
    BY <1>1, <2>1
<1>3. ASSUME NEW j \in Real(x)
      PROVE  /\ p[j] <= p[i] <=> p[j] <= p[i] - 1 \/ j = i
             /\ p[i] < q[j] <=> p[i] - 1 < q[j]
             /\ p[j] <= q[i] <=> p[j] <= q[i] - 1
             /\ q[i] < q[j] <=> q[i] - 1 < q[j] /\ j # i
  <2>1. p[i] \in Int /\ p[j] \in Int /\ q[i] \in Int /\ q[j] \in Int
    BY <1>1
  <2>2. (p[j] = p[i] <=> j = i) /\ p[i] # q[j] /\ p[j] # q[i] /\ (q[i] = q[j] <=> i = j)
    BY <1>1
  <2> QED
    BY <2>1, <2>2
<1>4. p[i] \in Int /\ q[i] \in Int
  BY <1>1
<1>5. ~(p[i] <= p[i] - 1) /\ p[i] <= q[i] - 1 /\ q[i] - 1 < q[i]
  BY <1>2, <1>4
<1>6. i \notin Live(x, p, q, p[i] - 1) /\ i \in Live(x, p, q, q[i] - 1)
  BY <1>5 DEF Live
<1>7. Live(x, p, q, p[i]) = Live(x, p, q, p[i] - 1) \union {i}
  BY <1>2, <1>3 DEF Live
<1>8. Live(x, p, q, q[i]) = Live(x, p, q, q[i] - 1) \ {i}
  BY <1>3 DEF Live
<1> QED
  BY <1>6, <1>7, <1>8

LEMMA InstantsAre ==
    ASSUME NEW x, ContentionGiven(x), NEW n, NEW at, NEW p, NEW q, Timeline(x, n, at, p, q)
    PROVE  /\ IsFiniteSet(Instants(x)) /\ Instants(x) \subseteq Int
           /\ n = 0 => Instants(x) = {}
           /\ \A u \in Instants(x) : n > 0 /\ at[1] <= u
           /\ \A u \in Int : OpenAt(x, u) # {} => u \in Instants(x)
           /\ \A k \in 1..n : at[k] \in Instants(x)
<1>1. /\ n \in Nat /\ \A j \in 1..n : at[j] \in Int
      /\ \A i \in Real(x) : p[i] \in 1..n /\ q[i] \in 1..n
      /\ \A i \in Real(x) : at[p[i]] = x[i].entry /\ at[q[i]] = x[i].exit
      /\ \A i, j \in 1..n : i <= j => at[i] <= at[j]
      /\ \A k \in 1..n : \E i \in Real(x) : k = p[i] \/ k = q[i]
  BY DEF Timeline
<1>2. \A i \in Real(x) : x[i].entry \in Int /\ x[i].exit \in Int /\ x[i].entry < x[i].exit
  BY RealTrades
<1>3. ASSUME NEW u \in Instants(x)
      PROVE  u \in Int /\ n > 0 /\ at[1] <= u /\ u <= at[n]
  <2>1. PICK i \in Real(x) : u \in x[i].entry..x[i].exit
    BY DEF Instants
  <2>2. u \in Int /\ at[p[i]] <= u /\ u <= at[q[i]]
    BY <1>1, <1>2, <2>1
  <2>3. n > 0 /\ 1 \in 1..n /\ n \in 1..n /\ p[i] \in 1..n /\ q[i] \in 1..n
    BY <1>1
  <2>4. at[1] <= at[p[i]] /\ at[q[i]] <= at[n]
    BY <1>1, <2>3
  <2>5. at[1] \in Int /\ at[n] \in Int /\ at[p[i]] \in Int /\ at[q[i]] \in Int
    BY <1>1, <2>3
  <2> QED
    BY <2>2, <2>3, <2>4, <2>5
<1>4. n = 0 => Instants(x) = {}
  BY <1>3
<1>5. IsFiniteSet(Instants(x))
  <2>1. CASE n = 0
    BY <1>4, <2>1, FS_EmptySet
  <2>2. CASE n > 0
    <3>1. at[1] \in Int /\ at[n] \in Int
      BY <1>1, <2>2
    <3>2. IsFiniteSet(at[1]..at[n])
      BY <3>1, FS_Interval
    <3>3. Instants(x) \in SUBSET (at[1]..at[n])
      BY <1>3, <3>1
    <3> QED
      BY <3>2, <3>3, FS_Subset
  <2> QED
    BY <1>1, <2>1, <2>2
<1>6. \A u \in Int : OpenAt(x, u) # {} => u \in Instants(x)
  <2> SUFFICES ASSUME NEW u \in Int, NEW i \in OpenAt(x, u)
               PROVE  u \in Instants(x)
    OBVIOUS
  <2>1. i \in Real(x) /\ x[i].entry <= u /\ u < x[i].exit
    BY DEF OpenAt
  <2>2. u \in x[i].entry..x[i].exit
    BY <1>2, <2>1
  <2> QED
    BY <2>1, <2>2 DEF Instants
<1>7. \A k \in 1..n : at[k] \in Instants(x)
  <2> SUFFICES ASSUME NEW k \in 1..n
               PROVE  at[k] \in Instants(x)
    OBVIOUS
  <2>1. PICK i \in Real(x) : k = p[i] \/ k = q[i]
    BY <1>1
  <2>2. at[k] \in x[i].entry..x[i].exit
    BY <1>1, <1>2, <2>1
  <2> QED
    BY <2>2 DEF Instants
<1> QED
  BY <1>3, <1>4, <1>5, <1>6, <1>7

(* The time before the k-th event that is spent with one of some sets open. *)
Spent(x, at, busy, k) == Cardinality({u \in Instants(x) : u < at[k] /\ OpenAt(x, u) \in busy})

SpentRule(x, n, at, p, q, busy, k) ==
    /\ k = 1 => Spent(x, at, busy, k) = 0
    /\ k > 1 => Spent(x, at, busy, k) =
        Spent(x, at, busy, k - 1) + (IF Live(x, p, q, k - 1) \in busy THEN at[k] - at[k - 1] ELSE 0)
    /\ k = n => Spent(x, at, busy, k) = Cardinality({u \in Instants(x) : OpenAt(x, u) \in busy})
    /\ Spent(x, at, busy, k) \in Nat

LEMMA SpentGrows ==
    ASSUME NEW x, ContentionGiven(x), NEW n, NEW at, NEW p, NEW q, Timeline(x, n, at, p, q),
           NEW busy, {} \notin busy, NEW k \in 1..n
    PROVE  SpentRule(x, n, at, p, q, busy, k)
<1>1. /\ n \in Nat /\ \A j \in 1..n : at[j] \in Int
      /\ \A i, j \in 1..n : i <= j => at[i] <= at[j]
  BY DEF Timeline
<1>2. /\ IsFiniteSet(Instants(x)) /\ Instants(x) \subseteq Int
      /\ \A u \in Instants(x) : at[1] <= u
      /\ \A u \in Int : OpenAt(x, u) # {} => u \in Instants(x)
  BY InstantsAre
<1>a. PICK I, S : I = Instants(x) /\ S = {u \in I : u < at[k] /\ OpenAt(x, u) \in busy}
  OBVIOUS
<1>3. IsFiniteSet(S) /\ Spent(x, at, busy, k) = Cardinality(S) /\ Cardinality(S) \in Nat
  <2>1. S \in SUBSET I
    BY <1>a
  <2>2. IsFiniteSet(S)
    BY <1>2, <1>a, <2>1, FS_Subset
  <2> QED
    BY <1>a, <2>2, FS_CardinalityType DEF Spent
<1>4. ASSUME k = 1
      PROVE  Spent(x, at, busy, k) = 0
  <2>1. \A u \in I : u \in Int /\ at[k] \in Int /\ at[k] <= u
    BY <1>1, <1>2, <1>4, <1>a
  <2>2. \A u \in I : ~(u < at[k])
    BY <2>1
  <2>3. S = {}
    BY <1>a, <2>2
  <2> QED
    BY <1>3, <2>3, FS_EmptySet
<1>5. ASSUME k > 1
      PROVE  Spent(x, at, busy, k) =
                Spent(x, at, busy, k - 1) + (IF Live(x, p, q, k - 1) \in busy THEN at[k] - at[k - 1] ELSE 0)
  <2>b. PICK L, s, t : s = at[k - 1] /\ t = at[k] /\ L = Live(x, p, q, k - 1)
    OBVIOUS
  <2>c. PICK A, B : /\ A = {u \in I : u < s /\ OpenAt(x, u) \in busy}
                    /\ B = {u \in I : s <= u /\ u < t /\ OpenAt(x, u) \in busy}
    OBVIOUS
  <2>1. k - 1 \in 1..n /\ k - 1 < n /\ (k - 1) + 1 = k
    BY <1>1, <1>5
  <2>2. s \in Int /\ t \in Int /\ s <= t
    BY <1>1, <2>1, <2>b, <2>c
  <2>3. ASSUME NEW u \in Int, s <= u, u < t
        PROVE  OpenAt(x, u) = L
    <3>1. at[k - 1] <= u /\ (k - 1 < n => u < at[(k - 1) + 1])
      BY <2>1, <2>3, <2>b, <2>c
    <3>2. OpenAt(x, u) = IF k - 1 = n THEN {} ELSE Live(x, p, q, k - 1)
      BY <2>1, <3>1, LiveIs
    <3> QED
      BY <2>1, <2>b, <2>c, <3>2
  <2>4. A \cap B = {} /\ S = A \union B
    <3>1. \A u \in I : u \in Int
      BY <1>2, <1>a
    <3>2. \A u \in I : (u < t <=> u < s \/ (s <= u /\ u < t)) /\ ~(u < s /\ s <= u)
      BY <2>2, <3>1
    <3> QED
      BY <1>a, <2>b, <2>c, <3>2
  <2>5. IsFiniteSet(A) /\ IsFiniteSet(B)
    <3>1. A \in SUBSET S /\ B \in SUBSET S
      BY <2>4
    <3> QED
      BY <1>3, <3>1, FS_Subset
  <2>6. Cardinality(S) = Cardinality(A) + Cardinality(B)
    <3>1. Cardinality(A \union B) = Cardinality(A) + Cardinality(B) - Cardinality(A \cap B)
      BY <2>5, FS_Union
    <3>2. Cardinality(A \cap B) = 0
      BY <2>4, FS_EmptySet
    <3>3. Cardinality(A) \in Nat /\ Cardinality(B) \in Nat
      BY <2>5, FS_CardinalityType
    <3> QED
      BY <2>4, <3>1, <3>2, <3>3
  <2>7. Cardinality(B) = IF L \in busy THEN t - s ELSE 0
    <3>1. CASE L \in busy
      <4>1. B = s..(t - 1)
        <5>1. \A u \in B : u \in s..(t - 1)
          BY <1>2, <1>a, <2>2, <2>b, <2>c
        <5>2. ASSUME NEW u \in s..(t - 1)
              PROVE  u \in B
          <6>1. u \in Int /\ s <= u /\ u < t
            BY <2>2
          <6>2. OpenAt(x, u) \in busy
            BY <2>3, <3>1, <6>1
          <6>3. u \in I
            BY <1>2, <1>a, <6>1, <6>2
          <6> QED
            BY <2>b, <2>c, <6>1, <6>2, <6>3
        <5> QED
          BY <5>1, <5>2
      <4>2. s \in Int /\ t - 1 \in Int
        BY <2>2
      <4>3. Cardinality(s..(t - 1)) = IF s > t - 1 THEN 0 ELSE (t - 1) - s + 1
        BY <4>2, FS_Interval, Zenon
      <4>4. Cardinality(s..(t - 1)) = t - s
        BY <2>2, <4>3
      <4> QED
        BY <3>1, <4>1, <4>4
    <3>2. CASE L \notin busy
      <4>1. B = {}
        <5>1. ASSUME NEW u \in B
              PROVE  FALSE
          <6>1. u \in Int /\ s <= u /\ u < t /\ OpenAt(x, u) \in busy
            BY <1>2, <1>a, <2>b, <2>c
          <6> QED
            BY <2>3, <3>2, <6>1
        <5> QED
          BY <5>1
      <4> QED
        BY <3>2, <4>1, FS_EmptySet
    <3> QED
      BY <3>1, <3>2
  <2>8. Spent(x, at, busy, k - 1) = Cardinality(A)
    BY <1>a, <2>b, <2>c DEF Spent
  <2> QED
    BY <1>3, <2>6, <2>7, <2>8, <2>b, <2>c
<1>6. ASSUME k = n
      PROVE  Spent(x, at, busy, k) = Cardinality({u \in Instants(x) : OpenAt(x, u) \in busy})
  <2>1. ASSUME NEW u \in I, OpenAt(x, u) \in busy
        PROVE  u < at[k]
    <3>1. u \in Int /\ at[k] \in Int
      BY <1>1, <1>2, <1>a
    <3> SUFFICES ASSUME at[k] <= u
                 PROVE  FALSE
      BY <3>1
    <3>2. k < n => u < at[k + 1]
      BY <1>1, <1>6
    <3>3. OpenAt(x, u) = IF k = n THEN {} ELSE Live(x, p, q, k)
      BY <3>1, <3>2, LiveIs
    <3> QED
      BY <1>6, <2>1, <3>3
  <2>2. S = {u \in Instants(x) : OpenAt(x, u) \in busy}
    BY <1>a, <2>1
  <2> QED
    BY <1>3, <2>2
<1> QED
  BY <1>3, <1>4, <1>5, <1>6 DEF SpentRule

Swept(C) ==
    [last : Int, open : Int, byInst : [C -> Int], most : Int, any : Int, two : Int, three : Int, same : Int]

(* One step of the sweep, with its bookkeeping spelled out.                 *)
LEMMA SweepIs ==
    ASSUME NEW C, NEW acc \in Swept(C), NEW e, e.at \in Int, e.delta \in Int, e.inst \in C,
           NEW span, span = IF acc.open > 0 THEN e.at - acc.last ELSE 0
    PROVE  /\ Sweep(acc, e) \in Swept(C)
           /\ Sweep(acc, e).last = e.at
           /\ Sweep(acc, e).open = acc.open + e.delta
           /\ \A c \in C : Sweep(acc, e).byInst[c] = acc.byInst[c] + (IF c = e.inst THEN e.delta ELSE 0)
           /\ Sweep(acc, e).most = IF acc.most >= acc.open + e.delta THEN acc.most ELSE acc.open + e.delta
           /\ Sweep(acc, e).any = acc.any + span
           /\ Sweep(acc, e).two = acc.two + (IF acc.open >= 2 THEN span ELSE 0)
           /\ Sweep(acc, e).three = acc.three + (IF acc.open >= 3 THEN span ELSE 0)
           /\ Sweep(acc, e).same = acc.same + (IF \E c \in C : acc.byInst[c] >= 2 THEN span ELSE 0)
<1>1. /\ acc.last \in Int /\ acc.open \in Int /\ acc.byInst \in [C -> Int] /\ acc.most \in Int
      /\ acc.any \in Int /\ acc.two \in Int /\ acc.three \in Int /\ acc.same \in Int
  BY DEF Swept
<1>2. span \in Int
  BY <1>1
<1>a. PICK o, m, by, f, g, h : /\ o = acc.open + e.delta
                               /\ m = Max({acc.most, o})
                               /\ by = [acc.byInst EXCEPT ![e.inst] = @ + e.delta]
                               /\ f = (IF acc.open >= 2 THEN span ELSE 0)
                               /\ g = (IF acc.open >= 3 THEN span ELSE 0)
                               /\ h = (IF \E c \in C : acc.byInst[c] >= 2 THEN span ELSE 0)
  OBVIOUS
<1>3. o \in Int /\ f \in Int /\ g \in Int /\ h \in Int
  BY <1>1, <1>2, <1>a
<1>4. m = IF acc.most >= o THEN acc.most ELSE o
  BY <1>1, <1>3, <1>a, MaxOfTwo
<1>5. m \in Int
  BY <1>1, <1>3, <1>4
<1>6. by \in [C -> Int] /\ \A c \in C : by[c] = acc.byInst[c] + (IF c = e.inst THEN e.delta ELSE 0)
  <2>1. \A c \in C : acc.byInst[c] \in Int
    BY <1>1
  <2>2. by = [c \in C |-> IF c = e.inst THEN acc.byInst[c] + e.delta ELSE acc.byInst[c]]
    BY <1>1, <1>a
  <2> QED
    BY <2>1, <2>2
<1>7. Sweep(acc, e) = [last |-> e.at, open |-> o, byInst |-> by, most |-> m, any |-> acc.any + span,
                       two |-> acc.two + f, three |-> acc.three + g, same |-> acc.same + h]
  <2>1. DOMAIN acc.byInst = C
    BY <1>1
  <2> QED
    BY <1>a, <2>1 DEF Sweep
<1>8. acc.any + span \in Int /\ acc.two + f \in Int /\ acc.three + g \in Int /\ acc.same + h \in Int
  BY <1>1, <1>2, <1>3
<1>9. Sweep(acc, e) \in Swept(C)
  BY <1>3, <1>5, <1>6, <1>7, <1>8 DEF Swept
<1> QED
  BY <1>4, <1>6, <1>7, <1>9, <1>a

SweepSteps(h, ev, C) ==
    /\ h[0] = [last |-> 0, open |-> 0, byInst |-> [i \in C |-> 0], most |-> 0,
               any |-> 0, two |-> 0, three |-> 0, same |-> 0]
    /\ \A k \in 0..Len(ev) : h[k] \in Swept(C)
    /\ \A k \in 1..Len(ev) : h[k] = Sweep(h[k - 1], ev[k])

LEMMA ContentionIsSteps ==
    ASSUME NEW x, NEW C, NEW ev, ev = Events(x), ListOf(ev),
           \A k \in DOMAIN ev : ev[k].at \in Int /\ ev[k].delta \in Int /\ ev[k].inst \in C
    PROVE  \E h : SweepSteps(h, ev, C) /\ Contention(x, C) = h[Len(ev)]
<1> DEFINE n == Len(ev)
           V == Swept(C)
           b == [last |-> 0, open |-> 0, byInst |-> [i \in C |-> 0], most |-> 0,
                any |-> 0, two |-> 0, three |-> 0, same |-> 0]
           Is(it) == it = [U \in SUBSET DOMAIN ev |->
                              IF U = {} THEN b ELSE Sweep(it[U \ {Max(U)}], ev[Max(U)])]
           iter == CHOOSE it : Is(it)
<1>1. Contention(x, C) = iter[DOMAIN ev]
  BY DEF Contention, FoldLeft, MapThenFoldSet
<1>2. n \in Nat /\ DOMAIN ev = 1..n
  BY DEF ListOf
<1>3. b \in V
  BY DEF Swept
<1> DEFINE step == [p \in (1..n) \X V |-> Sweep(p[2], ev[p[1]])]
<1>4. step \in [(1..n) \X V -> V]
  <2> SUFFICES ASSUME NEW k \in 1..n, NEW v \in V
               PROVE  Sweep(v, ev[k]) \in V
    OBVIOUS
  <2> QED
    BY <1>2, SweepIs
<1>5. PICK it : Folds(it, V, b, n, step)
  <2> HIDE DEF V, b, step, n
  <2> QED
    BY <1>2, <1>3, <1>4, FoldExists
<1>6. \A U \in SUBSET DOMAIN ev :
        it[U] = IF U = {} THEN b ELSE Sweep(it[U \ {Max(U)}], ev[Max(U)])
  <2> SUFFICES ASSUME NEW U \in SUBSET (1..n)
               PROVE  it[U] = IF U = {} THEN b ELSE Sweep(it[U \ {Max(U)}], ev[Max(U)])
    BY <1>2
  <2>1. it[U] \in V /\ it[U \ {Max(U)}] \in V
    BY <1>5 DEF Folds
  <2>2. CASE U = {}
    BY <1>5, <2>1, <2>2 DEF Folds
  <2>3. CASE U # {}
    <3>1. Max(U) \in 1..n /\ it[U] = step[<<Max(U), it[U \ {Max(U)}]>>]
      BY <1>5, <2>3 DEF Folds
    <3> QED
      BY <2>1, <2>3, <3>1
  <2> QED
    BY <2>2, <2>3
<1>7. Is(it)
  <2>1. it \in [SUBSET DOMAIN ev -> V]
    BY <1>2, <1>5 DEF Folds
  <2> HIDE DEF b, V
  <2> QED
    BY <1>6, <2>1
<1>8. Is(iter)
  <2> HIDE DEF Is
  <2> QED
    BY <1>7
<1>9. ASSUME NEW U \in SUBSET (1..n)
      PROVE  iter[U] = IF U = {} THEN b ELSE Sweep(iter[U \ {Max(U)}], ev[Max(U)])
  BY <1>2, <1>8
<1> PICK h : h = [k \in 0..n |-> iter[1..k]]
  OBVIOUS
<1>10. h[0] = b
  <2>1. 1..0 = {} /\ {} \in SUBSET (1..n) /\ 0 \in 0..n
    BY <1>2
  <2> QED
    BY <1>9, <2>1
<1>11. ASSUME NEW k \in 1..n
       PROVE  h[k] = Sweep(h[k - 1], ev[k])
  <2>1. 1..k \in SUBSET (1..n) /\ 1..k # {} /\ k \in Nat \ {0} /\ k \in 0..n /\ k - 1 \in 0..n
    BY <1>2
  <2>2. Max(1..k) = k /\ (1..k) \ {Max(1..k)} = 1..(k - 1)
    BY <2>1, LastOfInterval
  <2>3. iter[1..k] = Sweep(iter[1..(k - 1)], ev[k])
    BY <1>9, <2>1, <2>2
  <2>4. h[k] = iter[1..k] /\ h[k - 1] = iter[1..(k - 1)]
    BY <2>1
  <2> QED
    BY <2>3, <2>4
<1>12. \A k \in 0..n : h[k] \in V
  <2> DEFINE Bad == {k \in 0..n : h[k] \notin V}
  <2> SUFFICES ASSUME Bad # {}
               PROVE  FALSE
    OBVIOUS
  <2>1. PICK k \in Bad : \A j \in Bad : k <= j
    <3>1. Bad \in SUBSET Nat
      BY <1>2
    <3> HIDE DEF Bad
    <3> QED
      BY <3>1, LeastNumber
  <2>2. k \in 0..n /\ h[k] \notin V
    BY <2>1
  <2>3. k # 0
    BY <1>3, <1>10, <2>2
  <2>4. k \in 1..n /\ h[k - 1] \in V
    <3>1. k \in 1..n /\ k - 1 \in 0..n /\ ~(k <= k - 1)
      BY <1>2, <2>2, <2>3
    <3> HIDE DEF V
    <3> QED
      BY <2>1, <3>1
  <2>5. h[k] \in V
    <3>1. Sweep(h[k - 1], ev[k]) \in V
      BY <1>2, <2>4, SweepIs
    <3> QED
      BY <1>11, <2>4, <3>1
  <2> QED
    BY <2>2, <2>5
<1>13. h[n] = iter[DOMAIN ev]
  BY <1>2
<1> HIDE DEF iter
<1> QED
  BY <1>1, <1>10, <1>11, <1>12, <1>13 DEF SweepSteps

LEMMA PairOf ==
    ASSUME NEW S, IsFiniteSet(S)
    PROVE  Cardinality(S) >= 2 <=> \E i, j \in S : i # j
<1>1. Cardinality(S) \in Nat
  BY FS_CardinalityType
<1>2. ASSUME NEW i \in S, NEW j \in S, i # j
      PROVE  Cardinality(S) >= 2
  <2>1. IsFiniteSet({i}) /\ Cardinality({i}) = 1
    BY FS_Singleton
  <2>2. Cardinality({i} \union {j}) = IF j \in {i} THEN Cardinality({i}) ELSE Cardinality({i}) + 1
    BY <2>1, FS_AddElement, Zenon
  <2>3. Cardinality({i} \union {j}) = 2
    BY <1>2, <2>1, <2>2
  <2>4. {i} \union {j} \in SUBSET S
    OBVIOUS
  <2>5. Cardinality({i} \union {j}) <= Cardinality(S)
    BY <2>4, FS_Subset, Zenon
  <2> QED
    BY <1>1, <2>3, <2>5
<1>3. ASSUME Cardinality(S) >= 2, \A i, j \in S : i = j
      PROVE  FALSE
  <2>1. S # {}
    <3>1. Cardinality({}) = 0
      BY FS_EmptySet
    <3> QED
      BY <1>3, <3>1
  <2>2. PICK i : S = {i}
    BY <1>3, <2>1
  <2>3. Cardinality({i}) = 1
    BY FS_Singleton
  <2> QED
    BY <1>3, <2>2, <2>3
<1> QED
  BY <1>2, <1>3

HoldingAt(x, L, c) == {i \in L : x[i].inst = c}

LEMMA RivalsCount ==
    ASSUME NEW x, NEW C, NEW L, IsFiniteSet(L), \A i \in L : x[i].inst \in C
    PROVE  /\ (\E c \in C : Cardinality(HoldingAt(x, L, c)) >= 2) <=> Rivals(x, L)
           /\ Rivals(x, L) => Cardinality(L) >= 2
<1>1. \A c \in C : IsFiniteSet(HoldingAt(x, L, c))
  <2> SUFFICES ASSUME NEW c \in C
               PROVE  IsFiniteSet(HoldingAt(x, L, c))
    OBVIOUS
  <2>1. HoldingAt(x, L, c) \in SUBSET L
    BY DEF HoldingAt
  <2> QED
    BY <2>1, FS_Subset
<1>2. \A c \in C : Cardinality(HoldingAt(x, L, c)) >= 2 <=> \E i, j \in HoldingAt(x, L, c) : i # j
  BY <1>1, PairOf
<1>3. (\E c \in C : \E i, j \in HoldingAt(x, L, c) : i # j) <=> Rivals(x, L)
  BY DEF HoldingAt, Rivals
<1>4. Rivals(x, L) => Cardinality(L) >= 2
  <2>1. Rivals(x, L) => \E i, j \in L : i # j
    BY DEF Rivals
  <2> QED
    BY <2>1, PairOf
<1> QED
  BY <1>2, <1>3, <1>4

(* What the sweep knows after k events.                                     *)
Crowd(x, n) == {L \in SUBSET Real(x) : Cardinality(L) >= n}
Clash(x) == {L \in SUBSET Real(x) : Rivals(x, L)}
SpentSo(x, at, busy, k) == IF k = 0 THEN 0 ELSE Spent(x, at, busy, k)

SweepInv(acc, x, C, at, p, q, k) ==
    /\ k > 0 => acc.last = at[k]
    /\ acc.open = Cardinality(Live(x, p, q, k))
    /\ \A c \in C : acc.byInst[c] = Cardinality(HoldingAt(x, Live(x, p, q, k), c))
    /\ acc.any = SpentSo(x, at, Crowd(x, 1), k)
    /\ acc.two = SpentSo(x, at, Crowd(x, 2), k)
    /\ acc.three = SpentSo(x, at, Crowd(x, 3), k)
    /\ acc.same = SpentSo(x, at, Clash(x), k)
    /\ \A j \in 0..k : Cardinality(Live(x, p, q, j)) <= acc.most
    /\ \E j \in 0..k : acc.most = Cardinality(Live(x, p, q, j))

LEMMA LiveCounts ==
    ASSUME NEW x, ContentionGiven(x), NEW p, NEW q, NEW k
    PROVE  /\ Live(x, p, q, k) \in SUBSET Real(x)
           /\ IsFiniteSet(Live(x, p, q, k)) /\ Cardinality(Live(x, p, q, k)) \in Nat
<1>1. Live(x, p, q, k) \in SUBSET Real(x)
  BY DEF Live
<1>2. IsFiniteSet(Live(x, p, q, k))
  BY <1>1, RealTrades, FS_Subset
<1> QED
  BY <1>1, <1>2, FS_CardinalityType

(* A set with one more, and a set with one less, and their shares of c.     *)
Change(c, inst, d) == IF c = inst THEN d ELSE 0

HoldingMoves(x, L, i, c) ==
    /\ i \notin L => Cardinality(HoldingAt(x, L \union {i}, c)) =
                       Cardinality(HoldingAt(x, L, c)) + Change(c, x[i].inst, 1)
    /\ i \in L => Cardinality(HoldingAt(x, L \ {i}, c)) =
                     Cardinality(HoldingAt(x, L, c)) + Change(c, x[i].inst, -1)

LEMMA MovesCount ==
    ASSUME NEW x, NEW L, IsFiniteSet(L), NEW i, NEW c
    PROVE  /\ i \notin L => Cardinality(L \union {i}) = Cardinality(L) + 1
           /\ i \in L => Cardinality(L \ {i}) = Cardinality(L) - 1
           /\ HoldingMoves(x, L, i, c)
<1>a. PICK H : H = HoldingAt(x, L, c)
  OBVIOUS
<1>1. IsFiniteSet(H) /\ Cardinality(H) \in Nat
  <2>1. H \in SUBSET L
    BY <1>a DEF HoldingAt
  <2>2. IsFiniteSet(H)
    BY <2>1, FS_Subset
  <2> QED
    BY <2>2, FS_CardinalityType
<1>2. ASSUME i \notin L
      PROVE  /\ Cardinality(L \union {i}) = Cardinality(L) + 1
             /\ Cardinality(HoldingAt(x, L \union {i}, c)) = Cardinality(H) + (IF c = x[i].inst THEN 1 ELSE 0)
  <2>1. Cardinality(L \union {i}) = IF i \in L THEN Cardinality(L) ELSE Cardinality(L) + 1
    BY FS_AddElement, Zenon
  <2>2. Cardinality(H \union {i}) = IF i \in H THEN Cardinality(H) ELSE Cardinality(H) + 1
    BY <1>1, FS_AddElement, Zenon
  <2>3. i \notin H
    BY <1>2, <1>a DEF HoldingAt
  <2>4. HoldingAt(x, L \union {i}, c) = IF c = x[i].inst THEN H \union {i} ELSE H
    BY <1>2, <1>a DEF HoldingAt
  <2> QED
    BY <1>1, <1>2, <2>1, <2>2, <2>3, <2>4
<1>3. ASSUME i \in L
      PROVE  /\ Cardinality(L \ {i}) = Cardinality(L) - 1
             /\ Cardinality(HoldingAt(x, L \ {i}, c)) = Cardinality(H) + (IF c = x[i].inst THEN -1 ELSE 0)
  <2>1. Cardinality(L \ {i}) = IF i \in L THEN Cardinality(L) - 1 ELSE Cardinality(L)
    BY FS_RemoveElement, Zenon
  <2>2. Cardinality(H \ {i}) = IF i \in H THEN Cardinality(H) - 1 ELSE Cardinality(H)
    BY <1>1, FS_RemoveElement, Zenon
  <2>3. HoldingAt(x, L \ {i}, c) = H \ {i}
    BY <1>a DEF HoldingAt
  <2>4. i \in H <=> c = x[i].inst
    BY <1>3, <1>a DEF HoldingAt
  <2>5. Cardinality(H \ {i}) = Cardinality(H) + (IF c = x[i].inst THEN -1 ELSE 0)
    BY <1>1, <2>2, <2>4
  <2> QED
    BY <1>3, <2>1, <2>3, <2>5
<1> QED
  BY <1>2, <1>3, <1>a DEF HoldingMoves, Change

(* The span of a step is time spent with what was open.                     *)
LEMMA SpanCounts ==
    ASSUME NEW x, ContentionGiven(x), NEW n, NEW at, NEW p, NEW q, Timeline(x, n, at, p, q),
           NEW busy, {} \notin busy, NEW k \in 1..n, NEW open, open = Cardinality(Live(x, p, q, k - 1)),
           NEW span, span = IF open > 0 THEN at[k] - at[k - 1] ELSE 0
    PROVE  SpentSo(x, at, busy, k) =
             SpentSo(x, at, busy, k - 1) + (IF Live(x, p, q, k - 1) \in busy THEN span ELSE 0)
<1>1. n \in Nat /\ \A i \in Real(x) : p[i] \in 1..n
  BY DEF Timeline
<1>2. /\ k = 1 => Spent(x, at, busy, k) = 0
      /\ k > 1 => Spent(x, at, busy, k) =
           Spent(x, at, busy, k - 1) + (IF Live(x, p, q, k - 1) \in busy THEN at[k] - at[k - 1] ELSE 0)
  <2>1. SpentRule(x, n, at, p, q, busy, k)
    BY SpentGrows
  <2> QED
    BY <2>1 DEF SpentRule
<1>3. Live(x, p, q, k - 1) \in busy => open > 0
  <2>1. IsFiniteSet(Live(x, p, q, k - 1)) /\ open \in Nat
    BY LiveCounts
  <2>2. open = 0 => Live(x, p, q, k - 1) = {}
    BY <2>1, FS_EmptySet
  <2> QED
    BY <2>1, <2>2
<1>4. CASE k = 1
  <2>1. Live(x, p, q, 0) = {}
    <3>1. \A i \in Real(x) : ~(p[i] <= 0)
      BY <1>1
    <3> QED
      BY <3>1 DEF Live
  <2>2. k - 1 = 0
    BY <1>4
  <2>3. Live(x, p, q, k - 1) = {}
    BY <2>1, <2>2
  <2> QED
    BY <1>2, <1>4, <2>2, <2>3 DEF SpentSo
<1>5. CASE k > 1
  <2>1. k # 0 /\ k - 1 # 0
    BY <1>1, <1>5
  <2> QED
    BY <1>2, <1>3, <1>5, <2>1 DEF SpentSo
<1> QED
  BY <1>1, <1>4, <1>5

LEMMA SweepKeeps ==
    ASSUME NEW x, ContentionGiven(x), NEW C, \A i \in Real(x) : x[i].inst \in C,
           NEW n, NEW at, NEW p, NEW q, Timeline(x, n, at, p, q), NEW k \in 1..n,
           NEW e, \E i \in Real(x) : (k = p[i] /\ e = Opens(x, i)) \/ (k = q[i] /\ e = Closes(x, i)),
           NEW acc \in Swept(C), SweepInv(acc, x, C, at, p, q, k - 1),
           NEW next, next = Sweep(acc, e)
    PROVE  SweepInv(next, x, C, at, p, q, k)
<1>a. PICK L, M : L = Live(x, p, q, k - 1) /\ M = Live(x, p, q, k)
  OBVIOUS
<1>1. /\ n \in Nat /\ \A j \in 1..n : at[j] \in Int
      /\ \A i \in Real(x) : p[i] \in 1..n /\ q[i] \in 1..n
      /\ \A i \in Real(x) : at[p[i]] = x[i].entry /\ at[q[i]] = x[i].exit
  BY DEF Timeline
<1>2. /\ L \in SUBSET Real(x) /\ IsFiniteSet(L) /\ Cardinality(L) \in Nat
      /\ M \in SUBSET Real(x) /\ IsFiniteSet(M) /\ Cardinality(M) \in Nat
  BY <1>a, LiveCounts
<1>b. PICK i \in Real(x) : (k = p[i] /\ e = Opens(x, i)) \/ (k = q[i] /\ e = Closes(x, i))
  OBVIOUS
<1>3. e.at = at[k] /\ e.delta \in Int /\ e.inst = x[i].inst /\ e.inst \in C /\ e.at \in Int
  <2>1. e.at = at[k] /\ e.delta \in Int /\ e.inst = x[i].inst
    BY <1>1, <1>b DEF Opens, Closes
  <2> QED
    BY <1>1, <2>1
<1>4. /\ i \notin Live(x, p, q, p[i] - 1) /\ Live(x, p, q, p[i]) = Live(x, p, q, p[i] - 1) \union {i}
      /\ i \in Live(x, p, q, q[i] - 1) /\ Live(x, p, q, q[i]) = Live(x, p, q, q[i] - 1) \ {i}
  BY LiveMoves
<1>5. \/ i \notin L /\ M = L \union {i} /\ e.delta = 1
      \/ i \in L /\ M = L \ {i} /\ e.delta = -1
  <2>1. CASE k = p[i] /\ e = Opens(x, i)
    <3>1. i \notin L /\ M = L \union {i}
      BY <1>4, <1>a, <2>1
    <3>2. e.delta = 1
      BY <2>1 DEF Opens
    <3> QED
      BY <3>1, <3>2
  <2>2. CASE k = q[i] /\ e = Closes(x, i)
    <3>1. i \in L /\ M = L \ {i}
      BY <1>4, <1>a, <2>2
    <3>2. e.delta = -1
      BY <2>2 DEF Closes
    <3> QED
      BY <3>1, <3>2
  <2> QED
    BY <1>b, <2>1, <2>2
<1>6. /\ k - 1 > 0 => acc.last = at[k - 1]
      /\ acc.open = Cardinality(L)
      /\ \A c \in C : acc.byInst[c] = Cardinality(HoldingAt(x, L, c))
  BY <1>a DEF SweepInv
<1>c. PICK span : span = IF acc.open > 0 THEN e.at - acc.last ELSE 0
  OBVIOUS
<1>7. /\ next.last = e.at
      /\ next.open = acc.open + e.delta
      /\ \A c \in C : next.byInst[c] = acc.byInst[c] + (IF c = e.inst THEN e.delta ELSE 0)
      /\ next.most = IF acc.most >= acc.open + e.delta THEN acc.most ELSE acc.open + e.delta
      /\ next.any = acc.any + span
      /\ next.two = acc.two + (IF acc.open >= 2 THEN span ELSE 0)
      /\ next.three = acc.three + (IF acc.open >= 3 THEN span ELSE 0)
      /\ next.same = acc.same + (IF \E c \in C : acc.byInst[c] >= 2 THEN span ELSE 0)
  BY <1>3, <1>c, SweepIs
<1>8. next.open = Cardinality(M)
  <2>1. (i \notin L => Cardinality(L \union {i}) = Cardinality(L) + 1) /\ (i \in L => Cardinality(L \ {i}) = Cardinality(L) - 1)
    BY <1>2, MovesCount
  <2>2. next.open = Cardinality(L) + e.delta
    BY <1>6, <1>7
  <2> QED
    BY <1>2, <1>5, <2>1, <2>2
<1>9. \A c \in C : next.byInst[c] = Cardinality(HoldingAt(x, M, c))
  <2> SUFFICES ASSUME NEW c \in C
               PROVE  next.byInst[c] = Cardinality(HoldingAt(x, M, c))
    OBVIOUS
  <2>a. PICK a, b : a = Cardinality(HoldingAt(x, L, c)) /\ b = Cardinality(HoldingAt(x, M, c))
    OBVIOUS
  <2>1. /\ i \notin L => Cardinality(HoldingAt(x, L \union {i}, c)) = a + (IF c = x[i].inst THEN 1 ELSE 0)
        /\ i \in L => Cardinality(HoldingAt(x, L \ {i}, c)) = a + (IF c = x[i].inst THEN -1 ELSE 0)
    <3>1. HoldingMoves(x, L, i, c)
      BY <1>2, MovesCount
    <3> QED
      BY <2>a, <3>1 DEF HoldingMoves, Change
  <2>2. next.byInst[c] = a + (IF c = x[i].inst THEN e.delta ELSE 0)
    BY <1>3, <1>6, <1>7, <2>a
  <2>3. b = a + (IF c = x[i].inst THEN e.delta ELSE 0)
    BY <1>5, <2>1, <2>a
  <2> QED
    BY <2>2, <2>3, <2>a
<1>10. acc.open = 0 => L = {}
  BY <1>2, <1>6, FS_EmptySet
<1>11. ASSUME NEW busy, {} \notin busy
       PROVE  SpentSo(x, at, busy, k) = SpentSo(x, at, busy, k - 1) + (IF L \in busy THEN span ELSE 0)
  <2>1. CASE k = 1
    <3>1. L = {}
      <4>1. \A j \in Real(x) : ~(p[j] <= 0)
        BY <1>1
      <4>2. k - 1 = 0
        BY <2>1
      <4> QED
        BY <1>a, <4>1, <4>2 DEF Live
    <3>2. SpentRule(x, n, at, p, q, busy, k)
      BY <1>11, SpentGrows
    <3>3. SpentSo(x, at, busy, k) = 0 /\ SpentSo(x, at, busy, k - 1) = 0
      BY <2>1, <3>2 DEF SpentRule, SpentSo
    <3> QED
      BY <1>11, <3>1, <3>3
  <2>2. CASE k > 1
    <3>1. acc.last = at[k - 1]
      BY <1>6, <2>2
    <3>2. span = IF acc.open > 0 THEN at[k] - at[k - 1] ELSE 0
      BY <1>3, <1>c, <3>1
    <3> QED
      BY <1>11, <1>6, <1>a, <3>2, SpanCounts
  <2> QED
    BY <1>1, <2>1, <2>2
<1>12. Cardinality({}) = 0
  BY FS_EmptySet
<1>13. /\ next.any = SpentSo(x, at, Crowd(x, 1), k)
       /\ next.two = SpentSo(x, at, Crowd(x, 2), k)
       /\ next.three = SpentSo(x, at, Crowd(x, 3), k)
  <2>1. ASSUME NEW m \in {1, 2, 3}
        PROVE  {} \notin Crowd(x, m) /\ (L \in Crowd(x, m) <=> acc.open >= m)
    BY <1>2, <1>6, <1>12 DEF Crowd
  <2>2. \A m \in {1, 2, 3} : SpentSo(x, at, Crowd(x, m), k)
            = SpentSo(x, at, Crowd(x, m), k - 1) + (IF acc.open >= m THEN span ELSE 0)
    BY <1>11, <2>1
  <2>3. /\ acc.any = SpentSo(x, at, Crowd(x, 1), k - 1)
        /\ acc.two = SpentSo(x, at, Crowd(x, 2), k - 1)
        /\ acc.three = SpentSo(x, at, Crowd(x, 3), k - 1)
    BY DEF SweepInv
  <2>4. acc.any + span = acc.any + (IF acc.open >= 1 THEN span ELSE 0)
    BY <1>2, <1>6, <1>c
  <2> QED
    BY <1>7, <2>2, <2>3, <2>4
<1>14. next.same = SpentSo(x, at, Clash(x), k)
  <2>1. {} \notin Clash(x) /\ (L \in Clash(x) <=> \E c \in C : acc.byInst[c] >= 2)
    <3>1. (\E c \in C : Cardinality(HoldingAt(x, L, c)) >= 2) <=> Rivals(x, L)
      BY <1>2, RivalsCount
    <3>2. {} \notin Clash(x)
      BY DEF Clash, Rivals
    <3> QED
      BY <1>2, <1>6, <3>1, <3>2 DEF Clash
  <2>2. SpentSo(x, at, Clash(x), k) = SpentSo(x, at, Clash(x), k - 1) + (IF L \in Clash(x) THEN span ELSE 0)
    BY <1>11, <2>1
  <2>3. acc.same = SpentSo(x, at, Clash(x), k - 1)
    BY DEF SweepInv
  <2> QED
    BY <1>7, <2>1, <2>2, <2>3
<1>15. acc.most \in Int /\ next.most = (IF acc.most >= Cardinality(M) THEN acc.most ELSE Cardinality(M))
  <2>1. acc.most \in Int
    BY DEF Swept
  <2> QED
    BY <1>7, <1>8, <2>1
<1>16. /\ \A j \in 0..(k - 1) : Cardinality(Live(x, p, q, j)) <= acc.most
       /\ \E j \in 0..(k - 1) : acc.most = Cardinality(Live(x, p, q, j))
  BY DEF SweepInv
<1>17. \A j \in 0..k : Cardinality(Live(x, p, q, j)) <= next.most
  <2> SUFFICES ASSUME NEW j \in 0..k
               PROVE  Cardinality(Live(x, p, q, j)) <= next.most
    OBVIOUS
  <2>1. CASE j = k
    BY <1>2, <1>15, <1>a, <2>1
  <2>2. CASE j \in 0..(k - 1)
    <3>1. Cardinality(Live(x, p, q, j)) <= acc.most
      BY <1>16, <2>2
    <3>2. Cardinality(Live(x, p, q, j)) \in Nat
      BY LiveCounts
    <3> QED
      BY <1>2, <1>15, <3>1, <3>2
  <2> QED
    BY <1>1, <2>1, <2>2
<1>18. \E j \in 0..k : next.most = Cardinality(Live(x, p, q, j))
  <2>1. CASE next.most = Cardinality(M)
    <3>1. k \in 0..k
      BY <1>1
    <3> QED
      BY <1>a, <2>1, <3>1
  <2>2. CASE next.most = acc.most
    <3>1. PICK j \in 0..(k - 1) : acc.most = Cardinality(Live(x, p, q, j))
      BY <1>16
    <3>2. j \in 0..k
      BY <1>1
    <3> QED
      BY <2>2, <3>1, <3>2
  <2> QED
    BY <1>15, <2>1, <2>2
<1>19. next.last = at[k]
  BY <1>3, <1>7
<1>20. next.open = Cardinality(Live(x, p, q, k)) /\ \A c \in C : next.byInst[c] = Cardinality(HoldingAt(x, Live(x, p, q, k), c))
  BY <1>8, <1>9, <1>a
<1> QED
  BY <1>13, <1>14, <1>17, <1>18, <1>19, <1>20 DEF SweepInv

LEMMA MostTouching ==
    ASSUME NEW x, ContentionGiven(x), NEW n, NEW at, NEW p, NEW q, Timeline(x, n, at, p, q),
           NEW most \in Int, \A j \in 0..n : Cardinality(Live(x, p, q, j)) <= most,
           \E j \in 0..n : most = Cardinality(Live(x, p, q, j))
    PROVE  most = Max({0} \union {Cardinality(Touching(x, u)) : u \in Instants(x)})
<1>a. PICK S : S = {0} \union {Cardinality(Touching(x, u)) : u \in Instants(x)}
  OBVIOUS
<1>1. /\ n \in Nat /\ \A j \in 1..n : at[j] \in Int
      /\ \A i \in Real(x) : p[i] \in 1..n /\ q[i] \in 1..n
      /\ \A i \in Real(x) : at[p[i]] = x[i].entry /\ at[q[i]] = x[i].exit
      /\ \A i, j \in 1..n : i <= j => at[i] <= at[j]
      /\ \A i, j \in Real(x) : x[i].entry <= x[j].exit => p[i] < q[j]
  BY DEF Timeline
<1>2. IsFiniteSet(Real(x)) /\ \A i \in Real(x) : x[i].entry \in Int /\ x[i].exit \in Int
  BY RealTrades
<1>3. Instants(x) \subseteq Int /\ \A k \in 1..n : at[k] \in Instants(x)
  BY InstantsAre
<1>4. \A u \in Int : IsFiniteSet(Touching(x, u)) /\ Cardinality(Touching(x, u)) \in Nat
  <2> SUFFICES ASSUME NEW u \in Int
               PROVE  IsFiniteSet(Touching(x, u)) /\ Cardinality(Touching(x, u)) \in Nat
    OBVIOUS
  <2>1. Touching(x, u) \in SUBSET Real(x)
    BY DEF Touching
  <2>2. IsFiniteSet(Touching(x, u))
    BY <1>2, <2>1, FS_Subset
  <2> QED
    BY <2>2, FS_CardinalityType
<1>5. \A j \in 0..n : IsFiniteSet(Live(x, p, q, j)) /\ Cardinality(Live(x, p, q, j)) \in Nat
  BY LiveCounts
<1>6. most \in Nat
  BY <1>5
<1>7. ASSUME NEW u \in Instants(x)
      PROVE  Cardinality(Touching(x, u)) <= most
  <2>a. PICK T, P : T = Touching(x, u) /\ P = {p[i] : i \in T}
    OBVIOUS
  <2>1. u \in Int /\ T \subseteq Real(x) /\ \A i \in T : x[i].entry <= u /\ u <= x[i].exit
    BY <1>3, <2>a DEF Touching
  <2>2. CASE T = {}
    <3>1. Cardinality(T) = 0
      BY <2>2, FS_EmptySet
    <3> QED
      BY <1>6, <2>a, <3>1
  <2>3. CASE T # {}
    <3>1. P \in SUBSET (1..n) /\ P # {}
      BY <1>1, <2>1, <2>3, <2>a
    <3>2. PICK j \in P : \A y \in P : y <= j
      BY <1>1, <3>1, GreatestNumber
    <3>3. PICK i \in T : j = p[i]
      BY <2>a, <3>2
    <3>4. ASSUME NEW y \in T
          PROVE  y \in Live(x, p, q, j)
      <4>1. y \in Real(x) /\ i \in Real(x) /\ x[i].entry <= u /\ u <= x[y].exit
        BY <2>1
      <4>2. x[i].entry <= x[y].exit
        BY <1>2, <2>1, <4>1
      <4>3. p[y] <= j /\ j < q[y]
        BY <1>1, <2>a, <3>2, <3>3, <4>1, <4>2
      <4> QED
        BY <4>1, <4>3 DEF Live
    <3>5. j \in 0..n
      BY <1>1, <3>1
    <3>6. IsFiniteSet(Live(x, p, q, j)) /\ Cardinality(Live(x, p, q, j)) \in Nat /\ Cardinality(Live(x, p, q, j)) <= most
      BY <1>5, <3>5
    <3>7. T \in SUBSET Live(x, p, q, j)
      BY <3>4
    <3>8. Cardinality(T) <= Cardinality(Live(x, p, q, j))
      BY <3>6, <3>7, FS_Subset, Zenon
    <3>9. Cardinality(T) \in Nat
      BY <1>4, <2>1, <2>a
    <3> QED
      BY <2>a, <3>6, <3>8, <3>9
  <2> QED
    BY <2>2, <2>3
<1>8. most \in S
  <2>1. PICK j \in 0..n : most = Cardinality(Live(x, p, q, j))
    OBVIOUS
  <2>2. CASE j = 0
    <3>1. Live(x, p, q, j) = {}
      <4>1. \A i \in Real(x) : ~(p[i] <= 0)
        BY <1>1
      <4> QED
        BY <2>2, <4>1 DEF Live
    <3>2. most = 0
      BY <2>1, <3>1, FS_EmptySet
    <3> QED
      BY <1>a, <3>2
  <2>3. CASE j \in 1..n
    <3>a. PICK u : u = at[j]
      OBVIOUS
    <3>1. u \in Instants(x) /\ u \in Int
      BY <1>1, <1>3, <2>3, <3>a
    <3>2. ASSUME NEW i \in Live(x, p, q, j)
          PROVE  i \in Touching(x, u)
      <4>1. i \in Real(x) /\ p[i] \in 1..n /\ q[i] \in 1..n /\ p[i] <= j /\ j <= q[i]
        BY <1>1, <2>3 DEF Live
      <4>2. at[p[i]] <= u /\ u <= at[q[i]]
        BY <1>1, <2>3, <3>a, <4>1
      <4>3. x[i].entry <= u /\ u <= x[i].exit
        BY <1>1, <4>1, <4>2
      <4> QED
        BY <4>1, <4>3 DEF Touching
    <3>3. Live(x, p, q, j) \in SUBSET Touching(x, u)
      BY <3>2
    <3>4. IsFiniteSet(Touching(x, u)) /\ Cardinality(Touching(x, u)) \in Nat
      BY <1>4, <3>1
    <3>5. Cardinality(Live(x, p, q, j)) <= Cardinality(Touching(x, u))
      BY <3>3, <3>4, FS_Subset, Zenon
    <3>6. Cardinality(Touching(x, u)) <= most
      BY <1>7, <3>1
    <3>7. most = Cardinality(Touching(x, u))
      BY <1>6, <2>1, <3>4, <3>5, <3>6
    <3> QED
      BY <1>a, <3>1, <3>7
  <2> QED
    BY <1>1, <2>2, <2>3
<1>9. S \in SUBSET Int /\ \A y \in S : y <= most
  BY <1>3, <1>4, <1>6, <1>7, <1>a
<1>10. Max(S) = most
  BY <1>8, <1>9, MaxIs
<1> QED
  BY <1>10, <1>a


LEMMA SweepStarts ==
    ASSUME NEW x, ContentionGiven(x), NEW C, \A i \in Real(x) : x[i].inst \in C,
           NEW n, NEW at, NEW p, NEW q, Timeline(x, n, at, p, q),
           NEW acc, acc = [last |-> 0, open |-> 0, byInst |-> [i \in C |-> 0], most |-> 0,
                           any |-> 0, two |-> 0, three |-> 0, same |-> 0]
    PROVE  SweepInv(acc, x, C, at, p, q, 0)
<1>1. n \in Nat /\ \A i \in Real(x) : p[i] \in 1..n
  BY DEF Timeline
<1>2. Live(x, p, q, 0) = {}
  <2>1. \A i \in Real(x) : ~(p[i] <= 0)
    BY <1>1
  <2> QED
    BY <2>1 DEF Live
<1>3. \A c \in C : HoldingAt(x, {}, c) = {}
  BY DEF HoldingAt
<1>4. Cardinality({}) = 0
  BY FS_EmptySet
<1>5. \A c \in C : acc.byInst[c] = Cardinality(HoldingAt(x, Live(x, p, q, 0), c))
  BY <1>2, <1>3, <1>4
<1>6. acc.open = 0 /\ acc.most = 0 /\ acc.any = 0 /\ acc.two = 0 /\ acc.three = 0 /\ acc.same = 0
  OBVIOUS
<1>7. \A busy : SpentSo(x, at, busy, 0) = 0
  BY DEF SpentSo
<1>8. /\ \A j \in 0..0 : Cardinality(Live(x, p, q, j)) <= acc.most
      /\ \E j \in 0..0 : acc.most = Cardinality(Live(x, p, q, j))
  <2>1. \A j \in 0..0 : j = 0
    OBVIOUS
  <2>2. 0 \in 0..0
    OBVIOUS
  <2> QED
    BY <1>2, <1>4, <1>6, <2>1, <2>2
<1> QED
  BY <1>2, <1>4, <1>5, <1>6, <1>7, <1>8 DEF SweepInv

(* The whole time with some sets open, once every event is passed.          *)
LEMMA SpentInAll ==
    ASSUME NEW x, ContentionGiven(x), NEW n, NEW at, NEW p, NEW q, Timeline(x, n, at, p, q),
           NEW busy, {} \notin busy
    PROVE  SpentSo(x, at, busy, n) = Cardinality({u \in Instants(x) : OpenAt(x, u) \in busy})
<1>1. n \in Nat
  BY DEF Timeline
<1>2. CASE n = 0
  <2>1. Instants(x) = {}
    BY <1>2, InstantsAre
  <2>2. {u \in Instants(x) : OpenAt(x, u) \in busy} = {}
    BY <2>1
  <2> QED
    BY <1>2, <2>2, FS_EmptySet DEF SpentSo
<1>3. CASE n > 0
  <2>1. n \in 1..n
    BY <1>1, <1>3
  <2>2. SpentRule(x, n, at, p, q, busy, n)
    BY <2>1, SpentGrows
  <2> QED
    BY <1>3, <2>2 DEF SpentSo, SpentRule
<1> QED
  BY <1>1, <1>2, <1>3

LEMMA ContentionTime ==
    ASSUME NEW x, ContentionGiven(x), NEW C, \A i \in Real(x) : x[i].inst \in C, NEW a, a = Contention(x, C)
    PROVE  ContentionIsTime(x, a)
<1>a. PICK ev : ev = Events(x)
  OBVIOUS
<1>b. PICK at : at = [k \in 1..Len(ev) |-> ev[k].at]
  OBVIOUS
<1>c. PICK n : n = Len(ev)
  OBVIOUS
<1>1. ListOf(ev) /\ \E p, q : Timeline(x, n, at, p, q) /\ Marks(x, ev, p, q)
  BY <1>a, <1>b, <1>c, TimelineIs
<1>2. PICK p, q : Timeline(x, n, at, p, q) /\ Marks(x, ev, p, q)
  BY <1>1
<1>3. n \in Nat /\ DOMAIN ev = 1..n
  BY <1>1, <1>c DEF ListOf
<1>4. ASSUME NEW k \in 1..n
      PROVE  \E i \in Real(x) : (k = p[i] /\ ev[k] = Opens(x, i)) \/ (k = q[i] /\ ev[k] = Closes(x, i))
  <2>1. PICK i \in Real(x) : k = p[i] \/ k = q[i]
    BY <1>2 DEF Timeline
  <2> QED
    BY <1>2, <2>1 DEF Marks
<1>5. ASSUME NEW k \in 1..n
      PROVE  ev[k].at \in Int /\ ev[k].delta \in Int /\ ev[k].inst \in C
  <2>1. PICK i \in Real(x) : ev[k] = Opens(x, i) \/ ev[k] = Closes(x, i)
    BY <1>4
  <2>2. x[i].entry \in Int /\ x[i].exit \in Int /\ x[i].inst \in C
    BY RealTrades
  <2> QED
    BY <2>1, <2>2 DEF Opens, Closes
<1>6. PICK h : SweepSteps(h, ev, C) /\ Contention(x, C) = h[Len(ev)]
  BY <1>1, <1>3, <1>5, <1>a, ContentionIsSteps
<1>7. /\ \A k \in 0..n : h[k] \in Swept(C)
      /\ \A k \in 1..n : h[k] = Sweep(h[k - 1], ev[k])
      /\ a = h[n]
  BY <1>6, <1>c DEF SweepSteps
<1>8. SweepInv(h[0], x, C, at, p, q, 0)
  <2>1. h[0] = [last |-> 0, open |-> 0, byInst |-> [i \in C |-> 0], most |-> 0,
                any |-> 0, two |-> 0, three |-> 0, same |-> 0]
    BY <1>6 DEF SweepSteps
  <2> QED
    BY <1>2, <2>1, SweepStarts
<1>9. SweepInv(h[n], x, C, at, p, q, n)
  <2> DEFINE Bad == {k \in 0..n : ~SweepInv(h[k], x, C, at, p, q, k)}
  <2>1. CASE Bad = {}
    <3>1. n \in 0..n
      BY <1>3
    <3> QED
      BY <2>1, <3>1
  <2>2. CASE Bad # {}
    <3>1. PICK k \in Bad : \A j \in Bad : k <= j
      <4>1. Bad \in SUBSET Nat
        BY <1>3
      <4> HIDE DEF Bad
      <4> QED
        BY <2>2, <4>1, LeastNumber
    <3>2. k \in 0..n /\ ~SweepInv(h[k], x, C, at, p, q, k)
      BY <3>1
    <3>3. k # 0
      BY <1>8, <3>2
    <3>4. k \in 1..n /\ k - 1 \in 0..n /\ ~(k <= k - 1)
      BY <1>3, <3>2, <3>3
    <3>5. SweepInv(h[k - 1], x, C, at, p, q, k - 1)
      BY <3>1, <3>4
    <3>a. PICK acc, e : acc = h[k - 1] /\ e = ev[k]
      OBVIOUS
    <3>6. /\ acc \in Swept(C) /\ SweepInv(acc, x, C, at, p, q, k - 1) /\ h[k] = Sweep(acc, e)
          /\ \E i \in Real(x) : (k = p[i] /\ e = Opens(x, i)) \/ (k = q[i] /\ e = Closes(x, i))
      BY <1>4, <1>7, <3>4, <3>5, <3>a
    <3>7. SweepInv(h[k], x, C, at, p, q, k)
      BY <1>2, <3>4, <3>6, SweepKeeps
    <3> QED
      BY <3>2, <3>7
  <2> QED
    BY <2>1, <2>2
<1>10. /\ a.any = SpentSo(x, at, Crowd(x, 1), n)
       /\ a.two = SpentSo(x, at, Crowd(x, 2), n)
       /\ a.three = SpentSo(x, at, Crowd(x, 3), n)
       /\ a.same = SpentSo(x, at, Clash(x), n)
       /\ \A j \in 0..n : Cardinality(Live(x, p, q, j)) <= a.most
       /\ \E j \in 0..n : a.most = Cardinality(Live(x, p, q, j))
  BY <1>7, <1>9 DEF SweepInv
<1>11. \A u : OpenAt(x, u) \in SUBSET Real(x)
  BY DEF OpenAt
<1>12. ASSUME NEW m \in {1, 2, 3}
       PROVE  SpentSo(x, at, Crowd(x, m), n) = Cardinality({u \in Instants(x) : Cardinality(OpenAt(x, u)) >= m})
  <2>1. {} \notin Crowd(x, m)
    BY FS_EmptySet DEF Crowd
  <2>2. {u \in Instants(x) : OpenAt(x, u) \in Crowd(x, m)} = {u \in Instants(x) : Cardinality(OpenAt(x, u)) >= m}
    BY <1>11 DEF Crowd
  <2> QED
    BY <1>2, <2>1, <2>2, SpentInAll
<1>13. SpentSo(x, at, Clash(x), n) = Cardinality({u \in Instants(x) : Rivals(x, OpenAt(x, u))})
  <2>1. {} \notin Clash(x)
    BY DEF Clash, Rivals
  <2>2. {u \in Instants(x) : OpenAt(x, u) \in Clash(x)} = {u \in Instants(x) : Rivals(x, OpenAt(x, u))}
    BY <1>11 DEF Clash
  <2> QED
    BY <1>2, <2>1, <2>2, SpentInAll
<1>14. a.most = Max({0} \union {Cardinality(Touching(x, u)) : u \in Instants(x)})
  <2>1. a.most \in Int
    BY <1>3, <1>7 DEF Swept
  <2> QED
    BY <1>2, <1>10, <2>1, MostTouching
<1>15. /\ a.any = Cardinality({u \in Instants(x) : Cardinality(OpenAt(x, u)) >= 1})
       /\ a.two = Cardinality({u \in Instants(x) : Cardinality(OpenAt(x, u)) >= 2})
       /\ a.three = Cardinality({u \in Instants(x) : Cardinality(OpenAt(x, u)) >= 3})
       /\ a.same = Cardinality({u \in Instants(x) : Rivals(x, OpenAt(x, u))})
  BY <1>10, <1>12, <1>13
<1> QED
  BY <1>14, <1>15 DEF ContentionIsTime

(* The screens and the run analysis compute what they are for: a signal     *)
(* seen by a bar is the latest of its past, the quantile buckets are even   *)
(* and in order, the sweep over opens and closes adds up the time that      *)
(* positions overlap, a shadow gate claims no trade twice, and correlation  *)
(* is symmetric and bounded.                                                *)
THEOREM ScreensAreSound == Spec => []ScreensMatchReference
<1>1. Answers => ScreensMatchReference
  <2> SUFFICES ASSUME Answers
               PROVE  ScreensMatchReference
    OBVIOUS
  <2>1. ASSUME Asked("align")
        PROVE  SignalIsCausal(given.of, answer)
    <3>1. AlignSignalStands
      BY <2>1, StandsIf
    <3>2. PICK x \in Inputs.align :
            given.of = x /\ answer = [signal |-> AlignPointInTime(x.bars, x.points),
                                      pairs |-> PairedBars(x.bars, x.points, x.horizon)]
      BY <3>1 DEF AlignSignalStands
    <3>3. AlignGiven(x)
      BY InputsAssumption
    <3> QED
      BY <3>2, <3>3, SignalCausal
  <2>2. ASSUME Asked("quantiles")
        PROVE  BucketsAreEven(given.of, answer)
    <3>1. SplitQuantilesStands
      BY <2>2, StandsIf
    <3>2. PICK n \in Inputs.quantiles :
            given.of = n /\ answer = [k \in 1..n |-> BucketOf(n, Quantiles(n), k)]
      BY <3>1 DEF SplitQuantilesStands
    <3>3. QuantilesGiven(n)
      BY InputsAssumption
    <3> QED
      BY <3>2, <3>3, BucketsEven
  <2>3. ASSUME Asked("contention")
        PROVE  ContentionIsTime(given.of, answer)
    <3>1. MeasureContentionStands
      BY <2>3, StandsIf
    <3>2. PICK x \in Inputs.contention :
            given = [kind |-> "contention", of |-> x] /\ answer = Contention(x, {x[i].inst : i \in DOMAIN x})
      BY <3>1, Zenon DEF MeasureContentionStands
    <3>3. ContentionGiven(x)
      BY InputsAssumption
    <3>4. \A i \in Real(x) : x[i].inst \in {x[j].inst : j \in DOMAIN x}
      BY DEF Real
    <3>5. given.of = x
      BY <3>2
    <3>6. ContentionIsTime(x, answer)
      BY <3>2, <3>3, <3>4, ContentionTime
    <3> QED
      BY <3>5, <3>6
  <2>4. ASSUME Asked("gate")
        PROVE  EachTradeClaimedOnce(given.of, answer)
    <3>1. AttributeGateStands
      BY <2>4, StandsIf
    <3>2. PICK x \in Inputs.gate :
            given.of = x /\ answer = [adds |-> GateAddsValue(x.rows, x.trades, x.window),
                                      of |-> ShadowGate(x.rows, x.trades, x.window)]
      BY <3>1 DEF AttributeGateStands
    <3>3. GateGiven(x)
      BY InputsAssumption
    <3> QED
      BY <3>2, <3>3, EachClaimedOnce
  <2>5. ASSUME Asked("series")
        PROVE  CorrelationIsSound(given.of, answer)
    <3>1. CompareSeriesStands
      BY <2>5, StandsIf
    <3>2. PICK x \in Inputs.series :
            /\ given = [kind |-> "series", of |-> x]
            /\ answer = [corr |-> Correlation(DailyReturns(x.f), DailyReturns(x.g), TRUE),
                         gate |-> PortfolioGate(x.low, DailyReturns(x.f), Baselines([g |-> DailyReturns(x.g)]))]
      BY <3>1, Zenon DEF CompareSeriesStands
    <3>3. /\ SeriesGiven(x) /\ None \notin Int /\ MinOverlap \in Nat
          /\ None \notin [num : Int, a : Int, b : Int]
      BY InputsAssumption
    <3>4. given.of = x
      BY <3>2
    <3> QED
      BY <3>2, <3>3, <3>4, CorrelationSound
  <2> QED
    BY <2>1, <2>2, <2>3, <2>4, <2>5 DEF ScreensMatchReference
<1> QED
  BY <1>1, AnswersStand, PTL

(* The reports *)

(* Nearness is symmetric, parameter by parameter.                           *)
Close(u, v) ==
    IF u \in Int /\ v \in Int THEN 10 * Abs(u - v) <= Max({Abs(u), Abs(v)}) ELSE u = v

LEMMA CloseIsMutual ==
    ASSUME NEW u, NEW v
    PROVE  Close(u, v) <=> Close(v, u)
<1>1. CASE u \in Int /\ v \in Int
  <2>1. Abs(u - v) = Abs(v - u)
    BY <1>1 DEF Abs
  <2>2. {Abs(u), Abs(v)} = {Abs(v), Abs(u)}
    OBVIOUS
  <2> QED
    BY <1>1, <2>1, <2>2 DEF Close
<1>2. CASE ~(u \in Int /\ v \in Int)
  BY <1>2 DEF Close
<1> QED
  BY <1>1, <1>2

LEMMA ClosenessMutual ==
    ASSUME NEW x
    PROVE  ClosenessIsMutual(x)
<1>1. ASSUME NEW p, NEW q
      PROVE  Near(p, q) <=> Near(q, p)
  <2>1. Near(p, q) <=> DOMAIN p = DOMAIN q /\ \A k \in DOMAIN p : Close(p[k], q[k])
    BY DEF Near, Close
  <2>2. Near(q, p) <=> DOMAIN q = DOMAIN p /\ \A k \in DOMAIN q : Close(q[k], p[k])
    BY DEF Near, Close
  <2>3. \A k : Close(p[k], q[k]) <=> Close(q[k], p[k])
    BY CloseIsMutual
  <2> QED
    BY <2>1, <2>2, <2>3
<1> QED
  BY <1>1 DEF ClosenessIsMutual

LEMMA SliceIs ==
    ASSUME NEW s, NEW a \in Int, NEW b \in Int, NEW n \in Nat, n = (IF a <= b THEN b - a + 1 ELSE 0)
    PROVE  /\ DOMAIN SubSeq(s, a, b) = 1..n /\ Len(SubSeq(s, a, b)) = n
           /\ SubSeq(s, a, b) = [i \in 1..n |-> s[a + i - 1]]
<1>a. PICK R : R = {s[i] : i \in a..b}
  OBVIOUS
<1>b. PICK u : u = SubSeq(s, a, b)
  OBVIOUS
<1>1. \A i \in a..b : s[i] \in R
  BY <1>a
<1>2. u \in Seq(R) /\ Len(u) = n /\ \A i \in 1..(b - a + 1) : u[i] = s[a + i - 1]
  BY <1>1, <1>b, SubSeqProperties
<1>3. DOMAIN u = 1..n /\ u = [i \in 1..n |-> u[i]]
  BY <1>2
<1>4. \A i \in 1..n : u[i] = s[a + i - 1]
  BY <1>2
<1>5. u = [i \in 1..n |-> s[a + i - 1]]
  BY <1>3, <1>4
<1> QED
  BY <1>2, <1>3, <1>5, <1>b

(* Only the latest two verdicts decide on a drift.                          *)
LEMMA TwoDecide ==
    ASSUME NEW v, NEW w, v # None, w # None, Len(v) \in Nat, Len(v) >= 2, Len(w) = 2, w[1] = v[1], w[2] = v[2]
    PROVE  DriftOf(w) = DriftOf(v)
<1>1. ASSUME NEW u, u # None, ~(Len(u) < 2)
      PROVE  DriftOf(u) = Max({0, VerdictRank(u[2]) - VerdictRank(u[1])})
  BY <1>1 DEF DriftOf
<1>2. ~(Len(w) < 2) /\ ~(Len(v) < 2)
  OBVIOUS
<1>3. DriftOf(v) = Max({0, VerdictRank(v[2]) - VerdictRank(v[1])})
  BY <1>1, <1>2
<1>4. DriftOf(w) = Max({0, VerdictRank(w[2]) - VerdictRank(w[1])})
  BY <1>1, <1>2
<1> QED
  BY <1>3, <1>4

LEMMA FirstTwo ==
    ASSUME NEW v, Len(v) \in Nat, DOMAIN v = 1..Len(v), Len(v) >= 2, NEW R, R = Range(v)
    PROVE  /\ SubSeq(v, 1, 2) \in Seq(R) /\ Len(SubSeq(v, 1, 2)) = 2
           /\ SubSeq(v, 1, 2)[1] = v[1] /\ SubSeq(v, 1, 2)[2] = v[2]
<1>1. \A i \in 1..2 : v[i] \in R
  BY DEF Range
<1>2. 1 \in Int /\ 2 \in Int /\ 1 <= 2 /\ 2 - 1 + 1 = 2
  OBVIOUS
<1>3. /\ SubSeq(v, 1, 2) \in Seq(R)
      /\ Len(SubSeq(v, 1, 2)) = (IF 1 <= 2 THEN 2 - 1 + 1 ELSE 0)
      /\ \A i \in 1..(2 - 1 + 1) : SubSeq(v, 1, 2)[i] = v[1 + i - 1]
  <2> HIDE DEF Range
  <2> QED
    BY <1>1, <1>2, SubSeqProperties
<1>a. PICK u : u = SubSeq(v, 1, 2)
  OBVIOUS
<1>4. u \in Seq(R) /\ Len(u) = 2 /\ \A i \in 1..2 : u[i] = v[1 + i - 1]
  BY <1>2, <1>3, <1>a
<1>5. u[1] = v[1] /\ u[2] = v[2]
  BY <1>4
<1> QED
  BY <1>4, <1>5, <1>a

LEMMA LatestTwo ==
    ASSUME NEW v, List(v), None \notin Seq(Range(v)), NEW m, m = Min({2, Len(v)})
    PROVE  DriftOf(SubSeq(v, 1, m)) = DriftOf(v)
<1>1. v \in Seq(Range(v)) /\ Len(v) \in Nat /\ DOMAIN v = 1..Len(v)
  <2>1. v \in Seq(Range(v))
    BY DEF List
  <2> QED
    BY <2>1
<1>2. v # None
  BY <1>1
<1>3. CASE Len(v) < 2
  <2>1. m = Len(v)
    <3>1. {2, Len(v)} \in SUBSET Int /\ Len(v) \in {2, Len(v)} /\ \A y \in {2, Len(v)} : Len(v) <= y
      BY <1>1, <1>3
    <3> QED
      BY <3>1, MinIs
  <2>2. SubSeq(v, 1, m) = [i \in 1..Len(v) |-> v[i]]
    BY <1>1, <2>1
  <2>3. SubSeq(v, 1, m) = v
    BY <1>1, <2>2
  <2> QED
    BY <2>3
<1>4. CASE Len(v) >= 2
  <2>1. m = 2
    <3>1. {2, Len(v)} \in SUBSET Int /\ 2 \in {2, Len(v)} /\ \A y \in {2, Len(v)} : 2 <= y
      BY <1>1, <1>4
    <3> QED
      BY <3>1, MinIs
  <2>a. PICK w : w = SubSeq(v, 1, 2)
    OBVIOUS
  <2>2. w \in Seq(Range(v)) /\ Len(w) = 2 /\ w[1] = v[1] /\ w[2] = v[2]
    BY <1>1, <1>4, <2>a, FirstTwo
  <2>3. w # None
    BY <2>2
  <2>4. DriftOf(w) = DriftOf(v)
    BY <1>1, <1>2, <1>4, <2>2, <2>3, TwoDecide
  <2> QED
    BY <2>1, <2>4, <2>a
<1> QED
  BY <1>1, <1>3, <1>4

LEMMA DriftRecent ==
    ASSUME NEW x, DriftGiven(x)
    PROVE  DriftIsRecent(x, Drifts(x))
<1>a. PICK y : y = [s \in DOMAIN x |-> IF x[s] = None THEN None ELSE SubSeq(x[s], 1, Min({2, Len(x[s])}))]
  OBVIOUS
<1>1. ASSUME NEW s \in DOMAIN x
      PROVE  DriftOf(y[s]) = DriftOf(x[s])
  <2>1. CASE x[s] = None
    BY <1>a, <2>1
  <2>2. CASE x[s] # None
    <3>1. List(x[s]) /\ None \notin Seq(Range(x[s]))
      BY <2>2 DEF DriftGiven
    <3>2. y[s] = SubSeq(x[s], 1, Min({2, Len(x[s])}))
      BY <1>a, <2>2
    <3> QED
      BY <3>1, <3>2, LatestTwo
  <2> QED
    BY <2>1, <2>2
<1>2. DOMAIN y = DOMAIN x
  BY <1>a
<1>3. {s \in DOMAIN y : DriftOf(y[s]) > 0} = {s \in DOMAIN x : DriftOf(x[s]) > 0}
  BY <1>1, <1>2
<1>4. Drifts(y) = Drifts(x)
  BY <1>1, <1>3 DEF Drifts
<1> QED
  BY <1>4, <1>a DEF DriftIsRecent

(* Rows in the opposite order.                                              *)
Turned(rows, y, n) ==
    /\ n \in Nat /\ DOMAIN rows = 1..n /\ DOMAIN y = 1..n
    /\ \A i \in 1..n : y[i] = rows[n - i + 1] /\ rows[i] = y[n - i + 1]

ArmOf(rows, p, arm) == rows[CHOOSE i \in Bucket(rows, p, arm) : TRUE].metric
Alone(rows, p, arm) == Cardinality(Bucket(rows, p, arm)) = 1

LEMMA TurnedArm ==
    ASSUME NEW n, NEW rows, NEW y, Turned(rows, y, n), NEW p, NEW arm, Alone(rows, p, arm)
    PROVE  Alone(y, p, arm) /\ ArmOf(y, p, arm) = ArmOf(rows, p, arm)
<1>1. /\ n \in Nat /\ DOMAIN rows = 1..n /\ DOMAIN y = 1..n
      /\ \A i \in 1..n : y[i] = rows[n - i + 1]
  BY DEF Turned
<1>a. PICK B, D : B = Bucket(rows, p, arm) /\ D = Bucket(y, p, arm)
  OBVIOUS
<1>2. B \in SUBSET (1..n) /\ IsFiniteSet(B)
  <2>1. IsFiniteSet(1..n)
    BY <1>1, FS_Interval
  <2>2. B \in SUBSET (1..n)
    BY <1>1, <1>a DEF Bucket
  <2> QED
    BY <2>1, <2>2, FS_Subset
<1>3. PICK i : B = {i}
  BY <1>2, <1>a, FS_Singleton DEF Alone
<1>b. PICK j : j = n - i + 1
  OBVIOUS
<1>4. i \in 1..n /\ j \in 1..n /\ n - j + 1 = i
  BY <1>1, <1>2, <1>3, <1>b
<1>5. \A k \in 1..n : k \in D <=> n - k + 1 \in B
  <2> SUFFICES ASSUME NEW k \in 1..n
               PROVE  k \in D <=> n - k + 1 \in B
    OBVIOUS
  <2>1. n - k + 1 \in 1..n /\ y[k] = rows[n - k + 1]
    BY <1>1
  <2> QED
    BY <1>1, <1>a, <2>1 DEF Bucket
<1>6. D = {j}
  <2>1. D \subseteq 1..n
    BY <1>1, <1>a DEF Bucket
  <2>2. \A k \in 1..n : k \in D <=> k = j
    BY <1>1, <1>3, <1>4, <1>5, <1>b
  <2> QED
    BY <1>4, <2>1, <2>2
<1>7. y[j] = rows[i]
  BY <1>1, <1>4
<1>8. (CHOOSE k \in D : TRUE) = j /\ (CHOOSE k \in B : TRUE) = i
  BY <1>3, <1>6
<1>9. Cardinality(D) = 1
  BY <1>6, FS_Singleton
<1> QED
  BY <1>7, <1>8, <1>9, <1>a DEF ArmOf, Alone

LEMMA DeltasTurned ==
    ASSUME NEW n, NEW rows, NEW y, Turned(rows, y, n)
    PROVE  Deltas(y) = Deltas(rows)
<1>1. Turned(y, rows, n)
  BY DEF Turned
<1>2. \A p, arm : Alone(y, p, arm) <=> Alone(rows, p, arm)
  BY <1>1, TurnedArm
<1>3. \A p, arm : Alone(rows, p, arm) => ArmOf(y, p, arm) = ArmOf(rows, p, arm)
  BY TurnedArm
<1>a. PICK A, C : A = {p \in Pairs(rows) : ArmOf(rows, p, "on") # None /\ ArmOf(rows, p, "off") # None}
                  /\ C = {p \in Pairs(y) : ArmOf(y, p, "on") # None /\ ArmOf(y, p, "off") # None}
  OBVIOUS
<1>4. \A p : p \in {rows[i].params : i \in DOMAIN rows} <=> p \in {y[i].params : i \in DOMAIN y}
  <2>1. /\ n \in Nat /\ DOMAIN rows = 1..n /\ DOMAIN y = 1..n
        /\ \A i \in 1..n : y[i] = rows[n - i + 1] /\ rows[i] = y[n - i + 1]
    BY DEF Turned
  <2>2. \A i \in 1..n : n - i + 1 \in 1..n
    BY <2>1
  <2> QED
    BY <2>1, <2>2
<1>5. \A p : p \in Pairs(rows) <=> p \in {rows[i].params : i \in DOMAIN rows} /\ Alone(rows, p, "on") /\ Alone(rows, p, "off")
  BY DEF Pairs, Alone
<1>6. \A p : p \in Pairs(y) <=> p \in {y[i].params : i \in DOMAIN y} /\ Alone(y, p, "on") /\ Alone(y, p, "off")
  BY DEF Pairs, Alone
<1>7. Pairs(y) = Pairs(rows)
  BY <1>2, <1>4, <1>5, <1>6
<1>8. \A p \in Pairs(rows) : ArmOf(y, p, "on") = ArmOf(rows, p, "on") /\ ArmOf(y, p, "off") = ArmOf(rows, p, "off")
  BY <1>3, <1>5
<1>9. A = C
  BY <1>7, <1>8, <1>a
<1>10. Deltas(rows) = [p \in A |-> ArmOf(rows, p, "on") - ArmOf(rows, p, "off")]
  BY <1>a DEF Deltas, ArmOf
<1>11. Deltas(y) = [p \in C |-> ArmOf(y, p, "on") - ArmOf(y, p, "off")]
  BY <1>a DEF Deltas, ArmOf
<1>12. \A p \in A : ArmOf(y, p, "on") = ArmOf(rows, p, "on") /\ ArmOf(y, p, "off") = ArmOf(rows, p, "off")
  BY <1>8, <1>a
<1>13. [p \in A |-> ArmOf(rows, p, "on") - ArmOf(rows, p, "off")] = [p \in A |-> ArmOf(y, p, "on") - ArmOf(y, p, "off")]
  BY <1>12
<1> QED
  BY <1>9, <1>10, <1>11, <1>13

LEMMA ArmsAnyOrder ==
    ASSUME NEW x, ArmsGiven(x)
    PROVE  Deltas(Reverse(x.rows)) = Deltas(x.rows)
<1>a. PICK rows, n, y : rows = x.rows /\ n = Len(x.rows) /\ y = Reverse(x.rows)
  OBVIOUS
<1>1. n \in Nat /\ DOMAIN rows = 1..n
  <2>1. rows \in Seq(Range(rows))
    BY <1>a DEF ArmsGiven, List
  <2> QED
    BY <1>a, <2>1
<1>2. y = [i \in 1..n |-> rows[(n - i) + 1]]
  BY <1>a DEF Reverse
<1>3. \A i \in 1..n : n - i + 1 \in 1..n /\ n - (n - i + 1) + 1 = i
  BY <1>1
<1>4. Turned(rows, y, n)
  BY <1>1, <1>2, <1>3 DEF Turned
<1> QED
  BY <1>4, <1>a, DeltasTurned

(* Regimes: c has the first m bars of bars.                                 *)
Begins(c, bars, m) == \A j \in 1..m : c[j] = bars[j]

LEMMA SlicesAgree ==
    ASSUME NEW m \in Nat, NEW c, NEW bars, Begins(c, bars, m), NEW a \in Int, NEW b \in Int, 1 <= a, b <= m
    PROVE  SubSeq(c, a, b) = SubSeq(bars, a, b)
<1>a. PICK n : n = IF a <= b THEN b - a + 1 ELSE 0
  OBVIOUS
<1>1. n \in Nat
  BY <1>a
<1>2. SubSeq(c, a, b) = [i \in 1..n |-> c[a + i - 1]] /\ SubSeq(bars, a, b) = [i \in 1..n |-> bars[a + i - 1]]
  BY <1>1, <1>a, SliceIs
<1>3. ASSUME NEW i \in 1..n
      PROVE  c[a + i - 1] = bars[a + i - 1]
  <2>1. a + i - 1 \in 1..m
    BY <1>1, <1>a
  <2> QED
    BY <2>1 DEF Begins
<1> QED
  BY <1>2, <1>3

LEMMA BarKnowsPast ==
    ASSUME NEW m \in Nat, NEW c, NEW bars, Begins(c, bars, m), NEW win,
           win.sma \in Nat, win.atr \in Nat, win.rank \in Nat, NEW i \in (win.sma + 1)..m
    PROVE  BarRegime(c, i, win) = BarRegime(bars, i, win)
<1>1. SubSeq(c, i - win.sma, i - 1) = SubSeq(bars, i - win.sma, i - 1)
  <2>a. PICK a : a = i - win.sma
    OBVIOUS
  <2>b. PICK b : b = i - 1
    OBVIOUS
  <2>1. a \in Int /\ b \in Int /\ 1 <= a /\ b <= m
    BY <2>a, <2>b
  <2>2. SubSeq(c, a, b) = SubSeq(bars, a, b)
    BY <2>1, SlicesAgree
  <2> QED
    BY <2>2, <2>a, <2>b
<1>2. c[i] = bars[i]
  <2>1. i \in 1..m
    OBVIOUS
  <2> QED
    BY <2>1 DEF Begins
<1>a. PICK from : from = Max({win.atr + 1, i - win.rank})
  OBVIOUS
<1>3. from \in Int /\ from >= win.atr + 1
  <2>1. win.atr + 1 \in Int /\ i - win.rank \in Int
    OBVIOUS
  <2>2. from = IF win.atr + 1 >= i - win.rank THEN win.atr + 1 ELSE i - win.rank
    BY <1>a, <2>1, MaxOfTwo
  <2> QED
    BY <2>1, <2>2
<1>4. ASSUME NEW k \in from..i
      PROVE  RangesBefore(c, k, win.atr) = RangesBefore(bars, k, win.atr)
  <2>a. PICK a : a = k - win.atr
    OBVIOUS
  <2>b. PICK b : b = k - 1
    OBVIOUS
  <2>1. a \in Int /\ b \in Int /\ 1 <= a /\ b <= m
    BY <1>3, <2>a, <2>b
  <2>2. SubSeq(c, a, b) = SubSeq(bars, a, b)
    BY <2>1, SlicesAgree
  <2>3. SubSeq(c, k - win.atr, k - 1) = SubSeq(bars, k - win.atr, k - 1)
    BY <2>2, <2>a, <2>b
  <2> QED
    BY <2>3 DEF RangesBefore
<1>b. PICK low, lower : /\ low = {k \in from..i : RangesBefore(bars, k, win.atr) <= RangesBefore(bars, i, win.atr)}
                        /\ lower = {k \in from..i : RangesBefore(c, k, win.atr) <= RangesBefore(c, i, win.atr)}
  OBVIOUS
<1>5. low = lower
  <2>1. \A k \in from..i : i \in from..i
    BY <1>3
  <2> QED
    BY <1>4, <1>b, <2>1
<1>c. PICK past : past = SubSeq(bars, i - win.sma, i - 1)
  OBVIOUS
<1>6. BarRegime(bars, i, win) =
         <<IF win.sma * bars[i].close > Total(Field(past, LAMBDA b : b.close)) THEN "BULL" ELSE "BEAR",
           IF 2 * Cardinality(low) >= Cardinality(from..i) THEN "HIGH_VOL" ELSE "LOW_VOL">>
  BY <1>a, <1>b, <1>c DEF BarRegime
<1>7. BarRegime(c, i, win) =
         <<IF win.sma * c[i].close > Total(Field(past, LAMBDA b : b.close)) THEN "BULL" ELSE "BEAR",
           IF 2 * Cardinality(lower) >= Cardinality(from..i) THEN "HIGH_VOL" ELSE "LOW_VOL">>
  <2>1. past = SubSeq(c, i - win.sma, i - 1)
    BY <1>1, <1>c
  <2> QED
    BY <1>a, <1>b, <2>1 DEF BarRegime
<1> QED
  BY <1>2, <1>5, <1>6, <1>7

(* The nearest, and the earliest of those: who is first among S.            *)
FirstAmong(S, far, i) == i \in S /\ \A k \in S : far[i] < far[k] \/ (far[i] = far[k] /\ i <= k)

TheFirst(S, far) == CHOOSE j \in S : \A k \in S : far[j] < far[k] \/ (far[j] = far[k] /\ j <= k)

LEMMA FirstExists ==
    ASSUME NEW S \in SUBSET Nat, S # {}, NEW far, \A i \in S : far[i] \in Nat
    PROVE  \E i \in S : FirstAmong(S, far, i)
<1>a. PICK F : F = {far[i] : i \in S}
  OBVIOUS
<1>1. F \in SUBSET Nat /\ F # {}
  BY <1>a
<1>2. PICK f \in F : \A g \in F : f <= g
  BY <1>1, LeastNumber
<1>b. PICK T : T = {i \in S : far[i] = f}
  OBVIOUS
<1>3. T \in SUBSET Nat /\ T # {}
  BY <1>a, <1>b, <1>2
<1>4. PICK i \in T : \A k \in T : i <= k
  BY <1>3, LeastNumber
<1>5. i \in S /\ far[i] = f
  BY <1>4, <1>b
<1>6. ASSUME NEW k \in S
      PROVE  far[i] < far[k] \/ (far[i] = far[k] /\ i <= k)
  <2>1. f <= far[k] /\ f \in Nat /\ far[k] \in Nat
    BY <1>1, <1>2, <1>a
  <2>2. far[k] = f => i <= k
    BY <1>4, <1>b
  <2> QED
    BY <1>5, <2>1, <2>2
<1> QED
  BY <1>5, <1>6 DEF FirstAmong

LEMMA FirstIsOne ==
    ASSUME NEW S \in SUBSET Nat, NEW far, \A i \in S : far[i] \in Nat, NEW i, FirstAmong(S, far, i)
    PROVE  TheFirst(S, far) = i
<1>1. i \in S /\ \A k \in S : far[i] < far[k] \/ (far[i] = far[k] /\ i <= k)
  BY DEF FirstAmong
<1>2. ASSUME NEW j \in S, \A k \in S : far[j] < far[k] \/ (far[j] = far[k] /\ j <= k)
      PROVE  j = i
  <2>1. far[j] < far[i] \/ (far[j] = far[i] /\ j <= i)
    BY <1>1, <1>2
  <2>2. far[i] < far[j] \/ (far[i] = far[j] /\ i <= j)
    BY <1>1
  <2>3. i \in Nat /\ j \in Nat /\ far[i] \in Nat /\ far[j] \in Nat
    BY <1>1
  <2> QED
    BY <2>1, <2>2, <2>3
<1> QED
  BY <1>1, <1>2 DEF TheFirst

(* Which bar a trade takes its regime from.                                 *)
FarFrom(bars, e, i) == Abs(bars[i].at - e)
NearSet(bars, e, win) == {i \in (win.sma + 1)..Len(bars) : FarFrom(bars, e, i) < win.near}

LEMMA RegimeIs ==
    ASSUME NEW bars, NEW e, NEW win, Len(bars) \in Nat, win.sma \in Nat,
           NEW far, far = [i \in 1..Len(bars) |-> FarFrom(bars, e, i)], \A i \in 1..Len(bars) : far[i] \in Nat,
           NEW i, FirstAmong(NearSet(bars, e, win), far, i)
    PROVE  RegimeAt(bars, e, win) = BarRegime(bars, i, win)
<1>a. PICK S : S = NearSet(bars, e, win)
  OBVIOUS
<1>1. S \in SUBSET (1..Len(bars)) /\ S \in SUBSET Nat /\ i \in S
  BY <1>a DEF NearSet, FirstAmong
<1>2. TheFirst(S, far) = i
  <2>1. \A j \in S : far[j] \in Nat
    BY <1>1
  <2>2. FirstAmong(S, far, i)
    BY <1>a
  <2> HIDE DEF FirstAmong
  <2> QED
    BY <1>1, <2>1, <2>2, FirstIsOne
<1>3. \A j \in S : far[j] = FarFrom(bars, e, j)
  BY <1>1
<1>4. ASSUME NEW j \in S
      PROVE  (\A k \in S : FarFrom(bars, e, j) < FarFrom(bars, e, k) \/ (FarFrom(bars, e, j) = FarFrom(bars, e, k) /\ j <= k))
             <=> (\A k \in S : far[j] < far[k] \/ (far[j] = far[k] /\ j <= k))
  BY <1>3
<1>5. (CHOOSE j \in S : \A k \in S :
            FarFrom(bars, e, j) < FarFrom(bars, e, k) \/ (FarFrom(bars, e, j) = FarFrom(bars, e, k) /\ j <= k)) = i
  BY <1>2, <1>4 DEF TheFirst
<1>6. S # {}
  BY <1>1
<1>7. RegimeAt(bars, e, win) =
        IF S = {} THEN <<"UNKNOWN">>
        ELSE BarRegime(bars, CHOOSE j \in S : \A k \in S :
                FarFrom(bars, e, j) < FarFrom(bars, e, k) \/ (FarFrom(bars, e, j) = FarFrom(bars, e, k) /\ j <= k), win)
  BY <1>a DEF RegimeAt, NearSet, FarFrom
<1> QED
  BY <1>5, <1>6, <1>7

LEMMA NoRegime ==
    ASSUME NEW bars, NEW e, NEW win, NearSet(bars, e, win) = {}
    PROVE  RegimeAt(bars, e, win) = <<"UNKNOWN">>
  BY DEF RegimeAt, NearSet, FarFrom

(* A bar that is at least as near as every later one hides those.           *)
AsNear(bars, e, m, n) == \A j \in m..n : FarFrom(bars, e, m) <= FarFrom(bars, e, j)
Timed(bars, n) == Len(bars) = n /\ \A i \in 1..n : bars[i].at \in Int

LEMMA LaterBarsHidden ==
    ASSUME NEW n \in Nat, NEW m \in 1..n, NEW bars, Timed(bars, n), NEW c, Len(c) = m, Begins(c, bars, m),
           NEW e \in Int,
           NEW win, win.sma \in Nat, win.atr \in Nat, win.rank \in Nat, win.near \in Nat, win.sma + 1 <= m,
           AsNear(bars, e, m, n)
    PROVE  RegimeAt(bars, e, win) = RegimeAt(c, e, win)
<1>0. Len(bars) = n /\ \A i \in 1..n : bars[i].at \in Int
  BY DEF Timed
<1>a. PICK far : far = [i \in 1..n |-> FarFrom(bars, e, i)]
  OBVIOUS
<1>b. PICK fur : fur = [i \in 1..m |-> FarFrom(c, e, i)]
  OBVIOUS
<1>c. PICK S, T : S = NearSet(bars, e, win) /\ T = NearSet(c, e, win)
  OBVIOUS
<1>1. \A i \in 1..n : far[i] \in Nat /\ far[i] = FarFrom(bars, e, i)
  BY SMTT(30), <1>0, <1>a DEF FarFrom, Abs
<1>2. \A i \in 1..m : fur[i] = far[i] /\ fur[i] = FarFrom(c, e, i)
  <2>1. \A i \in 1..m : c[i] = bars[i] /\ i \in 1..n
    BY DEF Begins
  <2> QED
    BY <1>a, <1>b, <2>1 DEF FarFrom
<1>3. S = {i \in (win.sma + 1)..n : far[i] < win.near}
  BY <1>0, <1>1, <1>c DEF NearSet
<1>4. T = {i \in (win.sma + 1)..m : far[i] < win.near}
  <2>1. T = {i \in (win.sma + 1)..m : FarFrom(c, e, i) < win.near}
    BY <1>c DEF NearSet
  <2>2. \A i \in (win.sma + 1)..m : FarFrom(c, e, i) = far[i]
    BY <1>2
  <2> QED
    BY <2>1, <2>2
<1>5. S \in SUBSET Nat /\ S \subseteq 1..n /\ T = {i \in S : i <= m}
  BY <1>3, <1>4
<1>6. CASE S = {}
  <2>1. T = {}
    BY <1>5, <1>6
  <2> QED
    BY <1>6, <1>c, <2>1, NoRegime
<1>7. CASE S # {}
  <2>1. PICK i \in S : FirstAmong(S, far, i)
    <3>1. \A j \in S : far[j] \in Nat
      BY <1>1, <1>5
    <3> QED
      BY <1>5, <1>7, <3>1, FirstExists
  <2>2. \A k \in S : far[i] < far[k] \/ (far[i] = far[k] /\ i <= k)
    BY <2>1 DEF FirstAmong
  <2>3. i <= m
    <3> SUFFICES ASSUME i > m
                 PROVE  FALSE
      BY <1>5
    <3>1. i \in m..n /\ m \in 1..n /\ i \in 1..n
      BY <1>5
    <3>2. far[m] <= far[i]
      BY <1>1, <3>1 DEF AsNear
    <3>3. m \in S
      <4>1. far[i] < win.near
        BY <1>3
      <4>2. far[m] < win.near
        BY <1>1, <3>1, <3>2, <4>1
      <4> QED
        BY <1>3, <4>2
    <3>4. far[i] < far[m] \/ (far[i] = far[m] /\ i <= m)
      BY <2>2, <3>3
    <3> QED
      BY <1>1, <3>1, <3>2, <3>4
  <2>4. i \in T /\ i \in (win.sma + 1)..m
    BY <1>3, <1>5, <2>3
  <2>5. FirstAmong(T, fur, i)
    <3>1. \A k \in T : k \in 1..m /\ k \in S
      BY <1>5
    <3>2. i \in 1..m
      BY <3>1, <2>4
    <3> QED
      BY <1>2, <2>2, <2>4, <3>1, <3>2 DEF FirstAmong
  <2>6. RegimeAt(bars, e, win) = BarRegime(bars, i, win)
    BY <1>0, <1>1, <1>a, <1>c, <2>1, RegimeIs
  <2>7. RegimeAt(c, e, win) = BarRegime(c, i, win)
    <3>1. \A j \in 1..Len(c) : fur[j] \in Nat
      BY <1>1, <1>2
    <3>2. fur = [j \in 1..Len(c) |-> FarFrom(c, e, j)] /\ Len(c) \in Nat
      BY <1>b
    <3>3. FirstAmong(NearSet(c, e, win), fur, i)
      BY <1>c, <2>5
    <3> QED
      BY <3>1, <3>2, <3>3, RegimeIs
  <2>8. BarRegime(c, i, win) = BarRegime(bars, i, win)
    BY <2>4, BarKnowsPast
  <2> QED
    BY <2>6, <2>7, <2>8
<1> QED
  BY <1>6, <1>7

(* Bars are in the order of time: after the last of the nearest ones the    *)
(* distance does not shrink any more.                                       *)
LEMMA DistanceGrows ==
    ASSUME NEW n \in Nat, NEW bars, \A i \in 1..n : bars[i].at \in Int,
           \A i, j \in 1..n : i <= j => bars[i].at <= bars[j].at, NEW e \in Int,
           NEW u \in 1..n, \A k \in 1..n : FarFrom(bars, e, u) <= FarFrom(bars, e, k),
           \A k \in (u + 1)..n : FarFrom(bars, e, u) # FarFrom(bars, e, k),
           NEW m \in u..n, NEW j \in m..n
    PROVE  FarFrom(bars, e, m) <= FarFrom(bars, e, j)
<1>1. CASE m = u
  <2>1. j \in 1..n
    OBVIOUS
  <2> QED
    BY <1>1, <2>1
<1>2. CASE m > u
  <2>1. m \in 1..n /\ j \in 1..n /\ m \in (u + 1)..n
    BY <1>2
  <2>2. bars[u].at <= bars[m].at /\ bars[m].at <= bars[j].at
    BY <2>1
  <2>3. FarFrom(bars, e, u) <= FarFrom(bars, e, m) /\ FarFrom(bars, e, u) # FarFrom(bars, e, m)
    BY <2>1
  <2>4. bars[u].at \in Int /\ bars[m].at \in Int /\ bars[j].at \in Int
    BY <2>1
  <2> QED
    BY <2>2, <2>3, <2>4 DEF FarFrom, Abs
<1> QED
  BY <1>1, <1>2

NearestBars(bars, e) == {i \in DOMAIN bars : \A k \in DOMAIN bars : FarFrom(bars, e, i) <= FarFrom(bars, e, k)}

LEMMA NearestLast ==
    ASSUME NEW n \in Nat \ {0}, NEW bars, DOMAIN bars = 1..n, \A i \in 1..n : bars[i].at \in Int, NEW e \in Int
    PROVE  \E u \in NearestBars(bars, e) : Max(NearestBars(bars, e)) = u /\ \A k \in NearestBars(bars, e) : k <= u
<1>a. PICK N : N = NearestBars(bars, e)
  OBVIOUS
<1>1. N \in SUBSET (1..n)
  BY <1>a DEF NearestBars
<1>2. N # {}
  <2>a. PICK F : F = {FarFrom(bars, e, i) : i \in 1..n}
    OBVIOUS
  <2>1. \A i \in 1..n : FarFrom(bars, e, i) \in Nat
    BY DEF FarFrom, Abs
  <2>2. 1 \in 1..n
    OBVIOUS
  <2>3. F \in SUBSET Nat /\ F # {}
    BY <2>1, <2>2, <2>a
  <2>4. PICK f \in F : \A g \in F : f <= g
    BY <2>3, LeastNumber
  <2>5. PICK i \in 1..n : f = FarFrom(bars, e, i)
    BY <2>a
  <2>6. \A k \in 1..n : FarFrom(bars, e, i) <= FarFrom(bars, e, k)
    BY <2>4, <2>5, <2>a
  <2> QED
    BY <2>5, <2>6, <1>a DEF NearestBars
<1>3. PICK u \in N : \A k \in N : k <= u
  BY <1>1, <1>2, GreatestNumber
<1>4. Max(N) = u
  BY <1>1, <1>3, MaxIs
<1> QED
  BY <1>3, <1>4, <1>a

LEMMA RegimeCausal ==
    ASSUME NEW n \in Nat \ {0}, NEW bars, DOMAIN bars = 1..n, Len(bars) = n, \A i \in 1..n : bars[i].at \in Int,
           \A i, j \in 1..n : i <= j => bars[i].at <= bars[j].at, NEW e \in Int,
           NEW win, win.sma \in Nat, win.atr \in Nat, win.rank \in Nat, win.near \in Nat, win.sma + 1 <= n,
           NEW u \in NearestBars(bars, e), \A k \in NearestBars(bars, e) : k <= u,
           NEW m, m = IF u >= win.sma + 1 THEN u ELSE win.sma + 1
    PROVE  RegimeAt(bars, e, win) = RegimeAt(SubSeq(bars, 1, m), e, win)
<1>a. PICK N : N = NearestBars(bars, e)
  OBVIOUS
<1>1. N \in SUBSET (1..n)
  BY <1>a DEF NearestBars
<1>3. u \in N /\ \A k \in N : k <= u
  BY <1>a
<1>6. u \in 1..n /\ m \in 1..n /\ m \in u..n /\ win.sma + 1 <= m
  <2>1. u \in 1..n
    BY <1>1, <1>3
  <2> QED
    BY <2>1
<1>b. PICK c : c = SubSeq(bars, 1, m)
  OBVIOUS
<1>7. Len(c) = m /\ Begins(c, bars, m)
  <2>1. 1 \in Int /\ m \in Int /\ m \in Nat /\ m = (IF 1 <= m THEN m - 1 + 1 ELSE 0)
    BY <1>6
  <2>2. Len(c) = m /\ c = [i \in 1..m |-> bars[1 + i - 1]]
    BY <1>b, <2>1, SliceIs
  <2>3. \A i \in 1..m : 1 + i - 1 = i
    BY <2>1
  <2> QED
    BY <2>2, <2>3 DEF Begins
<1>8. \A k \in 1..n : FarFrom(bars, e, u) <= FarFrom(bars, e, k)
  BY <1>a, <1>3 DEF NearestBars
<1>9. ASSUME NEW k \in (u + 1)..n
      PROVE  FarFrom(bars, e, u) # FarFrom(bars, e, k)
  <2>1. k \in 1..n /\ ~(k <= u)
    BY <1>6
  <2>2. k \notin N
    BY <1>3, <2>1
  <2>3. PICK j \in 1..n : ~(FarFrom(bars, e, k) <= FarFrom(bars, e, j))
    BY <1>a, <2>1, <2>2 DEF NearestBars
  <2> QED
    BY <1>8, <2>3
<1>10. ASSUME NEW j \in m..n
       PROVE  FarFrom(bars, e, m) <= FarFrom(bars, e, j)
  BY <1>6, <1>8, <1>9, DistanceGrows
<1>11. RegimeAt(bars, e, win) = RegimeAt(c, e, win)
  <2>1. AsNear(bars, e, m, n) /\ Timed(bars, n)
    BY <1>10 DEF AsNear, Timed
  <2>2. n \in Nat /\ m \in 1..n /\ Len(c) = m /\ Begins(c, bars, m) /\ win.sma + 1 <= m
    BY <1>6, <1>7
  <2> QED
    BY <2>1, <2>2, LaterBarsHidden
<1> QED
  BY <1>11, <1>b

LEMMA RegimesCausal ==
    ASSUME NEW x, RegimesGiven(x), Lengths.sma \in Nat, Lengths.atr \in Nat, Lengths.rank \in Nat,
           Lengths.near \in Nat, Lengths.bars \in Nat, Lengths.sma < Lengths.bars,
           NEW a, a = RegimeReport(x.trades, x.bars, Lengths, MinTrades)
    PROVE  RegimesAreCausal(x, a)
<1>a. PICK bars, n : bars = x.bars /\ n = Len(x.bars)
  OBVIOUS
<1>1. n \in Nat /\ DOMAIN bars = 1..n
  <2>1. bars \in Seq(Range(bars))
    BY <1>a DEF RegimesGiven, List
  <2> QED
    BY <1>a, <2>1
<1>2. /\ \A i \in 1..n : bars[i].at \in Int
      /\ \A i, j \in 1..n : i <= j => bars[i].at <= bars[j].at
      /\ \A i \in DOMAIN x.trades : x.trades[i].entry \in Int
  BY <1>1, <1>a DEF RegimesGiven
<1>3. ASSUME n >= Lengths.bars, NEW i \in DOMAIN x.trades
      PROVE  RegimeAt(bars, x.trades[i].entry, Lengths) =
               RegimeAt(SubSeq(bars, 1, Max({Max(NearestBars(bars, x.trades[i].entry)), Lengths.sma + 1})),
                        x.trades[i].entry, Lengths)
  <2>a. PICK e, m : e = x.trades[i].entry /\ m = Max({Max(NearestBars(bars, e)), Lengths.sma + 1})
    OBVIOUS
  <2>1. e \in Int
    BY <1>2, <2>a
  <2>2. n \in Nat \ {0} /\ Lengths.sma + 1 <= n
    BY <1>1, <1>3
  <2>4. PICK u \in NearestBars(bars, e) :
          Max(NearestBars(bars, e)) = u /\ \A k \in NearestBars(bars, e) : k <= u
    BY <1>1, <1>2, <2>1, <2>2, NearestLast
  <2>5. m = IF u >= Lengths.sma + 1 THEN u ELSE Lengths.sma + 1
    <3>1. u \in Int /\ Lengths.sma + 1 \in Int
      BY <1>1, <2>4 DEF NearestBars
    <3>2. m = Max({u, Lengths.sma + 1})
      BY <2>4, <2>a
    <3> QED
      BY <3>1, <3>2, MaxOfTwo
  <2>3. RegimeAt(bars, e, Lengths) = RegimeAt(SubSeq(bars, 1, m), e, Lengths)
    <3>1. Len(bars) = n
      BY <1>a
    <3> QED
      BY SMTT(30), <1>1, <1>2, <2>1, <2>2, <2>4, <2>5, <3>1, RegimeCausal
  <2> QED
    BY <2>3, <2>a
<1>4. ASSUME a.promising
      PROVE  \E r \in DOMAIN a.of : a.of[r].n >= MinTrades
  <2>a. PICK cl : cl = Classified(x.trades, x.bars, Lengths)
    OBVIOUS
  <2>b. PICK br : br = Breakdown(cl)
    OBVIOUS
  <2>1. a = IF x.trades = <<>> \/ cl = None THEN [best |-> None, promising |-> FALSE, of |-> <<>>]
            ELSE [best |-> BestPf(br, MinTrades), of |-> br,
                  promising |-> BestPf(br, MinTrades) # None /\ BestPf(br, MinTrades) >= 115]
    BY <2>a, <2>b DEF RegimeReport
  <2>2. a.of = br /\ BestPf(br, MinTrades) # None
    <3>1. CASE x.trades = <<>> \/ cl = None
      <4>1. a = [best |-> None, promising |-> FALSE, of |-> <<>>]
        BY <2>1, <3>1
      <4> QED
        BY <1>4, <4>1
    <3>2. CASE ~(x.trades = <<>> \/ cl = None)
      <4>1. a = [best |-> BestPf(br, MinTrades), of |-> br,
                 promising |-> BestPf(br, MinTrades) # None /\ BestPf(br, MinTrades) >= 115]
        BY <2>1, <3>2
      <4>2. a.of = br /\ a.promising = (BestPf(br, MinTrades) # None /\ BestPf(br, MinTrades) >= 115)
        BY <4>1
      <4> QED
        BY <1>4, <4>2
    <3> QED
      BY <3>1, <3>2
  <2>3. {br[r].pf : r \in {r \in DOMAIN br : br[r].n >= MinTrades}} # {}
    BY <2>2 DEF BestPf
  <2> QED
    BY <2>2, <2>3
<1>5. RegimesAreCausal(x, a) <=>
        /\ OwnRegimes(x.trades) = None /\ n >= Lengths.bars =>
            \A i \in DOMAIN x.trades :
                RegimeAt(bars, x.trades[i].entry, Lengths) =
                    RegimeAt(SubSeq(bars, 1, Max({Max(NearestBars(bars, x.trades[i].entry)), Lengths.sma + 1})),
                             x.trades[i].entry, Lengths)
        /\ a.promising => \E r \in DOMAIN a.of : a.of[r].n >= MinTrades
  BY <1>a DEF RegimesAreCausal, NearestBars, FarFrom
<1> QED
  BY <1>3, <1>4, <1>5

(* The deepest fall *)

FallFrom(a, y) == (10000 * (a - y)) \div a
Ruin == 10000

(* Who owes more than nothing has lost more than everything.                *)
LEMMA RuinIs ==
    ASSUME NEW a \in Nat \ {0}, NEW y \in Int, y < 0
    PROVE  Ruin <= FallFrom(a, y)
<1>a. PICK q, s : s = 10000 * (a - y) /\ q = s \div a
  OBVIOUS
<1>1. s \in Int /\ q \in Int
  <2>1. s \in Int
    BY <1>a
  <2> QED
    BY <1>a, <2>1, DivIs
<1>2. s < q * a + a
  BY <1>1, <1>a, DivIs
<1>3. s > 10000 * a
  BY <1>a
<1> SUFFICES ASSUME q <= 9999
             PROVE  FALSE
  BY <1>1, <1>a DEF FallFrom, Ruin
<1>4. q * a <= 9999 * a
  BY <1>1
<1>5. q * a \in Int
  BY <1>1
<1> QED
  BY <1>2, <1>3, <1>4, <1>5, <1>1

LEMMA FallDeepens ==
    ASSUME NEW a \in Nat \ {0}, NEW b \in Nat \ {0}, a <= b, NEW y \in Nat
    PROVE  FallFrom(a, y) <= FallFrom(b, y)
<1>a. PICK q, p : q = FallFrom(a, y) /\ p = FallFrom(b, y)
  OBVIOUS
<1>b. PICK s, t : s = 10000 * (a - y) /\ t = 10000 * (b - y)
  OBVIOUS
<1>1. s \in Int /\ t \in Int
  BY <1>b
<1>2. q \in Int /\ q * a <= s
  <2>1. q = s \div a
    BY <1>a, <1>b DEF FallFrom
  <2> QED
    BY <1>1, <2>1, DivIs
<1>3. p \in Int /\ t < p * b + b
  <2>1. p = t \div b
    BY <1>a, <1>b DEF FallFrom
  <2> QED
    BY <1>1, <2>1, DivIs
<1> SUFFICES ASSUME q > p
             PROVE  FALSE
  BY <1>2, <1>3, <1>a
<1>c. PICK c : c = 10000 - q
  OBVIOUS
<1>4. c \in Int /\ q = 10000 - c
  BY <1>2, <1>c
<1>5. c * a >= 10000 * y
  <2>1. q * a = 10000 * a - c * a
    BY <1>4
  <2>2. s = 10000 * a - 10000 * y
    BY <1>b
  <2>3. c * a \in Int
    BY <1>4
  <2> QED
    BY <1>2, <2>1, <2>2, <2>3
<1>6. c >= 0
  <2> SUFFICES ASSUME c <= -1
               PROVE  FALSE
    BY <1>4
  <2>1. c * a <= (-1) * a
    BY <1>4
  <2> QED
    BY <1>4, <1>5, <2>1
<1>7. c * b >= c * a
  BY <1>4, <1>6
<1>8. q * b <= t
  <2>1. q * b = 10000 * b - c * b
    BY <1>4
  <2>2. t = 10000 * b - 10000 * y
    BY <1>b
  <2>3. c * b \in Int /\ c * a \in Int
    BY <1>4
  <2> QED
    BY <1>5, <1>7, <2>1, <2>2, <2>3
<1>9. (p + 1) * b <= q * b /\ (p + 1) * b = p * b + b
  BY <1>2, <1>3
<1>10. p * b \in Int /\ q * b \in Int
  BY <1>2, <1>3
<1> QED
  BY <1>1, <1>3, <1>8, <1>9, <1>10

Sunk == [peak : Int, worst : Int]
Deep(peak, y) == IF peak > 0 THEN (10000 * (peak - y)) \div peak ELSE 0
Fallen(peak, worst, y) == [peak |-> peak, worst |-> Max({worst, Deep(peak, y)})]

LEMMA FallIs ==
    ASSUME NEW acc \in Sunk, NEW y \in Int, NEW top, top = IF acc.peak >= y THEN acc.peak ELSE y,
           NEW fall, fall = IF top > 0 THEN FallFrom(top, y) ELSE 0
    PROVE  /\ Fall(acc, y) \in Sunk /\ top \in Int /\ fall \in Int
           /\ Fall(acc, y).peak = top
           /\ Fall(acc, y).worst = IF acc.worst >= fall THEN acc.worst ELSE fall
<1>1. acc.peak \in Int /\ acc.worst \in Int
  BY DEF Sunk
<1>2. top \in Int /\ top = Max({acc.peak, y})
  BY <1>1, MaxOfTwo
<1>3. fall \in Int
  <2>1. CASE top > 0
    <3>1. top \in Nat \ {0} /\ 10000 * (top - y) \in Int
      BY <1>2, <2>1
    <3>2. (10000 * (top - y)) \div top \in Int
      BY <3>1, DivIs
    <3> QED
      BY <2>1, <3>2 DEF FallFrom
  <2> QED
    BY <1>2, <2>1
<1>a. PICK w : w = IF acc.worst >= fall THEN acc.worst ELSE fall
  OBVIOUS
<1>4. w = Max({acc.worst, fall}) /\ w \in Int
  BY <1>1, <1>3, <1>a, MaxOfTwo
<1>5. Fall(acc, y) = [peak |-> top, worst |-> w]
  <2>1. Fall(acc, y) = Fallen(Max({acc.peak, y}), acc.worst, y)
    BY DEF Fall, Fallen, Deep
  <2>2. Fall(acc, y) = Fallen(top, acc.worst, y)
    BY <1>2, <2>1
  <2>3. fall = Deep(top, y)
    BY DEF FallFrom, Deep
  <2>4. Fallen(top, acc.worst, y) = [peak |-> top, worst |-> Max({acc.worst, fall})]
    BY <2>3 DEF Fallen
  <2> QED
    BY <1>4, <2>2, <2>4
<1> QED
  BY <1>2, <1>3, <1>4, <1>5, <1>a DEF Sunk

LEMMA FallTyped ==
    ASSUME NEW acc \in Sunk, NEW y \in Int
    PROVE  Fall(acc, y) \in Sunk
<1>a. PICK top : top = IF acc.peak >= y THEN acc.peak ELSE y
  OBVIOUS
<1>b. PICK fall : fall = IF top > 0 THEN FallFrom(top, y) ELSE 0
  OBVIOUS
<1> QED
  BY <1>a, <1>b, FallIs

FallSteps(h, v) ==
    /\ h[0] = [peak |-> IF v = <<>> THEN 0 ELSE v[1], worst |-> 0]
    /\ \A k \in 0..Len(v) : h[k] \in Sunk
    /\ \A k \in 1..Len(v) : h[k] = Fall(h[k - 1], v[k])

LEMMA FallIsSteps ==
    ASSUME NEW v, ListOf(v), \A k \in DOMAIN v : v[k] \in Int, v # <<>> => 1 \in DOMAIN v
    PROVE  \E h : FallSteps(h, v) /\ MaxDrawdown(v) = h[Len(v)].worst
<1> DEFINE n == Len(v)
           V == Sunk
           b == [peak |-> IF v = <<>> THEN 0 ELSE v[1], worst |-> 0]
           Is(it) == it = [U \in SUBSET DOMAIN v |->
                              IF U = {} THEN b ELSE Fall(it[U \ {Max(U)}], v[Max(U)])]
           iter == CHOOSE it : Is(it)
<1>1. MaxDrawdown(v) = iter[DOMAIN v].worst
  BY DEF MaxDrawdown, FoldLeft, MapThenFoldSet
<1>2. n \in Nat /\ DOMAIN v = 1..n
  BY DEF ListOf
<1>3. b \in V
  BY DEF Sunk
<1> DEFINE step == [p \in (1..n) \X V |-> Fall(p[2], v[p[1]])]
<1>4. step \in [(1..n) \X V -> V]
  <2> SUFFICES ASSUME NEW k \in 1..n, NEW u \in V
               PROVE  Fall(u, v[k]) \in V
    OBVIOUS
  <2> QED
    BY <1>2, FallTyped
<1>5. PICK it : Folds(it, V, b, n, step)
  <2> HIDE DEF V, b, step, n
  <2> QED
    BY <1>2, <1>3, <1>4, FoldExists
<1>6. \A U \in SUBSET DOMAIN v :
        it[U] = IF U = {} THEN b ELSE Fall(it[U \ {Max(U)}], v[Max(U)])
  <2> SUFFICES ASSUME NEW U \in SUBSET (1..n)
               PROVE  it[U] = IF U = {} THEN b ELSE Fall(it[U \ {Max(U)}], v[Max(U)])
    BY <1>2
  <2>1. it[U] \in V /\ it[U \ {Max(U)}] \in V
    BY <1>5 DEF Folds
  <2>2. CASE U = {}
    BY <1>5, <2>1, <2>2 DEF Folds
  <2>3. CASE U # {}
    <3>1. Max(U) \in 1..n /\ it[U] = step[<<Max(U), it[U \ {Max(U)}]>>]
      BY <1>5, <2>3 DEF Folds
    <3> QED
      BY <2>1, <2>3, <3>1
  <2> QED
    BY <2>2, <2>3
<1>7. Is(it)
  <2>1. it \in [SUBSET DOMAIN v -> V]
    BY <1>2, <1>5 DEF Folds
  <2> HIDE DEF b, V
  <2> QED
    BY <1>6, <2>1
<1>8. Is(iter)
  <2> HIDE DEF Is
  <2> QED
    BY <1>7
<1>9. ASSUME NEW U \in SUBSET (1..n)
      PROVE  iter[U] = IF U = {} THEN b ELSE Fall(iter[U \ {Max(U)}], v[Max(U)])
  BY <1>2, <1>8
<1> PICK h : h = [k \in 0..n |-> iter[1..k]]
  OBVIOUS
<1>10. h[0] = b
  <2>1. 1..0 = {} /\ {} \in SUBSET (1..n) /\ 0 \in 0..n
    BY <1>2
  <2> QED
    BY <1>9, <2>1
<1>11. ASSUME NEW k \in 1..n
       PROVE  h[k] = Fall(h[k - 1], v[k])
  <2>1. 1..k \in SUBSET (1..n) /\ 1..k # {} /\ k \in Nat \ {0} /\ k \in 0..n /\ k - 1 \in 0..n
    BY <1>2
  <2>2. Max(1..k) = k /\ (1..k) \ {Max(1..k)} = 1..(k - 1)
    BY <2>1, LastOfInterval
  <2>3. iter[1..k] = Fall(iter[1..(k - 1)], v[k])
    BY <1>9, <2>1, <2>2
  <2>4. h[k] = iter[1..k] /\ h[k - 1] = iter[1..(k - 1)]
    BY <2>1
  <2> QED
    BY <2>3, <2>4
<1>12. \A k \in 0..n : h[k] \in V
  <2> DEFINE Bad == {k \in 0..n : h[k] \notin V}
  <2> SUFFICES ASSUME Bad # {}
               PROVE  FALSE
    OBVIOUS
  <2>1. PICK k \in Bad : \A j \in Bad : k <= j
    <3>1. Bad \in SUBSET Nat
      BY <1>2
    <3> HIDE DEF Bad
    <3> QED
      BY <3>1, LeastNumber
  <2>2. k \in 0..n /\ h[k] \notin V
    BY <2>1
  <2>3. k # 0
    BY <1>3, <1>10, <2>2
  <2>4. k \in 1..n /\ h[k - 1] \in V
    <3>1. k \in 1..n /\ k - 1 \in 0..n /\ ~(k <= k - 1)
      BY <1>2, <2>2, <2>3
    <3> HIDE DEF V
    <3> QED
      BY <2>1, <3>1
  <2>5. h[k] \in V
    <3>1. Fall(h[k - 1], v[k]) \in V
      BY <1>2, <2>4, FallTyped
    <3> QED
      BY <1>11, <2>4, <3>1
  <2> QED
    BY <2>2, <2>5
<1>13. h[n] = iter[DOMAIN v]
  BY <1>2
<1> HIDE DEF iter
<1> QED
  BY <1>1, <1>10, <1>11, <1>12, <1>13 DEF FallSteps


DrawInv(acc, v, k) ==
    /\ k = 0 => acc.peak = v[1] /\ acc.worst = 0
    /\ k > 0 => \E i \in 1..k : acc.peak = v[i]
    /\ \A i \in 1..k : v[i] <= acc.peak
    /\ acc.worst = 0 \/ \E i, j \in 1..k : i <= j /\ v[i] > 0 /\ acc.worst = FallFrom(v[i], v[j])
    /\ \A i, j \in 1..k : i <= j /\ v[i] > 0 /\ v[j] >= 0 => FallFrom(v[i], v[j]) <= acc.worst
    /\ \A i, j \in 1..k : i <= j /\ v[i] > 0 /\ v[j] < 0 => Ruin <= acc.worst

LEMMA DrawKeeps ==
    ASSUME NEW n \in Nat, NEW v, \A i \in 1..n : v[i] \in Int, NEW k \in 1..n,
           NEW acc \in Sunk, DrawInv(acc, v, k - 1), NEW next, next = Fall(acc, v[k])
    PROVE  DrawInv(next, v, k)
<1>a. PICK y : y = v[k]
  OBVIOUS
<1>b. PICK top : top = IF acc.peak >= y THEN acc.peak ELSE y
  OBVIOUS
<1>c. PICK fall : fall = IF top > 0 THEN FallFrom(top, y) ELSE 0
  OBVIOUS
<1>1. y \in Int /\ acc.peak \in Int /\ acc.worst \in Int
  BY <1>a DEF Sunk
<1>2. /\ top \in Int /\ fall \in Int /\ next.peak = top
      /\ next.worst = IF acc.worst >= fall THEN acc.worst ELSE fall
  BY <1>1, <1>a, <1>b, <1>c, FallIs
<1>3. /\ k - 1 = 0 => acc.peak = v[1]
      /\ k - 1 > 0 => \E i \in 1..(k - 1) : acc.peak = v[i]
      /\ \A i \in 1..(k - 1) : v[i] <= acc.peak
  BY DEF DrawInv
<1>4. \A i \in 1..k : v[i] \in Int /\ v[i] <= top
  <2> SUFFICES ASSUME NEW i \in 1..k
               PROVE  v[i] \in Int /\ v[i] <= top
    OBVIOUS
  <2>1. v[i] \in Int
    OBVIOUS
  <2>2. CASE i = k
    BY <1>1, <1>2, <1>a, <1>b, <2>2
  <2>3. CASE i \in 1..(k - 1)
    <3>1. v[i] <= acc.peak
      BY <1>3, <2>3
    <3> QED
      BY <1>1, <1>b, <2>1, <3>1
  <2> QED
    BY <2>2, <2>3
<1>5. PICK i0 \in 1..k : v[i0] = top
  <2>1. CASE top = y
    <3>1. k \in 1..k
      OBVIOUS
    <3> QED
      BY <1>a, <2>1, <3>1
  <2>2. CASE top = acc.peak /\ k - 1 = 0
    <3>1. 1 \in 1..k
      OBVIOUS
    <3> QED
      BY <1>3, <2>2, <3>1
  <2>3. CASE top = acc.peak /\ k - 1 > 0
    <3>1. PICK i \in 1..(k - 1) : acc.peak = v[i]
      BY <1>3, <2>3
    <3>2. i \in 1..k
      OBVIOUS
    <3> QED
      BY <2>3, <3>1, <3>2
  <2> QED
    BY <1>b, <2>1, <2>2, <2>3
<1>6. k \in 1..k /\ i0 <= k
  OBVIOUS
<1>7. acc.worst = 0 \/ \E i, j \in 1..(k - 1) : i <= j /\ v[i] > 0 /\ acc.worst = FallFrom(v[i], v[j])
  BY DEF DrawInv
<1>8. next.worst = 0 \/ \E i, j \in 1..k : i <= j /\ v[i] > 0 /\ next.worst = FallFrom(v[i], v[j])
  <2>1. CASE next.worst = acc.worst
    <3>1. 1..(k - 1) \subseteq 1..k
      OBVIOUS
    <3> QED
      BY <1>7, <2>1, <3>1
  <2>2. CASE next.worst = fall
    BY <1>5, <1>6, <1>a, <1>c, <2>2
  <2> QED
    BY <1>2, <2>1, <2>2
<1>9. ASSUME NEW i \in 1..k, NEW j \in 1..k, i <= j, v[i] > 0, v[j] >= 0
      PROVE  FallFrom(v[i], v[j]) <= next.worst
  <2>1. next.worst >= acc.worst /\ next.worst >= fall /\ next.worst \in Int
    BY <1>1, <1>2
  <2>2. v[i] \in Int /\ v[j] \in Int /\ v[i] <= top
    BY <1>4
  <2>a. PICK d : d = FallFrom(v[i], v[j])
    OBVIOUS
  <2>3. d \in Int
    <3>1. v[i] \in Nat \ {0} /\ 10000 * (v[i] - v[j]) \in Int
      BY <1>9, <2>2
    <3> QED
      BY <2>a, <3>1, DivIs DEF FallFrom
  <2>4. CASE j = k
    <3>1. v[i] \in Nat \ {0} /\ top \in Nat \ {0} /\ y \in Nat /\ y = v[j]
      BY <1>1, <1>2, <1>9, <1>a, <2>2, <2>4
    <3>2. d <= FallFrom(top, y)
      BY <2>2, <2>a, <3>1, FallDeepens
    <3>3. fall = FallFrom(top, y)
      BY <1>c, <3>1
    <3> QED
      BY <1>2, <2>1, <2>3, <2>a, <3>2, <3>3
  <2>5. CASE j \in 1..(k - 1)
    <3>1. i \in 1..(k - 1)
      BY <1>9, <2>5
    <3>2. d <= acc.worst
      BY <1>9, <2>5, <2>a, <3>1 DEF DrawInv
    <3> QED
      BY <1>1, <2>1, <2>3, <2>a, <3>2
  <2> QED
    BY <2>4, <2>5
<1>10. \E i \in 1..k : next.peak = v[i]
  BY <1>2, <1>5
<1>11. k # 0
  OBVIOUS
<1>12. ASSUME NEW i \in 1..k, NEW j \in 1..k, i <= j, v[i] > 0, v[j] < 0
       PROVE  Ruin <= next.worst
  <2>1. next.worst >= acc.worst /\ next.worst >= fall /\ next.worst \in Int
    BY <1>1, <1>2
  <2>2. v[i] \in Int /\ v[j] \in Int /\ v[i] <= top
    BY <1>4
  <2>3. Ruin \in Int
    BY DEF Ruin
  <2>4. CASE j = k
    <3>1. top \in Nat \ {0} /\ y \in Int /\ y < 0
      BY <1>1, <1>2, <1>12, <1>a, <2>2, <2>4
    <3>2. Ruin <= FallFrom(top, y)
      BY <3>1, RuinIs
    <3>3. fall = FallFrom(top, y)
      BY <1>c, <3>1
    <3> QED
      BY <1>2, <2>1, <2>3, <3>2, <3>3
  <2>5. CASE j \in 1..(k - 1)
    <3>1. i \in 1..(k - 1)
      BY <1>12, <2>5
    <3>2. Ruin <= acc.worst
      BY <1>12, <2>5, <3>1 DEF DrawInv
    <3> QED
      BY <1>1, <2>1, <2>3, <3>2
  <2> QED
    BY <2>4, <2>5
<1> QED
  BY <1>2, <1>4, <1>8, <1>9, <1>10, <1>11, <1>12 DEF DrawInv

Deepest(v, d) ==
    /\ d = 0 \/ \E i, j \in 1..Len(v) : i <= j /\ v[i] > 0 /\ d = FallFrom(v[i], v[j])
    /\ \A i, j \in 1..Len(v) : i <= j /\ v[i] > 0 /\ v[j] >= 0 => FallFrom(v[i], v[j]) <= d
    /\ \A i, j \in 1..Len(v) : i <= j /\ v[i] > 0 /\ v[j] < 0 => Ruin <= d

LEMMA DrawdownIs ==
    ASSUME NEW v \in Seq(Int)
    PROVE  Deepest(v, MaxDrawdown(v)) /\ MaxDrawdown(v) \in Int
<1>a. PICK n : n = Len(v)
  OBVIOUS
<1>1. n \in Nat /\ DOMAIN v = 1..n /\ \A i \in 1..n : v[i] \in Int
  BY <1>a
<1>2. ListOf(v) /\ \A k \in DOMAIN v : v[k] \in Int
  BY DEF ListOf
<1>3. v # <<>> => 1 \in DOMAIN v
  OBVIOUS
<1>4. PICK h : FallSteps(h, v) /\ MaxDrawdown(v) = h[Len(v)].worst
  BY <1>2, <1>3, FallIsSteps
<1>5. /\ \A k \in 0..n : h[k] \in Sunk
      /\ \A k \in 1..n : h[k] = Fall(h[k - 1], v[k])
      /\ h[0] = [peak |-> IF v = <<>> THEN 0 ELSE v[1], worst |-> 0]
      /\ MaxDrawdown(v) = h[n].worst
  BY <1>4, <1>a DEF FallSteps
<1>6. CASE n = 0
  <2>1. MaxDrawdown(v) = 0
    BY <1>5, <1>6
  <2>2. \A i \in 1..Len(v) : FALSE
    BY <1>6, <1>a
  <2> QED
    BY <2>1, <2>2 DEF Deepest
<1>7. CASE n > 0
  <2>1. DrawInv(h[0], v, 0)
    <3>1. h[0].peak = v[1] /\ h[0].worst = 0
      BY <1>5, <1>7, <1>a
    <3> QED
      BY <3>1 DEF DrawInv
  <2>2. DrawInv(h[n], v, n)
    <3> DEFINE Bad == {k \in 0..n : ~DrawInv(h[k], v, k)}
    <3>1. CASE Bad = {}
      <4>1. n \in 0..n
        BY <1>1
      <4> QED
        BY <3>1, <4>1
    <3>2. CASE Bad # {}
      <4>1. PICK k \in Bad : \A j \in Bad : k <= j
        <5>1. Bad \in SUBSET Nat
          BY <1>1
        <5> HIDE DEF Bad
        <5> QED
          BY <3>2, <5>1, LeastNumber
      <4>2. k \in 0..n /\ ~DrawInv(h[k], v, k)
        BY <4>1
      <4>3. k # 0
        BY <2>1, <4>2
      <4>4. k \in 1..n /\ k - 1 \in 0..n /\ ~(k <= k - 1)
        BY <1>1, <4>2, <4>3
      <4>5. DrawInv(h[k - 1], v, k - 1)
        BY <4>1, <4>4
      <4>6. DrawInv(h[k], v, k)
        BY <1>1, <1>5, <4>4, <4>5, DrawKeeps
      <4> QED
        BY <4>2, <4>6
    <3> QED
      BY <3>1, <3>2
  <2>3. n \in 0..n
    BY <1>1
  <2>4. h[n].worst \in Int
    BY <1>5, <2>3 DEF Sunk
  <2> QED
    BY ZenonT(30), <1>5, <1>a, <2>2, <2>4 DEF DrawInv, Deepest
<1> QED
  BY <1>1, <1>6, <1>7

LEMMA ValuesAre ==
    ASSUME NEW points, PointsGiven(points)
    PROVE  /\ Field(points, LAMBDA p : p.value) \in Seq(Int)
           /\ Len(Field(points, LAMBDA p : p.value)) = Len(points)
           /\ points \in Seq(Range(points)) /\ Len(points) \in Nat
           /\ \A i \in 1..Len(points) : points[i].value \in Int /\ points[i].day \in Date
<1>1. points \in Seq(Range(points)) /\ \A p \in Range(points) : p.day \in Date /\ p.value \in Int
  BY DEF PointsGiven, List
<1>a. PICK n : n = Len(points)
  OBVIOUS
<1>2. n \in Nat /\ DOMAIN points = 1..n /\ \A i \in 1..n : points[i] \in Range(points)
  BY <1>1, <1>a
<1>3. Field(points, LAMBDA p : p.value) = [i \in 1..n |-> points[i].value]
  BY <1>2 DEF Field
<1>4. \A i \in 1..n : points[i].value \in Int
  BY <1>1, <1>2
<1>5. [i \in 1..n |-> points[i].value] \in Seq(Int) /\ Len([i \in 1..n |-> points[i].value]) = n
  BY <1>2, <1>4
<1> QED
  BY <1>1, <1>2, <1>3, <1>4, <1>5, <1>a

(* A book that passes is not below the deepest fall that is allowed.       *)
LEMMA PassedIsShallow ==
    ASSUME NEW points, NEW growth, NEW sharpe, NEW legs, NEW leverage, NEW perLeg, NEW cap, NEW strict,
           CarryVerdict(points, growth, sharpe, legs, leverage, perLeg, cap, strict) = "passed",
           NEW d \in Int, d = MaxDrawdown(Field(points, LAMBDA p : p.value)), Len(points) \in Nat
    PROVE  d <= 1500
<1> PICK m : m = MetricsOf(points, growth, sharpe)
  OBVIOUS
<1>1. ~(Len(points) < 2)
  BY DEF CarryVerdict
<1>2. m.drawdown = d
  BY <1>1 DEF MetricsOf
<1>3. ~(m.drawdown > 1500)
  BY DEF CarryVerdict
<1> QED
  BY <1>2, <1>3

LEMMA DrawdownDeepest ==
    ASSUME NEW x, CarryGiven(x), x.run # None
    PROVE  DrawdownIsDeepest(x, EvaluateRun(x.run, x.growth, x.sharpe, 3, x.strict))
<1> DEFINE points == x.run.points
           v == Field(points, LAMBDA p : p.value)
           d == MaxDrawdown(v)
           a == EvaluateRun(x.run, x.growth, x.sharpe, 3, x.strict)
           n == Len(v)
           fall(p) == (10000 * (v[p[1]] - v[p[2]])) \div v[p[1]]
           falls == {p \in (1..n) \X (1..n) : p[1] <= p[2] /\ v[p[1]] > 0}
<1>1. PointsGiven(points)
  BY DEF CarryGiven
<1>2. v \in Seq(Int) /\ Len(points) \in Nat
  BY <1>1, ValuesAre
<1>3. Deepest(v, d) /\ d \in Int
  <2> HIDE DEF v
  <2> QED
    BY <1>2, DrawdownIs
<1>4. a = "passed" => d <= 1500
  <2> SUFFICES ASSUME a = "passed"
               PROVE  d <= 1500
    OBVIOUS
  <2> PICK legs, leverage, perLeg : /\ legs = (IF x.run.legs = None THEN 0 ELSE x.run.legs)
                                    /\ leverage = (IF x.run.leverage \in {None, 0} THEN 1 ELSE x.run.leverage)
                                    /\ perLeg = PerLeg(x.run.trades)
    OBVIOUS
  <2>1. CarryVerdict(points, x.growth, x.sharpe, legs, leverage, perLeg, 3, x.strict) = "passed"
    BY DEF EvaluateRun
  <2>2. d = MaxDrawdown(Field(points, LAMBDA p : p.value))
    OBVIOUS
  <2> HIDE DEF d, points
  <2> QED
    BY <1>2, <1>3, <2>1, <2>2, PassedIsShallow
<1> HIDE DEF points, v, d, a
<1>5. n \in Nat /\ \A i \in 1..n : v[i] \in Int
  BY <1>2
<1>6. d = 0 \/ \E p \in falls : d = fall(p)
  <2>1. CASE d = 0
    BY <2>1
  <2>2. ASSUME NEW i \in 1..n, NEW j \in 1..n, i <= j, v[i] > 0, d = FallFrom(v[i], v[j])
        PROVE  \E p \in falls : d = fall(p)
    <3>1. <<i, j>> \in falls
      BY <2>2
    <3>2. d = fall(<<i, j>>)
      BY <2>2 DEF FallFrom
    <3> HIDE DEF falls, fall
    <3> QED
      BY <3>1, <3>2
  <2> QED
    BY <1>3, <2>1, <2>2 DEF Deepest
<1>7. ASSUME NEW p \in falls, v[p[2]] >= 0
      PROVE  fall(p) <= d
  BY <1>3, <1>7 DEF Deepest, FallFrom
<1>9. ASSUME NEW p \in falls, ~(v[p[2]] >= 0)
      PROVE  d >= 10000
  <2>1. p[1] \in 1..n /\ p[2] \in 1..n /\ p[1] <= p[2] /\ v[p[1]] > 0
    OBVIOUS
  <2>2. v[p[2]] < 0
    BY <1>5, <1>9, <2>1
  <2>3. Ruin <= d
    BY <1>3, <2>1, <2>2 DEF Deepest
  <2> QED
    BY <1>3, <2>3 DEF Ruin
<1>8. ASSUME NEW p \in falls, d <= 1500
      PROVE  fall(p) <= 1500
  <2>1. fall(p) \in Int
    <3>1. p[1] \in 1..n /\ p[2] \in 1..n /\ v[p[1]] \in Nat \ {0}
      BY <1>5
    <3>2. PICK y, w : y = v[p[1]] /\ w = v[p[2]]
      OBVIOUS
    <3>3. y \in Nat \ {0} /\ w \in Int
      BY <1>5, <3>1, <3>2
    <3>4. 10000 * (y - w) \in Int
      BY <3>3
    <3>5. (10000 * (y - w)) \div y \in Int
      BY <3>3, <3>4, DivIs
    <3> QED
      BY <3>2, <3>5
  <2>2. fall(p) <= d
    BY <1>3, <1>7, <1>8, <1>9
  <2> HIDE DEF fall
  <2> QED
    BY <1>3, <1>8, <2>1, <2>2
<1> HIDE DEF fall, falls
<1> QED
  <2>1. \A p \in falls : IF v[p[2]] >= 0 THEN fall(p) <= d ELSE d >= 10000
    BY <1>7, <1>9
  <2>2. a = "passed" => \A p \in falls : fall(p) <= 1500
    BY <1>4, <1>8
  <2> USE DEF fall, falls, n, v, d, a, points
  <2>3. DrawdownIsDeepest(x, a) <=>
           /\ d = 0 \/ \E p \in falls : d = fall(p)
           /\ \A p \in falls : IF v[p[2]] >= 0 THEN fall(p) <= d ELSE d >= 10000
           /\ a = "passed" => \A p \in falls : fall(p) <= 1500
    BY DEF DrawdownIsDeepest
  <2> HIDE DEF fall, falls, n, v, d, points
  <2> QED
    BY <1>6, <2>1, <2>2, <2>3

(* The preview of a carry book *)

Start == <<10000>>
Paid(y, r) == (y * (10000 + r)) \div 10000
Grown(s, r) == Append(s, Paid(s[Len(s)], r))

Ledgers == {s \in Seq(Int) : Len(s) > 0}

LEMMA GrownTyped ==
    ASSUME NEW s \in Ledgers, NEW r \in Int
    PROVE  Grown(s, r) \in Ledgers
<1>1. s \in Seq(Int) /\ Len(s) \in Nat \ {0} /\ s[Len(s)] \in Int
  BY DEF Ledgers
<1>a. PICK y, w : y = s[Len(s)] * (10000 + r) /\ w = y \div 10000
  OBVIOUS
<1>2. y \in Int
  BY <1>1, <1>a
<1>3. w \in Int
  BY <1>2, <1>a, DivIs
<1>4. Append(s, w) \in Seq(Int) /\ Len(Append(s, w)) = Len(s) + 1
  BY <1>1, <1>3
<1>5. Grown(s, r) = Append(s, w)
  BY <1>a DEF Grown, Paid
<1> QED
  BY <1>1, <1>4, <1>5 DEF Ledgers

GrownSteps(h, rets) ==
    /\ h[0] = Start
    /\ \A k \in 0..Len(rets) : h[k] \in Ledgers
    /\ \A k \in 1..Len(rets) : h[k] = Grown(h[k - 1], rets[k])

LEMMA EquityIsSteps ==
    ASSUME NEW rets, ListOf(rets), \A k \in DOMAIN rets : rets[k] \in Int
    PROVE  \E h : GrownSteps(h, rets) /\ PreviewEquity(rets) = h[Len(rets)]
<1> DEFINE n == Len(rets)
           V == Ledgers
           b == Start
           Is(it) == it = [U \in SUBSET DOMAIN rets |->
                              IF U = {} THEN b ELSE Grown(it[U \ {Max(U)}], rets[Max(U)])]
           iter == CHOOSE it : Is(it)
<1>1. PreviewEquity(rets) = iter[DOMAIN rets]
  BY DEF PreviewEquity, FoldLeft, MapThenFoldSet, Grown, Paid, Start
<1>2. n \in Nat /\ DOMAIN rets = 1..n
  BY DEF ListOf
<1>3. b \in V
  BY DEF Ledgers, Start
<1> DEFINE step == [p \in (1..n) \X V |-> Grown(p[2], rets[p[1]])]
<1>4. step \in [(1..n) \X V -> V]
  <2> SUFFICES ASSUME NEW k \in 1..n, NEW v \in V
               PROVE  Grown(v, rets[k]) \in V
    OBVIOUS
  <2> QED
    BY <1>2, GrownTyped
<1>0. b = Start
  OBVIOUS
<1> HIDE DEF b
<1>5. PICK it : Folds(it, V, b, n, step)
  <2> HIDE DEF V, b, step, n
  <2> QED
    BY <1>2, <1>3, <1>4, FoldExists
<1>6. \A U \in SUBSET DOMAIN rets :
        it[U] = IF U = {} THEN b ELSE Grown(it[U \ {Max(U)}], rets[Max(U)])
  <2> SUFFICES ASSUME NEW U \in SUBSET (1..n)
               PROVE  it[U] = IF U = {} THEN b ELSE Grown(it[U \ {Max(U)}], rets[Max(U)])
    BY <1>2
  <2>1. it[U] \in V /\ it[U \ {Max(U)}] \in V
    BY <1>5 DEF Folds
  <2>2. CASE U = {}
    BY <1>5, <2>1, <2>2 DEF Folds
  <2>3. CASE U # {}
    <3>1. Max(U) \in 1..n /\ it[U] = step[<<Max(U), it[U \ {Max(U)}]>>]
      BY <1>5, <2>3 DEF Folds
    <3> QED
      BY <2>1, <2>3, <3>1
  <2> QED
    BY <2>2, <2>3
<1>7. Is(it)
  <2>1. it \in [SUBSET DOMAIN rets -> V]
    BY <1>2, <1>5 DEF Folds
  <2> HIDE DEF b, V
  <2> QED
    BY <1>6, <2>1
<1>8. Is(iter)
  <2> HIDE DEF Is
  <2> QED
    BY <1>7
<1>9. ASSUME NEW U \in SUBSET (1..n)
      PROVE  iter[U] = IF U = {} THEN b ELSE Grown(iter[U \ {Max(U)}], rets[Max(U)])
  BY <1>2, <1>8
<1> PICK h : h = [k \in 0..n |-> iter[1..k]]
  OBVIOUS
<1>10. h[0] = b
  <2>1. 1..0 = {} /\ {} \in SUBSET (1..n) /\ 0 \in 0..n
    BY <1>2
  <2> QED
    BY <1>9, <2>1
<1>11. ASSUME NEW k \in 1..n
       PROVE  h[k] = Grown(h[k - 1], rets[k])
  <2>1. 1..k \in SUBSET (1..n) /\ 1..k # {} /\ k \in Nat \ {0} /\ k \in 0..n /\ k - 1 \in 0..n
    BY <1>2
  <2>2. Max(1..k) = k /\ (1..k) \ {Max(1..k)} = 1..(k - 1)
    BY <2>1, LastOfInterval
  <2>3. iter[1..k] = Grown(iter[1..(k - 1)], rets[k])
    BY <1>9, <2>1, <2>2
  <2>4. h[k] = iter[1..k] /\ h[k - 1] = iter[1..(k - 1)]
    BY <2>1
  <2> QED
    BY <2>3, <2>4
<1>12. \A k \in 0..n : h[k] \in V
  <2> DEFINE Bad == {k \in 0..n : h[k] \notin V}
  <2> SUFFICES ASSUME Bad # {}
               PROVE  FALSE
    OBVIOUS
  <2>1. PICK k \in Bad : \A j \in Bad : k <= j
    <3>1. Bad \in SUBSET Nat
      BY <1>2
    <3> HIDE DEF Bad
    <3> QED
      BY <3>1, LeastNumber
  <2>2. k \in 0..n /\ h[k] \notin V
    BY <2>1
  <2>3. k # 0
    BY <1>3, <1>10, <2>2
  <2>4. k \in 1..n /\ h[k - 1] \in V
    <3>1. k \in 1..n /\ k - 1 \in 0..n /\ ~(k <= k - 1)
      BY <1>2, <2>2, <2>3
    <3> HIDE DEF V
    <3> QED
      BY <2>1, <3>1
  <2>5. h[k] \in V
    <3>1. Grown(h[k - 1], rets[k]) \in V
      BY <1>2, <2>4, GrownTyped
    <3> QED
      BY <1>11, <2>4, <3>1
  <2> QED
    BY <2>2, <2>5
<1>13. h[n] = iter[DOMAIN rets]
  BY <1>2
<1> HIDE DEF iter
<1> QED
  <2>1. h[0] = Start
    BY <1>0, <1>10
  <2>2. PreviewEquity(rets) = h[Len(rets)]
    BY <1>1, <1>13
  <2>3. GrownSteps(h, rets)
    BY <2>1, <1>11, <1>12 DEF GrownSteps
  <2> QED
    BY <2>2, <2>3

(* Equity is a list of one value more than the returns, each from the last.*)
EquityOf(e, rets, n) ==
    /\ Len(e) = n + 1 /\ \A i \in 1..(n + 1) : e[i] \in Int
    /\ e[1] = 10000
    /\ \A i \in 1..n : e[i + 1] = Paid(e[i], rets[i])

LEMMA EquityGrows ==
    ASSUME NEW s, NEW rets, NEW k \in Nat, EquityOf(s, rets, k), s \in Ledgers, rets[k + 1] \in Int
    PROVE  EquityOf(Grown(s, rets[k + 1]), rets, k + 1)
<1>a. PICK w, t : w = Paid(s[k + 1], rets[k + 1]) /\ t = Grown(s, rets[k + 1])
  OBVIOUS
<1>1. s \in Seq(Int) /\ Len(s) = k + 1 /\ \A i \in 1..(k + 1) : s[i] \in Int
  BY DEF Ledgers, EquityOf
<1>2. t = Append(s, w)
  BY <1>1, <1>a DEF Grown
<1>3. t \in Ledgers
  BY <1>a, GrownTyped
<1>4. Len(t) = k + 2 /\ t[k + 2] = w /\ \A i \in 1..(k + 1) : t[i] = s[i]
  BY <1>1, <1>2
<1>5. \A i \in 1..(k + 2) : t[i] \in Int
  <2>1. t \in Seq(Int)
    BY <1>3 DEF Ledgers
  <2> QED
    BY <1>4, <2>1
<1>6. t[1] = 10000
  BY <1>4 DEF EquityOf
<1>7. ASSUME NEW i \in 1..(k + 1)
      PROVE  t[i + 1] = Paid(t[i], rets[i])
  <2>1. CASE i = k + 1
    <3>1. t[i] = s[k + 1] /\ t[i + 1] = w
      BY <1>4, <2>1
    <3> QED
      BY <1>a, <2>1, <3>1
  <2>2. CASE i \in 1..k
    <3>1. t[i] = s[i] /\ t[i + 1] = s[i + 1]
      BY <1>4, <2>2
    <3> QED
      BY <2>2, <3>1 DEF EquityOf
  <2> QED
    BY <2>1, <2>2
<1>8. (k + 1) + 1 = k + 2
  OBVIOUS
<1> QED
  BY <1>4, <1>5, <1>6, <1>7, <1>8, <1>a DEF EquityOf

LEMMA EquityIs ==
    ASSUME NEW rets, ListOf(rets), \A k \in DOMAIN rets : rets[k] \in Int
    PROVE  EquityOf(PreviewEquity(rets), rets, Len(rets))
<1>1. PICK h : GrownSteps(h, rets) /\ PreviewEquity(rets) = h[Len(rets)]
  BY EquityIsSteps
<1>a. PICK n : n = Len(rets)
  OBVIOUS
<1>2. n \in Nat /\ \A k \in 1..n : rets[k] \in Int
  BY <1>a DEF ListOf
<1>3. EquityOf(h[0], rets, 0)
  <2>1. h[0] = Start
    BY <1>1 DEF GrownSteps
  <2> QED
    BY <2>1 DEF EquityOf, Start
<1>4. ASSUME NEW k \in 1..n, EquityOf(h[k - 1], rets, k - 1)
      PROVE  EquityOf(h[k], rets, k)
  <2>1. k - 1 \in Nat /\ (k - 1) + 1 = k /\ k - 1 \in 0..n /\ rets[k] \in Int
    BY <1>2
  <2>2. h[k - 1] \in Ledgers /\ h[k] = Grown(h[k - 1], rets[k])
    BY <1>1, <1>a, <2>1 DEF GrownSteps
  <2>a. PICK m : m = k - 1
    OBVIOUS
  <2>3. m \in Nat /\ m + 1 = k /\ EquityOf(h[m], rets, m) /\ h[m] \in Ledgers /\ rets[m + 1] \in Int
    BY <1>4, <2>1, <2>2, <2>a
  <2>4. EquityOf(Grown(h[m], rets[m + 1]), rets, m + 1)
    BY <2>3, EquityGrows
  <2> QED
    BY <2>2, <2>3, <2>4, <2>a
<1>5. EquityOf(h[n], rets, n)
  <2> DEFINE Bad == {k \in 0..n : ~EquityOf(h[k], rets, k)}
  <2> SUFFICES ASSUME Bad # {}
               PROVE  FALSE
    BY <1>2
  <2>1. PICK k \in Bad : \A j \in Bad : k <= j
    <3>1. Bad \in SUBSET Nat
      BY <1>2
    <3> HIDE DEF Bad
    <3> QED
      BY <3>1, LeastNumber
  <2>2. k \in 0..n /\ ~EquityOf(h[k], rets, k) /\ k # 0
    BY <1>3, <2>1
  <2>3. k \in 1..n /\ k - 1 \in 0..n /\ ~(k <= k - 1)
    BY <1>2, <2>2
  <2>4. EquityOf(h[k - 1], rets, k - 1)
    BY <2>1, <2>3
  <2> QED
    BY <1>4, <2>2, <2>3, <2>4
<1> QED
  BY <1>1, <1>5, <1>a

(* The value of the second, whose returns are less, stays below.           *)
LEMMA LessGrows ==
    ASSUME NEW n \in Nat, NEW a, NEW free, NEW r, NEW q, EquityOf(a, r, n), EquityOf(free, q, n),
           \A i \in 1..n : r[i] \in Int /\ q[i] \in Int /\ r[i] <= q[i],
           NEW i \in 1..(n + 1), \A j \in 1..i : a[j] > 0
    PROVE  a[i] <= free[i]
<1> DEFINE Bad == {k \in 1..i : ~(a[k] <= free[k])}
<1> SUFFICES ASSUME Bad # {}
             PROVE  FALSE
  OBVIOUS
<1>1. PICK k \in Bad : \A j \in Bad : k <= j
  <2>1. Bad \in SUBSET Nat
    OBVIOUS
  <2> HIDE DEF Bad
  <2> QED
    BY <2>1, LeastNumber
<1>2. k \in 1..i /\ ~(a[k] <= free[k])
  BY <1>1
<1>3. k # 1
  BY <1>2 DEF EquityOf
<1>a. PICK m : m = k - 1
  OBVIOUS
<1>4. m \in 1..i /\ m \in 1..n /\ m + 1 = k /\ k \in 1..(n + 1) /\ m \in 1..(n + 1) /\ ~(k <= m)
  BY <1>2, <1>3, <1>a
<1>5. a[m] <= free[m]
  BY <1>1, <1>4
<1>6. a[m] > 0 /\ a[k] > 0
  BY <1>2, <1>4
<1>7. /\ a[k] = Paid(a[m], r[m])
      /\ free[k] = Paid(free[m], q[m])
      /\ a[m] \in Int /\ a[k] \in Int /\ free[m] \in Int /\ free[k] \in Int
      /\ r[m] \in Int /\ q[m] \in Int /\ r[m] <= q[m]
  <2>1. /\ a[m + 1] = Paid(a[m], r[m])
        /\ free[m + 1] = Paid(free[m], q[m])
    <3>1. \A j \in 1..n : a[j + 1] = Paid(a[j], r[j])
      BY DEF EquityOf
    <3>2. \A j \in 1..n : free[j + 1] = Paid(free[j], q[j])
      BY DEF EquityOf
    <3> QED
      BY <1>4, <3>1, <3>2, Zenon
  <2>2. a[m] \in Int /\ a[k] \in Int /\ free[m] \in Int /\ free[k] \in Int
    BY <1>4 DEF EquityOf
  <2>3. r[m] \in Int /\ q[m] \in Int /\ r[m] <= q[m]
    BY <1>4
  <2> QED
    BY <1>4, <2>1, <2>2, <2>3
<1>b. PICK b, c, u, w, y, z : /\ b = a[m] /\ c = free[m] /\ u = 10000 + r[m] /\ w = 10000 + q[m]
                              /\ y = b * u /\ z = c * w
  OBVIOUS
<1>8. b \in Int /\ c \in Int /\ u \in Int /\ w \in Int /\ b > 0 /\ b <= c /\ u <= w
  BY <1>5, <1>6, <1>7, <1>b
<1>9. y \in Int /\ z \in Int
  BY <1>8, <1>b
<1>10. y > 0
  <2>1. y \div 10000 > 0
    BY <1>6, <1>7, <1>b DEF Paid
  <2>2. (y \div 10000) * 10000 <= y /\ y \div 10000 \in Int
    BY <1>9, DivIs
  <2> QED
    BY <1>9, <2>1, <2>2
<1>11. u > 0
  <2> SUFFICES ASSUME u <= 0
               PROVE  FALSE
    BY <1>8
  <2>1. b * u <= b * 0
    BY <1>8
  <2> QED
    BY <1>8, <1>10, <1>b, <2>1
<1>12. b * u <= c * u /\ c * u <= c * w /\ c * u \in Int
  BY <1>8, <1>11
<1>13. y <= z
  BY <1>9, <1>12, <1>b
<1>14. y \div 10000 <= z \div 10000
  BY <1>9, <1>13, DivGrows
<1> QED
  BY <1>2, <1>7, <1>14, <1>b DEF Paid


LEMMA Longest ==
    ASSUME NEW S, IsFiniteSet(S), S # {}, NEW f, \A s \in S : f[s] \in Nat
    PROVE  \E s \in S : \A u \in S : f[u] <= f[s]
<1> DEFINE Top(U) == \E s \in U : \A u \in U : f[u] <= f[s]
           Bad == {U \in SUBSET S : U # {} /\ ~Top(U)}
<1> SUFFICES ASSUME Bad # {}
             PROVE  FALSE
  OBVIOUS
<1>1. PICK U \in Bad : \A V \in Bad : V \subseteq U => V = U
  <2>1. Bad \in SUBSET SUBSET S
    OBVIOUS
  <2> HIDE DEF Bad
  <2> QED
    BY <2>1, SmallestSet
<1>2. U \in SUBSET S /\ U # {} /\ ~Top(U)
  BY <1>1
<1>3. PICK x \in U : TRUE
  BY <1>2
<1>4. U \ {x} \notin Bad /\ U \ {x} \in SUBSET S
  BY <1>1, <1>2, <1>3
<1>5. U \ {x} # {}
  <2> SUFFICES ASSUME U \ {x} = {}
               PROVE  FALSE
    OBVIOUS
  <2>1. \A u \in U : f[u] <= f[x]
    BY <1>2
  <2> QED
    BY <1>2, <1>3, <2>1
<1>6. PICK y \in U \ {x} : \A u \in U \ {x} : f[u] <= f[y]
  BY <1>4, <1>5
<1>7. f[x] \in Nat /\ f[y] \in Nat /\ \A u \in U : f[u] \in Nat
  BY <1>2, <1>3, <1>6
<1>8. CASE f[x] <= f[y]
  <2>1. \A u \in U : f[u] <= f[y]
    BY <1>6, <1>8
  <2> QED
    BY <1>2, <1>6, <2>1
<1>9. CASE f[y] < f[x]
  <2>1. \A u \in U : f[u] <= f[x]
    BY <1>6, <1>7, <1>9
  <2> QED
    BY <1>2, <1>3, <2>1
<1> QED
  BY <1>7, <1>8, <1>9

(* The legs that have a day are some.                                      *)
LEMMA PresentIs ==
    ASSUME NEW legs, IsFiniteSet(DOMAIN legs), \A s \in DOMAIN legs : legs[s] \in Seq(Int),
           NEW days, days = Max({0} \union {Len(legs[s]) : s \in DOMAIN legs})
    PROVE  /\ days \in Nat
           /\ \A i \in 1..days : /\ IsFiniteSet({s \in DOMAIN legs : i <= Len(legs[s])})
                                 /\ {s \in DOMAIN legs : i <= Len(legs[s])} # {}
                                 /\ \A s \in {s \in DOMAIN legs : i <= Len(legs[s])} : legs[s][i] \in Int
<1>a. PICK L : L = {0} \union {Len(legs[s]) : s \in DOMAIN legs}
  OBVIOUS
<1>1. L \in SUBSET Nat /\ 0 \in L
  BY <1>a
<1>2. PICK m \in L : \A y \in L : y <= m
  <2>1. CASE DOMAIN legs = {}
    <3>1. L = {0}
      BY <1>a, <2>1
    <3> QED
      BY <3>1
  <2>2. CASE DOMAIN legs # {}
    <3>b. PICK f : f = [s \in DOMAIN legs |-> Len(legs[s])]
      OBVIOUS
    <3>1. \A s \in DOMAIN legs : f[s] \in Nat /\ f[s] = Len(legs[s])
      BY <3>b
    <3>2. PICK s \in DOMAIN legs : \A u \in DOMAIN legs : f[u] <= f[s]
      BY <2>2, <3>1, Longest
    <3>3. \A y \in L : y <= f[s]
      BY <1>a, <3>1, <3>2
    <3>4. f[s] \in L
      BY <1>a, <3>1
    <3> QED
      BY <3>3, <3>4
  <2> QED
    BY <2>1, <2>2
<1>3. days = m
  <2>1. L \in SUBSET Int
    BY <1>1
  <2>2. Max(L) = m
    BY <1>2, <2>1, MaxIs
  <2> QED
    BY <1>a, <2>2
<1>4. ASSUME NEW i \in 1..days
      PROVE  /\ IsFiniteSet({s \in DOMAIN legs : i <= Len(legs[s])})
             /\ {s \in DOMAIN legs : i <= Len(legs[s])} # {}
             /\ \A s \in {s \in DOMAIN legs : i <= Len(legs[s])} : legs[s][i] \in Int
  <2>1. {s \in DOMAIN legs : i <= Len(legs[s])} \subseteq DOMAIN legs
    OBVIOUS
  <2>2. IsFiniteSet({s \in DOMAIN legs : i <= Len(legs[s])})
    BY <2>1, FS_Subset
  <2>3. m \in Nat /\ i \in Nat \ {0} /\ i <= m
    BY <1>1, <1>2, <1>3
  <2>4. m # 0 /\ m \in L
    BY <2>3
  <2>5. PICK s \in DOMAIN legs : m = Len(legs[s])
    BY <1>a, <2>4
  <2>6. ASSUME NEW u \in DOMAIN legs, i <= Len(legs[u])
        PROVE  legs[u][i] \in Int
    <3>1. legs[u] \in Seq(Int) /\ i \in 1..Len(legs[u])
      BY <2>3, <2>6
    <3> QED
      BY <3>1
  <2> QED
    BY <2>2, <2>3, <2>5, <2>6
<1> QED
  BY <1>1, <1>3, <1>4

Share(legs, leverage, i) ==
    (leverage * SumFunction([s \in {s \in DOMAIN legs : i <= Len(legs[s])} |-> legs[s][i]]))
        \div Cardinality({s \in DOMAIN legs : i <= Len(legs[s])})

LEMMA ShareIs ==
    ASSUME NEW legs, NEW leverage \in Nat, NEW i, NEW present, present = {s \in DOMAIN legs : i <= Len(legs[s])},
           IsFiniteSet(present), present # {}, \A s \in present : legs[s][i] \in Int
    PROVE  Share(legs, leverage, i) \in Int
<1>a. PICK f : f = [s \in present |-> legs[s][i]]
  OBVIOUS
<1>1. \A s \in present : f[s] \in Int
  BY <1>a
<1>2. SumFunctionOnSet(f, present) \in Int
  <2>1. SumRule(f, present)
    BY <1>1, SumObeys
  <2> QED
    BY <2>1 DEF SumRule
<1>3. Cardinality(present) \in Nat \ {0}
  <2>1. Cardinality(present) \in Nat
    BY FS_CardinalityType
  <2>2. Cardinality(present) # 0
    BY FS_EmptySet
  <2> QED
    BY <2>1, <2>2
<1>4. SumFunction(f) = SumFunctionOnSet(f, present)
  BY <1>a DEF SumFunction
<1>b. PICK y, k : y = leverage * SumFunction(f) /\ k = Cardinality(present)
  OBVIOUS
<1>5. y \in Int /\ k \in Nat \ {0}
  BY <1>2, <1>3, <1>4, <1>b
<1>6. y \div k \in Int
  BY <1>5, DivIs
<1> QED
  BY <1>6, <1>a, <1>b DEF Share

LEMMA PreviewIs ==
    ASSUME NEW x, PreviewGiven(x), NEW b \in Nat, NEW r, r = PreviewReturns(x.legs, x.leverage, b),
           NEW days, days = Max({0} \union {Len(x.legs[s]) : s \in DOMAIN x.legs})
    PROVE  /\ days \in Nat /\ DOMAIN r = 1..days /\ Len(r) = days
           /\ \A i \in 1..days : r[i] = Share(x.legs, x.leverage, i) - x.leverage * b
           /\ \A i \in 1..days : r[i] \in Int /\ Share(x.legs, x.leverage, i) \in Int
<1>a. PICK legs, leverage : legs = x.legs /\ leverage = x.leverage
  OBVIOUS
<1>1. /\ IsFiniteSet(DOMAIN legs) /\ \A s \in DOMAIN legs : legs[s] \in Seq(Int)
      /\ leverage \in Nat /\ days = Max({0} \union {Len(legs[s]) : s \in DOMAIN legs})
  BY <1>a DEF PreviewGiven
<1>2. /\ days \in Nat
      /\ \A i \in 1..days : /\ IsFiniteSet({s \in DOMAIN legs : i <= Len(legs[s])})
                            /\ {s \in DOMAIN legs : i <= Len(legs[s])} # {}
                            /\ \A s \in {s \in DOMAIN legs : i <= Len(legs[s])} : legs[s][i] \in Int
  BY <1>1, PresentIs
<1>3. ASSUME NEW i \in 1..days
      PROVE  Share(legs, leverage, i) \in Int
  BY <1>1, <1>2, ShareIs
<1>4. r = [i \in 1..days |-> Share(legs, leverage, i) - leverage * b]
  BY <1>1, <1>a DEF PreviewReturns, Share
<1>5. DOMAIN r = 1..days /\ \A i \in 1..days : r[i] = Share(legs, leverage, i) - leverage * b
  BY <1>4
<1>6. Len(r) = days
  BY <1>2, <1>4
<1>7. ASSUME NEW i \in 1..days
      PROVE  r[i] \in Int
  <2>b. PICK u, c : u = Share(legs, leverage, i) /\ c = leverage * b
    OBVIOUS
  <2>1. u \in Int /\ c \in Int
    <3>1. u \in Int
      BY <1>3, <2>b
    <3>2. c \in Int
      BY <1>1, <2>b
    <3> QED
      BY <3>1, <3>2
  <2>2. r[i] = u - c
    BY <1>5, <2>b
  <2> QED
    BY <2>1, <2>2
<1> QED
  BY <1>2, <1>3, <1>5, <1>6, <1>7, <1>a

LEMMA BorrowCosts ==
    ASSUME NEW x, PreviewGiven(x), NEW a, a = PreviewEquity(PreviewReturns(x.legs, x.leverage, x.borrow))
    PROVE  BorrowOnlyCosts(x, a)
<1> DEFINE free == PreviewEquity(PreviewReturns(x.legs, x.leverage, 0))
<1>a. PICK r, q, days : /\ r = PreviewReturns(x.legs, x.leverage, x.borrow)
                        /\ q = PreviewReturns(x.legs, x.leverage, 0)
                        /\ days = Max({0} \union {Len(x.legs[s]) : s \in DOMAIN x.legs})
  OBVIOUS
<1>1. x.borrow \in Nat /\ x.leverage \in Nat /\ 0 \in Nat
  BY DEF PreviewGiven
<1>2. /\ days \in Nat /\ DOMAIN r = 1..days /\ Len(r) = days
      /\ \A i \in 1..days : r[i] = Share(x.legs, x.leverage, i) - x.leverage * x.borrow
      /\ \A i \in 1..days : r[i] \in Int /\ Share(x.legs, x.leverage, i) \in Int
  <2>b. PICK b : b = x.borrow
    OBVIOUS
  <2>1. b \in Nat /\ r = PreviewReturns(x.legs, x.leverage, b)
    BY <1>1, <1>a, <2>b
  <2> QED
    BY <1>a, <2>1, <2>b, PreviewIs
<1>3. /\ DOMAIN q = 1..days /\ Len(q) = days
      /\ \A i \in 1..days : q[i] = Share(x.legs, x.leverage, i) - x.leverage * 0
      /\ \A i \in 1..days : q[i] \in Int
  BY <1>1, <1>a, PreviewIs
<1>4. ASSUME NEW i \in 1..days
      PROVE  r[i] \in Int /\ q[i] \in Int /\ r[i] <= q[i]
  <2>b. PICK s, c : s = Share(x.legs, x.leverage, i) /\ c = x.leverage * x.borrow
    OBVIOUS
  <2>1. s \in Int /\ c \in Nat
    <3>1. s \in Int
      BY <1>2, <2>b
    <3>2. c \in Nat
      BY <1>1, <2>b
    <3> QED
      BY <3>1, <3>2
  <2>2. r[i] = s - c
    BY <1>2, <2>b
  <2>3. q[i] = s
    <3>1. x.leverage * 0 = 0
      BY <1>1
    <3>2. q[i] = s - 0
      BY <1>3, <2>b, <3>1
    <3> QED
      BY <2>1, <3>2
  <2>4. r[i] \in Int /\ q[i] \in Int
    BY <1>2, <1>3
  <2> QED
    BY <2>1, <2>2, <2>3, <2>4
<1>5. EquityOf(a, r, days)
  <2>1. ListOf(r) /\ \A k \in DOMAIN r : r[k] \in Int
    BY <1>2 DEF ListOf
  <2>2. EquityOf(PreviewEquity(r), r, Len(r))
    BY <2>1, EquityIs
  <2> QED
    BY <1>2, <1>a, <2>2
<1>6. EquityOf(free, q, days)
  <2>1. ListOf(q) /\ \A k \in DOMAIN q : q[k] \in Int
    BY <1>2, <1>3 DEF ListOf
  <2>2. EquityOf(PreviewEquity(q), q, Len(q))
    BY <2>1, EquityIs
  <2> QED
    BY <1>3, <1>a, <2>2
<1> HIDE DEF free
<1>7. Len(a) = days + 1 /\ Len(free) = days + 1
  BY <1>5, <1>6 DEF EquityOf
<1>8. DOMAIN a \subseteq 1..(days + 1)
  <2>1. a \in Ledgers
    <3>1. ListOf(r) /\ \A k \in DOMAIN r : r[k] \in Int
      BY <1>2 DEF ListOf
    <3>2. PICK h : GrownSteps(h, r) /\ PreviewEquity(r) = h[Len(r)]
      BY <3>1, EquityIsSteps
    <3>3. Len(r) \in 0..Len(r)
      BY <1>2
    <3> QED
      BY <1>a, <3>2, <3>3 DEF GrownSteps
  <2> QED
    BY <1>7, <2>1 DEF Ledgers
<1>9. ASSUME NEW i \in DOMAIN a, \A j \in 1..i : a[j] > 0
      PROVE  a[i] <= free[i]
  <2>1. i \in 1..(days + 1)
    BY <1>8
  <2> QED
    BY <1>2, <1>4, <1>5, <1>6, <1>9, <2>1, LessGrows
<1>10. BorrowOnlyCosts(x, a) <=> /\ Len(a) = Len(free)
                                 /\ \A i \in DOMAIN a : (\A j \in 1..i : a[j] > 0) => a[i] <= free[i]
  BY DEF BorrowOnlyCosts, free
<1> QED
  BY <1>7, <1>9, <1>10

(* Dates are in the order of their numbers, each with one of its own.      *)
IsLeap(y) == IF y % 4 = 0 THEN 1 ELSE 0
Months == <<0, 31, 59, 90, 120, 151, 181, 212, 243, 273, 304, 334>>
YearStart(y) == 365 * y + (y - 1) \div 4
DayOfYear(y, m, k) == k + Months[m] + (IF m > 2 THEN IsLeap(y) ELSE 0)

LEMMA MonthsAre ==
    /\ Months[1] = 0 /\ Months[2] = 31 /\ Months[3] = 59 /\ Months[4] = 90 /\ Months[5] = 120
    /\ Months[6] = 151 /\ Months[7] = 181 /\ Months[8] = 212 /\ Months[9] = 243
    /\ Months[10] = 273 /\ Months[11] = 304 /\ Months[12] = 334
BY DEF Months

LEMMA MonthsFollow ==
    ASSUME NEW y \in Nat, NEW m \in 1..12
    PROVE  /\ Months[m] \in 0..334 /\ LastDay(y, m) \in 28..31
           /\ Months[m] + LastDay(y, m) + (IF m > 2 THEN IsLeap(y) ELSE 0) <= 365 + IsLeap(y)
           /\ \A n \in 1..12 : m < n =>
                Months[m] + LastDay(y, m) + (IF m > 2 THEN IsLeap(y) ELSE 0)
                    <= Months[n] + (IF n > 2 THEN IsLeap(y) ELSE 0)
<1>a. PICK l : l = IsLeap(y)
  OBVIOUS
<1>1. l \in {0, 1}
  BY <1>a DEF IsLeap
<1>2. LastDay(y, m) = IF m = 2 THEN 28 + l ELSE IF m \in {4, 6, 9, 11} THEN 30 ELSE 31
  <2>1. CASE y % 4 = 0
    BY <1>a, <2>1 DEF IsLeap, LastDay
  <2>2. CASE y % 4 # 0
    BY <1>a, <2>2 DEF IsLeap, LastDay
  <2> QED
    BY <2>1, <2>2
<1>3. \A n \in 1..12 : /\ n = 1 => Months[n] = 0
                       /\ n = 2 => Months[n] = 31
                       /\ n = 3 => Months[n] = 59
                       /\ n = 4 => Months[n] = 90
                       /\ n = 5 => Months[n] = 120
                       /\ n = 6 => Months[n] = 151
                       /\ n = 7 => Months[n] = 181
                       /\ n = 8 => Months[n] = 212
                       /\ n = 9 => Months[n] = 243
                       /\ n = 10 => Months[n] = 273
                       /\ n = 11 => Months[n] = 304
                       /\ n = 12 => Months[n] = 334
  BY MonthsAre
<1>4. Months[m] \in 0..334
  BY <1>3
<1>5. LastDay(y, m) \in 28..31
  BY <1>1, <1>2
<1>6. Months[m] + LastDay(y, m) + (IF m > 2 THEN l ELSE 0) <= 365 + l
  BY <1>1, <1>2, <1>3
<1>7. ASSUME NEW n \in 1..12, m < n
      PROVE  Months[m] + LastDay(y, m) + (IF m > 2 THEN l ELSE 0) <= Months[n] + (IF n > 2 THEN l ELSE 0)
  BY <1>1, <1>2, <1>3, <1>7
<1> QED
  BY <1>4, <1>5, <1>6, <1>7, <1>a

LEMMA YearsFollow ==
    ASSUME NEW y \in Nat, NEW z \in Nat, y < z
    PROVE  YearStart(y) \in Int /\ YearStart(z) \in Int /\ YearStart(y) + 365 + IsLeap(y) <= YearStart(z)
<1>a. PICK p, q, l, r : p = (y - 1) \div 4 /\ q = (z - 1) \div 4 /\ l = IsLeap(y) /\ r = y % 4
  OBVIOUS
<1>1. p \in Int /\ p * 4 <= y - 1 /\ y - 1 < p * 4 + 4
  BY <1>a, DivIs
<1>2. q \in Int /\ q * 4 <= z - 1 /\ z - 1 < q * 4 + 4
  BY <1>a, DivIs
<1>3. r \in 0..3 /\ \E k \in Int : y = 4 * k + r
  BY <1>a
<1>4. l = IF r = 0 THEN 1 ELSE 0
  BY <1>a DEF IsLeap
<1>5. p + l <= q
  <2>1. CASE r = 0
    <3>1. PICK k \in Int : y = 4 * k
      BY <1>3, <2>1
    <3>2. p = k - 1
      BY <1>1, <3>1
    <3>3. q >= k
      BY <1>2, <3>1
    <3> QED
      BY <1>2, <1>4, <2>1, <3>1, <3>2, <3>3
  <2>2. CASE r # 0
    BY <1>1, <1>2, <1>4, <2>2
  <2> QED
    BY <2>1, <2>2
<1>6. l \in {0, 1}
  BY <1>4
<1>7. YearStart(y) = 365 * y + p /\ YearStart(z) = 365 * z + q
  BY <1>a DEF YearStart
<1>8. 365 * y + p + 365 + l <= 365 * z + q
  BY <1>1, <1>2, <1>5, <1>6
<1> QED
  BY <1>1, <1>2, <1>7, <1>8, <1>a

LEMMA DayNumberIs ==
    ASSUME NEW d \in Date
    PROVE  /\ d[1] \in Nat /\ d[2] \in 1..12 /\ d[3] \in 1..LastDay(d[1], d[2])
           /\ DayNumber(d) = DayOfYear(d[1], d[2], d[3]) + YearStart(d[1])
           /\ DayOfYear(d[1], d[2], d[3]) \in 1..(365 + IsLeap(d[1]))
           /\ YearStart(d[1]) \in Int
<1>a. PICK y, m, k : y = d[1] /\ m = d[2] /\ k = d[3]
  OBVIOUS
<1>1. y \in Nat /\ m \in 1..12 /\ k \in 1..31 /\ k <= LastDay(y, m)
  BY <1>a DEF Date
<1>b. PICK w, l, c, s : /\ w = Months[m] /\ l = IsLeap(y) /\ c = (IF m > 2 THEN IsLeap(y) ELSE 0)
                        /\ s = (y - 1) \div 4
  OBVIOUS
<1>2. l \in {0, 1} /\ c \in {0, 1} /\ c = (IF m > 2 /\ y % 4 = 0 THEN 1 ELSE 0)
  BY <1>b DEF IsLeap
<1>3. w \in 0..334 /\ LastDay(y, m) \in 28..31 /\ w + LastDay(y, m) + c <= 365 + l
  BY <1>1, <1>b, MonthsFollow
<1>4. s \in Int
  BY <1>1, <1>b, DivIs
<1>5. DayNumber(d) = k + w + 365 * y + s + c
  BY <1>2, <1>a, <1>b DEF DayNumber, Months
<1>6. DayOfYear(y, m, k) = k + w + c
  BY <1>b DEF DayOfYear
<1>7. YearStart(y) = 365 * y + s
  BY <1>b DEF YearStart
<1>8. k + w + c \in 1..(365 + l)
  BY <1>1, <1>2, <1>3
<1>9. k + w + 365 * y + s + c = (k + w + c) + (365 * y + s) /\ 365 * y + s \in Int
  BY <1>1, <1>2, <1>3, <1>4
<1>10. k \in 1..LastDay(y, m)
  BY <1>1, <1>3
<1> QED
  BY <1>1, <1>5, <1>6, <1>7, <1>8, <1>9, <1>10, <1>a, <1>b

LEMMA DaysFollow ==
    ASSUME NEW y \in Nat, NEW m \in 1..12, NEW n \in 1..12, m < n,
           NEW j \in 1..LastDay(y, m), NEW k \in 1..LastDay(y, n)
    PROVE  DayOfYear(y, m, j) < DayOfYear(y, n, k)
<1>b. PICK w, v, c, e : /\ w = Months[m] /\ c = (IF m > 2 THEN IsLeap(y) ELSE 0)
                        /\ v = Months[n] /\ e = (IF n > 2 THEN IsLeap(y) ELSE 0)
  OBVIOUS
<1>1. c \in {0, 1} /\ e \in {0, 1}
  BY <1>b DEF IsLeap
<1>2. w \in 0..334 /\ LastDay(y, m) \in 28..31 /\ w + LastDay(y, m) + c <= v + e
  BY <1>b, MonthsFollow
<1>3. v \in 0..334 /\ LastDay(y, n) \in 28..31
  BY <1>b, MonthsFollow
<1>4. j + w + c < k + v + e
  BY <1>1, <1>2, <1>3
<1> QED
  BY <1>4, <1>b DEF DayOfYear

LEMMA DatesDiffer ==
    ASSUME NEW d \in Date, NEW e \in Date, d # e
    PROVE  DayNumber(d) \in Int /\ DayNumber(e) \in Int /\ DayNumber(d) # DayNumber(e)
<1>a. PICK y, m, j, z, n, k : /\ y = d[1] /\ m = d[2] /\ j = d[3]
                              /\ z = e[1] /\ n = e[2] /\ k = e[3]
  OBVIOUS
<1>b. PICK a, b, s, t : /\ a = DayOfYear(y, m, j) /\ b = DayOfYear(z, n, k)
                        /\ s = YearStart(y) /\ t = YearStart(z)
  OBVIOUS
<1>1. /\ y \in Nat /\ m \in 1..12 /\ j \in 1..LastDay(y, m)
      /\ DayNumber(d) = a + s /\ a \in 1..(365 + IsLeap(y)) /\ s \in Int
  BY <1>a, <1>b, DayNumberIs
<1>2. /\ z \in Nat /\ n \in 1..12 /\ k \in 1..LastDay(z, n)
      /\ DayNumber(e) = b + t /\ b \in 1..(365 + IsLeap(z)) /\ t \in Int
  BY <1>a, <1>b, DayNumberIs
<1>3. IsLeap(y) \in {0, 1} /\ IsLeap(z) \in {0, 1}
  BY DEF IsLeap
<1>4. a \in Int /\ b \in Int
  BY <1>1, <1>2, <1>3
<1>5. CASE y < z
  <2>1. s + 365 + IsLeap(y) <= t
    BY <1>1, <1>2, <1>5, <1>b, YearsFollow
  <2>2. a + s < b + t
    BY <1>1, <1>2, <1>3, <1>4, <2>1
  <2> QED
    BY <1>1, <1>2, <1>4, <2>2
<1>6. CASE z < y
  <2>1. t + 365 + IsLeap(z) <= s
    BY <1>1, <1>2, <1>6, <1>b, YearsFollow
  <2>2. b + t < a + s
    BY <1>1, <1>2, <1>3, <1>4, <2>1
  <2> QED
    BY <1>1, <1>2, <1>4, <2>2
<1>7. CASE y = z
  <2>1. m = n => j # k
    <3> SUFFICES ASSUME m = n, j = k
                 PROVE  FALSE
      OBVIOUS
    <3>1. d \in Nat \X (1..12) \X (1..31) /\ e \in Nat \X (1..12) \X (1..31)
      BY DEF Date
    <3>2. d = <<d[1], d[2], d[3]>> /\ e = <<e[1], e[2], e[3]>>
      BY <3>1
    <3> QED
      BY <1>7, <1>a, <3>2
  <2>2. a # b
    <3>1. CASE m < n
      <4>1. a < b
        BY <1>1, <1>2, <1>7, <1>b, <3>1, DaysFollow
      <4> QED
        BY <1>4, <4>1
    <3>2. CASE n < m
      <4>1. b < a
        BY <1>1, <1>2, <1>7, <1>b, <3>2, DaysFollow
      <4> QED
        BY <1>4, <4>1
    <3>3. CASE m = n
      <4>1. j \in Int /\ k \in Int
        BY <1>1, <1>2
      <4>c. PICK w : w = Months[m] + (IF m > 2 THEN IsLeap(y) ELSE 0)
        OBVIOUS
      <4>2. Months[m] \in Int
        <5>1. Months[m] \in 0..334
          BY <1>1, MonthsFollow
        <5> QED
          BY <5>1
      <4>3. w \in Int
        BY <1>3, <4>2, <4>c
      <4>4. a = j + w /\ b = k + w
        BY <1>3, <1>7, <1>b, <3>3, <4>1, <4>2, <4>c DEF DayOfYear
      <4> QED
        BY <2>1, <3>3, <4>1, <4>3, <4>4
    <3> QED
      BY <1>1, <1>2, <3>1, <3>2, <3>3
  <2> QED
    BY <1>1, <1>2, <1>4, <1>7, <1>b, <2>2
<1> QED
  BY <1>1, <1>2, <1>4, <1>5, <1>6, <1>7

(* The days two series have in common *)

DatesInOrder(S) == Orders([d \in S |-> {e \in S : Before(e, d)}], S)

LEMMA DatesOrder ==
    ASSUME NEW S, S \subseteq Date
    PROVE  DatesInOrder(S)
<1> DEFINE before == [d \in S |-> {e \in S : Before(e, d)}]
<1>1. DOMAIN before = S /\ \A d \in S : before[d] = {e \in S : Before(e, d)}
  OBVIOUS
<1> HIDE DEF before
<1>2. \A d, e \in S : d \in before[e] <=> DayNumber(d) < DayNumber(e)
  BY <1>1 DEF Before
<1>3. \A d \in S : DayNumber(d) \in Int
  <2> SUFFICES ASSUME NEW d \in S
               PROVE  DayNumber(d) \in Int
    OBVIOUS
  <2>a. PICK a, b : a = DayOfYear(d[1], d[2], d[3]) /\ b = YearStart(d[1])
    OBVIOUS
  <2>1. DayNumber(d) = a + b /\ a \in 1..(365 + IsLeap(d[1])) /\ b \in Int
    BY <2>a, DayNumberIs
  <2>2. IsLeap(d[1]) \in {0, 1}
    BY DEF IsLeap
  <2> QED
    BY <2>1, <2>2
<1>4. \A d \in S : before[d] \subseteq S
  BY <1>1
<1>5. ASSUME NEW d \in S
      PROVE  d \notin before[d]
  <2>1. DayNumber(d) \in Int
    BY <1>3
  <2>2. ~(DayNumber(d) < DayNumber(d))
    BY <2>1
  <2> QED
    BY <1>2, <2>2
<1>6. ASSUME NEW d \in S, NEW e \in S
      PROVE  d = e \/ d \in before[e] \/ e \in before[d]
  <2> SUFFICES ASSUME d # e
               PROVE  d \in before[e] \/ e \in before[d]
    OBVIOUS
  <2>1. DayNumber(d) \in Int /\ DayNumber(e) \in Int /\ DayNumber(d) # DayNumber(e)
    BY DatesDiffer
  <2>2. DayNumber(d) < DayNumber(e) \/ DayNumber(e) < DayNumber(d)
    BY <2>1
  <2> QED
    BY <1>2, <2>2
<1>7. ASSUME NEW d \in S, NEW e \in S, d \in before[e], NEW c \in before[d]
      PROVE  c \in before[e]
  <2>1. c \in S
    BY <1>4
  <2>2. DayNumber(c) < DayNumber(d) /\ DayNumber(d) < DayNumber(e)
    BY <1>2, <1>7, <2>1
  <2>3. DayNumber(c) \in Int /\ DayNumber(d) \in Int /\ DayNumber(e) \in Int
    BY <1>3, <2>1
  <2>4. DayNumber(c) < DayNumber(e)
    BY <2>2, <2>3
  <2> QED
    BY <1>2, <2>1, <2>4
<1>8. Orders(before, S)
  BY <1>1, <1>4, <1>5, <1>6, <1>7 DEF Orders
<1> QED
  BY <1>8 DEF DatesInOrder, before

(* Dated(S) lists the days of S, each once, in order.                      *)
Listed(s, S) ==
    /\ Len(s) \in Nat /\ DOMAIN s = 1..Len(s)
    /\ \A i \in DOMAIN s : s[i] \in S
    /\ \A d \in S : \E i \in DOMAIN s : s[i] = d
    /\ \A i, j \in DOMAIN s : i < j => Before(s[i], s[j])

LEMMA DatedIs ==
    ASSUME NEW S, S \subseteq Date, IsFiniteSet(S)
    PROVE  Listed(Dated(S), S)
<1>a. PICK before : before = [d \in S |-> {e \in S : Before(e, d)}]
  OBVIOUS
<1>b. PICK s : s = Dated(S)
  OBVIOUS
<1>1. Orders(before, S)
  BY <1>a, DatesOrder DEF DatesInOrder
<1>2. InPlace(Arranged(before), before, S) /\ Cardinality(S) \in Nat
  BY <1>1, ArrangedIs
<1>3. s = Arranged(before)
  BY <1>a, <1>b DEF Dated
<1>4. /\ DOMAIN s = 1..Cardinality(S) /\ Len(s) = Cardinality(S)
      /\ \A k \in DOMAIN s : s[k] \in S
      /\ \A d \in S : \E k \in DOMAIN s : s[k] = d
      /\ \A j, k \in DOMAIN s : s[j] \in before[s[k]] <=> j < k
  BY <1>2, <1>3 DEF InPlace
<1>5. ASSUME NEW i \in DOMAIN s, NEW j \in DOMAIN s, i < j
      PROVE  Before(s[i], s[j])
  <2>1. s[i] \in before[s[j]] /\ s[j] \in S
    BY <1>4, <1>5
  <2> QED
    BY <1>a, <2>1
<1> QED
  BY <1>2, <1>4, <1>5, <1>b DEF Listed

Moved(points) == {i \in 2..Len(points) : points[i - 1].value # 0}

LEMMA ReturnsDays ==
    ASSUME NEW points, PointsGiven(points)
    PROVE  /\ DOMAIN ByDay(ReturnsOf(points)) = DaysOf(points)
           /\ DaysOf(points) \subseteq Date /\ IsFiniteSet(DaysOf(points))
<1>a. PICK n, r, M : n = Len(points) /\ r = ReturnsOf(points) /\ M = Moved(points)
  OBVIOUS
<1>1. n \in Nat /\ \A i \in 1..n : points[i].day \in Date
  BY <1>a, ValuesAre
<1>2. M \in SUBSET (1..n)
  BY <1>1, <1>a DEF Moved
<1>3. IsFiniteSet(M)
  <2>1. 1 \in Int /\ n \in Int
    BY <1>1
  <2>2. IsFiniteSet(1..n)
    BY <2>1, FS_Interval
  <2> QED
    BY <1>2, <2>2, FS_Subset
<1>4. DOMAIN r = M /\ \A i \in M : r[i].day = points[i].day
  BY <1>a DEF ReturnsOf, Moved
<1>5. DOMAIN ByDay(r) = {r[i].day : i \in DOMAIN r}
  BY DEF ByDay
<1>6. {r[i].day : i \in DOMAIN r} = DaysOf(points)
  BY <1>4, <1>a DEF DaysOf, Moved
<1>7. DaysOf(points) \subseteq Date
  BY <1>1, <1>2, <1>a DEF DaysOf, Moved
<1>8. IsFiniteSet(DaysOf(points))
  <2>a. PICK T, day : T = {points[i].day : i \in M} /\ day = [i \in M |-> points[i].day]
    OBVIOUS
  <2>1. day \in Surjection(M, T)
    BY <2>a DEF Surjection
  <2>2. IsFiniteSet(T)
    BY <1>3, <2>1, FS_Surjection
  <2> QED
    BY <1>a, <2>2, <2>a DEF DaysOf, Moved
<1> QED
  BY <1>5, <1>6, <1>7, <1>8, <1>a

LEMMA AlignedIs ==
    ASSUME NEW f, NEW g, NEW S, S = DOMAIN f \cap DOMAIN g, S \subseteq Date, IsFiniteSet(S)
    PROVE  /\ {Aligned(f, g)[i].day : i \in DOMAIN Aligned(f, g)} = S
           /\ \A i, j \in DOMAIN Aligned(f, g) : i < j => Before(Aligned(f, g)[i].day, Aligned(f, g)[j].day)
<1>a. PICK s, both : s = Dated(S) /\ both = Aligned(f, g)
  OBVIOUS
<1>1. Listed(s, S)
  BY <1>a, DatedIs
<1>2. both = [i \in DOMAIN s |-> [day |-> s[i], strat |-> f[s[i]], bench |-> g[s[i]]]]
  BY <1>a DEF Aligned
<1>3. DOMAIN both = DOMAIN s /\ \A i \in DOMAIN s : both[i].day = s[i]
  BY <1>2
<1>4. {both[i].day : i \in DOMAIN both} = S
  BY <1>1, <1>3 DEF Listed
<1>5. ASSUME NEW i \in DOMAIN both, NEW j \in DOMAIN both, i < j
      PROVE  Before(both[i].day, both[j].day)
  BY <1>1, <1>3, <1>5 DEF Listed
<1> QED
  BY <1>4, <1>5, <1>a

(* A day of the calendar is in a window when it is not outside of it: the  *)
(* years a window is looked for in leave none of its days out.             *)
LEMMA YearsInOrder ==
    ASSUME NEW d \in Date, NEW e \in Date, ~Before(e, d)
    PROVE  d[1] <= e[1]
<1>a. PICK y, z, a, b, s, t : /\ y = d[1] /\ z = e[1] /\ s = YearStart(d[1]) /\ t = YearStart(e[1])
                              /\ a = DayOfYear(d[1], d[2], d[3]) /\ b = DayOfYear(e[1], e[2], e[3])
  OBVIOUS
<1>1. y \in Nat /\ DayNumber(d) = a + s /\ a \in 1..(365 + IsLeap(y)) /\ s \in Int
  BY <1>a, DayNumberIs
<1>2. z \in Nat /\ DayNumber(e) = b + t /\ b \in 1..(365 + IsLeap(z)) /\ t \in Int
  BY <1>a, DayNumberIs
<1>3. IsLeap(y) \in {0, 1} /\ IsLeap(z) \in {0, 1}
  BY DEF IsLeap
<1>4. ASSUME z < y
      PROVE  FALSE
  <2>1. t + 365 + IsLeap(z) <= s
    BY <1>1, <1>2, <1>4, <1>a, YearsFollow
  <2>2. b + t < a + s
    BY <1>1, <1>2, <1>3, <2>1
  <2> QED
    BY <1>1, <1>2, <2>2 DEF Before
<1>5. y <= z
  BY <1>1, <1>2, <1>4
<1> QED
  BY <1>5, <1>a

LEMMA WindowIs ==
    ASSUME NEW start \in Date, NEW end \in Date, NEW d \in Date
    PROVE  d \in DaysWithin(start, end) <=> ~Before(d, start) /\ ~Before(end, d)
<1>1. d \in Nat \X (1..12) \X (1..31) /\ start[1] \in Nat /\ end[1] \in Nat
  BY DEF Date
<1>2. ASSUME ~Before(d, start), ~Before(end, d)
      PROVE  d \in (start[1]..end[1]) \X (1..12) \X (1..31)
  <2>1. start[1] <= d[1] /\ d[1] <= end[1]
    BY <1>2, YearsInOrder
  <2>2. d = <<d[1], d[2], d[3]>> /\ d[1] \in Nat /\ d[2] \in 1..12 /\ d[3] \in 1..31
    BY <1>1
  <2>3. d[1] \in start[1]..end[1]
    BY <1>1, <2>1, <2>2
  <2> QED
    BY <2>2, <2>3
<1> QED
  BY <1>2 DEF DaysWithin

(* The days of the benchmark that a run has a return on.                   *)
LEMMA HedgeCovers ==
    ASSUME NEW run, PointsGiven(run.points), run.start \in Date, run.end \in Date, NEW d \in Date
    PROVE  d \in DOMAIN HedgeReturns(run) <=> Covers(run, d)
<1>1. Len(run.points) \in Nat
  BY ValuesAre
<1>2. CASE Len(run.points) >= 2
  <2>1. HedgeReturns(run) = ByDay(ReturnsOf(run.points))
    BY <1>2 DEF HedgeReturns, HedgeSource
  <2>2. DOMAIN HedgeReturns(run) = DaysOf(run.points)
    BY <2>1, ReturnsDays
  <2>3. ~(Len(run.points) < 2)
    BY <1>1, <1>2
  <2> QED
    BY <2>2, <2>3 DEF Covers
<1>3. CASE Len(run.points) < 2
  <2>1. ~(Len(run.points) >= 2)
    BY <1>1, <1>3
  <2>2. HedgeReturns(run) = CalendarFill(DailyReturns(run.trades), run.start, run.end)
    BY <2>1 DEF HedgeReturns, HedgeSource
  <2>3. DOMAIN HedgeReturns(run) = DaysWithin(run.start, run.end)
    BY <2>2 DEF CalendarFill
  <2> QED
    BY <1>3, <2>3, WindowIs DEF Covers
<1> QED
  BY <1>1, <1>2, <1>3

(* What passes has given up at most five points of growth.                 *)
LEMMA HedgePassed ==
    ASSUME NEW run, NEW bench, NEW growth \in Int, NEW sharpe, NEW both, NEW resampled,
           HedgePasses(HedgeMetrics(run, growth, sharpe), MetricsOf(bench, 2000, 50), both, resampled)
    PROVE  growth >= 1500 /\ Len(both) >= MinPairs
<1>a. PICK p, b : p = HedgeMetrics(run, growth, sharpe) /\ b = MetricsOf(bench, 2000, 50)
  OBVIOUS
<1>1. BeatsBuyHold(p, b) = "passed" /\ Significant(Len(both), resampled)
  BY <1>a DEF HedgePasses
<1>2. p.growth # None /\ b.growth # None /\ ~(p.growth < b.growth - 500)
  BY <1>1 DEF BeatsBuyHold
<1>3. p.growth = growth
  <2>1. CASE HedgeSource(run.points) = "equity_points"
    <3>1. p = MetricsOf(run.points, growth, sharpe)
      BY <1>a, <2>1 DEF HedgeMetrics
    <3> QED
      BY <1>2, <3>1 DEF MetricsOf, NoMetrics
  <2>2. CASE HedgeSource(run.points) # "equity_points"
    <3>1. p = RebuiltMetrics(HedgeReturns(run), growth, sharpe)
      BY <1>a, <2>2 DEF HedgeMetrics
    <3> QED
      BY <1>2, <3>1 DEF RebuiltMetrics, NoMetrics
  <2> QED
    BY <2>1, <2>2
<1>4. b.growth = 2000
  BY <1>2, <1>a DEF MetricsOf, NoMetrics
<1>5. growth >= 1500
  BY <1>2, <1>3, <1>4
<1> QED
  BY <1>1, <1>5 DEF Significant

LEMMA HedgePaired ==
    ASSUME NEW x, HedgeGiven(x), NEW a,
           a.both = Aligned(HedgeReturns(x.run), ByDay(ReturnsOf(x.bench))),
           a.passed => HedgePasses(HedgeMetrics(x.run, x.growth, x.sharpe), MetricsOf(x.bench, 2000, 50),
                                   a.both, x.resampled)
    PROVE  HedgeIsPaired(x, a)
<1>a. PICK f, g, both : f = HedgeReturns(x.run) /\ g = ByDay(ReturnsOf(x.bench)) /\ both = a.both
  OBVIOUS
<1> DEFINE S == DOMAIN f \cap DOMAIN g
<1>b. S = DOMAIN f \cap DOMAIN g
  OBVIOUS
<1> HIDE DEF S
<1>1. /\ PointsGiven(x.run.points) /\ PointsGiven(x.bench) /\ x.growth \in Int
      /\ x.run.start \in Date /\ x.run.end \in Date
  BY DEF HedgeGiven
<1>2. DOMAIN g = DaysOf(x.bench) /\ DaysOf(x.bench) \subseteq Date /\ IsFiniteSet(DaysOf(x.bench))
  BY <1>1, <1>a, ReturnsDays
<1>3. \A d \in DaysOf(x.bench) : d \in DOMAIN f <=> Covers(x.run, d)
  <2> SUFFICES ASSUME NEW d \in DaysOf(x.bench)
               PROVE  d \in DOMAIN f <=> Covers(x.run, d)
    OBVIOUS
  <2>1. d \in Date
    BY <1>2
  <2> QED
    BY <1>1, <1>a, <2>1, HedgeCovers
<1>4. S \in SUBSET DaysOf(x.bench) /\ S = {d \in DaysOf(x.bench) : Covers(x.run, d)}
  BY <1>2, <1>3, <1>b
<1>5. S \subseteq Date /\ IsFiniteSet(S)
  BY <1>2, <1>4, FS_Subset
<1>6. both = Aligned(f, g)
  BY <1>a
<1>7. /\ {both[i].day : i \in DOMAIN both} = S
      /\ \A i, j \in DOMAIN both : i < j => Before(both[i].day, both[j].day)
  BY <1>5, <1>6, <1>b, AlignedIs
<1>8. a.passed => x.growth >= 1500 /\ Len(a.both) >= MinPairs
  BY <1>1, HedgePassed
<1>10. {a.both[i].day : i \in DOMAIN a.both} = {d \in DaysOf(x.bench) : Covers(x.run, d)}
  BY <1>4, <1>7, <1>a
<1>11. \A i, j \in DOMAIN a.both : i < j => Before(a.both[i].day, a.both[j].day)
  BY <1>7, <1>a
<1> QED
  BY <1>8, <1>10, <1>11 DEF HedgeIsPaired

(* A series turned upside down *)

LEMMA TurnedProduct ==
    ASSUME NEW K \in Int, NEW x \in Int, NEW y \in Int
    PROVE  x * (K - y) = K * x + (-1) * (x * y)
OBVIOUS

LEMMA TurnedCov ==
    ASSUME NEW n \in Int, NEW K \in Int, NEW p \in Int, NEW q \in Int, NEW r \in Int
    PROVE  n * (K * p + (-1) * r) - p * (K * n + (-1) * q) = -(n * r - p * q)
<1>1. n * (K * p + (-1) * r) = n * (K * p) - n * r
  OBVIOUS
<1>2. p * (K * n + (-1) * q) = p * (K * n) - p * q
  OBVIOUS
<1>3. n * (K * p) = p * (K * n)
  OBVIOUS
<1>a. PICK a, b, c : a = n * (K * p) /\ b = n * r /\ c = p * q
  OBVIOUS
<1>4. a \in Int /\ b \in Int /\ c \in Int
  BY <1>a
<1>5. (a - b) - (a - c) = -(b - c)
  BY <1>4
<1> QED
  BY <1>1, <1>2, <1>3, <1>5, <1>a

TurnedFrom(w, v, K, n) == \A i \in 1..n : w[i] = K - v[i]

LEMMA CovTurned ==
    ASSUME NEW n \in Nat \ {0}, NEW K \in Int, NEW u, NEW v, NEW w,
           Numbers(u, n), Numbers(v, n), Numbers(w, n), TurnedFrom(w, v, K, n)
    PROVE  Cov(u, w, n) = -Cov(u, v, n)
<1> DEFINE S == 1..n
           uv == [i \in 1..n |-> u[i] * v[i]]
           uw == [i \in 1..n |-> u[i] * w[i]]
           one == [i \in 1..n |-> 1]
<1>a. PICK p, q, r, y, z : /\ p = Total(u) /\ q = Total(v) /\ r = Total(uv)
                           /\ y = Total(w) /\ z = Total(uw)
  OBVIOUS
<1>1. IsFiniteSet(S) /\ Cardinality(S) = n
  <2>1. 1 \in Int /\ n \in Int
    OBVIOUS
  <2>2. IsFiniteSet(1..n) /\ Cardinality(1..n) = IF 1 > n THEN 0 ELSE n - 1 + 1
    BY <2>1, FS_Interval
  <2> QED
    BY <2>2
<1>2. p = SumFunctionOnSet(u, S) /\ q = SumFunctionOnSet(v, S) /\ y = SumFunctionOnSet(w, S)
  BY <1>a DEF Numbers, Total, SumFunction
<1>b. r = SumFunctionOnSet(uv, S) /\ z = SumFunctionOnSet(uw, S)
  BY <1>a DEF Total, SumFunction
<1>3. \A i \in S : /\ u[i] \in Int /\ v[i] \in Int /\ w[i] = K - v[i]
                   /\ uv[i] = u[i] * v[i] /\ uw[i] = u[i] * w[i] /\ one[i] = 1
  BY DEF Numbers, TurnedFrom
<1>4. Cov(u, v, n) = n * r - p * q /\ Cov(u, w, n) = n * z - p * y
  BY <1>a DEF Cov
<1> HIDE DEF uv, uw, one, S
<1>5. SumFunctionOnSet(one, S) = n
  <2>1. 1 \in Int /\ \A i \in S : one[i] = 1
    BY <1>3
  <2>2. SumFunctionOnSet(one, S) = 1 * Cardinality(S)
    BY <1>1, <2>1, SumOfEqual
  <2> QED
    BY <1>1, <2>2
<1>6. Combined(w, K, one, -1, v, S)
  <2> SUFFICES ASSUME NEW i \in S
               PROVE  one[i] \in Int /\ v[i] \in Int /\ w[i] = K * one[i] + (-1) * v[i]
    BY DEF Combined
  <2> QED
    BY <1>3
<1>7. Combined(uw, K, u, -1, uv, S)
  <2> SUFFICES ASSUME NEW i \in S
               PROVE  u[i] \in Int /\ uv[i] \in Int /\ uw[i] = K * u[i] + (-1) * uv[i]
    BY DEF Combined
  <2>1. PICK a, b : a = u[i] /\ b = v[i]
    OBVIOUS
  <2>2. a \in Int /\ b \in Int /\ uv[i] = a * b /\ uw[i] = a * (K - b)
    BY <1>3, <2>1
  <2>3. a * (K - b) = K * a + (-1) * (a * b)
    BY <2>2, TurnedProduct
  <2>4. a * b \in Int
    BY <2>2
  <2> QED
    BY <2>1, <2>2, <2>3, <2>4
<1>c. PICK m : m = -1
  OBVIOUS
<1>8. y = K * n + m * q /\ q \in Int
  BY <1>1, <1>2, <1>5, <1>6, <1>c, SumCombined
<1>9. z = K * p + m * r /\ p \in Int /\ r \in Int
  BY <1>1, <1>2, <1>7, <1>b, <1>c, SumCombined
<1>10. n * z - p * y = -(n * r - p * q)
  <2>1. n * (K * p + (-1) * r) - p * (K * n + (-1) * q) = -(n * r - p * q)
    BY <1>8, <1>9, TurnedCov
  <2> QED
    BY <1>8, <1>9, <1>c, <2>1
<1> QED
  BY <1>4, <1>10

(* The ranks of what is turned are turned.                                 *)
LEMMA RanksTurned ==
    ASSUME NEW n \in Nat, NEW u, NEW w, Numbers(u, n), Numbers(w, n), TurnedFrom(w, u, 0, n)
    PROVE  TurnedFrom(Ranks(w), Ranks(u), 2 * n + 2, n)
<1> SUFFICES ASSUME NEW i \in 1..n
             PROVE  Ranks(w)[i] = (2 * n + 2) - Ranks(u)[i]
  BY DEF TurnedFrom
<1>1. Ranks(u)[i] = RankOf(u, i) /\ Ranks(w)[i] = RankOf(w, i)
  BY RanksAre
<1>2. DOMAIN u = 1..n /\ DOMAIN w = 1..n /\ \A j \in 1..n : u[j] \in Int /\ w[j] = -u[j]
  BY DEF Numbers, TurnedFrom
<1>3. Level(w, i) = Level(u, i)
  <2>1. \A j \in 1..n : w[j] = w[i] <=> u[j] = u[i]
    BY <1>2
  <2> QED
    BY <1>2, <2>1 DEF Level
<1>b. PICK L, E, H, U : L = Lower(u, i) /\ E = Level(u, i) /\ H = Lower(w, i) /\ U = Lower(u, i) \union Level(u, i)
  OBVIOUS
<1>4. /\ IsFiniteSet(L) /\ IsFiniteSet(E) /\ Cardinality(L) \in Nat /\ Cardinality(E) \in Nat
      /\ L \subseteq 1..n /\ E \subseteq 1..n
      /\ IsFiniteSet(U) /\ Cardinality(U) = Cardinality(L) + Cardinality(E)
  BY <1>b, LevelsCount
<1>5. IsFiniteSet(H) /\ Cardinality(H) \in Nat /\ H \subseteq 1..n
  BY <1>b, LevelsCount
<1>6. ASSUME NEW j \in 1..n
      PROVE  j \in H <=> j \notin U
  <2>1. u[j] \in Int /\ u[i] \in Int /\ w[j] = -u[j] /\ w[i] = -u[i]
    BY <1>2
  <2>2. j \in H <=> w[j] < w[i]
    BY <1>2, <1>b DEF Lower
  <2>3. j \in U <=> u[j] < u[i] \/ u[j] = u[i]
    BY <1>2, <1>b DEF Lower, Level
  <2> QED
    BY <2>1, <2>2, <2>3
<1>7. H \union U = 1..n /\ H \cap U = {}
  <2>1. U \subseteq 1..n
    BY <1>4, <1>b
  <2> QED
    BY <1>5, <1>6, <2>1
<1>8. Cardinality(H \union U) = Cardinality(H) + Cardinality(U) - Cardinality(H \cap U)
  BY <1>4, <1>5, FS_Union
<1>9. Cardinality(H \cap U) = 0
  BY <1>7, FS_EmptySet
<1>10. Cardinality(H \union U) = n
  <2>1. 1 \in Int /\ n \in Int
    OBVIOUS
  <2>2. Cardinality(1..n) = IF 1 > n THEN 0 ELSE n - 1 + 1
    BY <2>1, FS_Interval
  <2>3. Cardinality(1..n) = n
    BY <2>2
  <2>4. H \union U = 1..n
    BY <1>7
  <2> QED
    BY <2>3, <2>4
<1>c. PICK l, e, h : l = Cardinality(L) /\ e = Cardinality(E) /\ h = Cardinality(H)
  OBVIOUS
<1>11. l \in Nat /\ e \in Nat /\ h \in Nat /\ n = h + (l + e)
  <2>1. l \in Nat /\ e \in Nat /\ h \in Nat
    BY <1>4, <1>5, <1>c
  <2>2. Cardinality(U) = l + e /\ n = h + Cardinality(U) - 0
    BY <1>4, <1>8, <1>9, <1>10, <1>c
  <2> QED
    BY <2>1, <2>2
<1>12. RankOf(u, i) = 2 * l + e + 1 /\ RankOf(w, i) = 2 * h + e + 1
  BY <1>3, <1>b, <1>c DEF RankOf
<1> QED
  BY <1>1, <1>11, <1>12

(* Pearson's coefficient changes its sign with the second series.          *)
Opposite(c, d) ==
    IF c = None THEN d = None
    ELSE /\ d # None /\ d.num = -c.num /\ d.a = c.a /\ d.b = c.b
         /\ c.num \in Int /\ c.a \in Int /\ c.b \in Int

LEMMA PearsonTurned ==
    ASSUME NEW n \in Nat, NEW K \in Int, NEW u, NEW v, NEW w, Numbers(u, n), Numbers(v, n), Numbers(w, n),
           Len(u) = n, TurnedFrom(w, v, K, n), None \notin [num : Int, a : Int, b : Int]
    PROVE  Opposite(Pearson(u, v), Pearson(u, w))
<1>1. CASE n < 2
  BY <1>1 DEF Pearson, Opposite
<1>2. CASE n >= 2
  <2>1. n \in Nat \ {0}
    BY <1>2
  <2>2. Cov(u, v, n) \in Int /\ Cov(u, u, n) \in Int /\ Cov(v, v, n) \in Int
    BY <2>1, CauchySchwarz
  <2>3. Cov(w, v, n) = Cov(v, w, n) /\ Cov(w, v, n) \in Int
    BY <2>1, CauchySchwarz
  <2>4. Cov(u, w, n) = -Cov(u, v, n)
    BY <2>1, CovTurned
  <2>5. Cov(w, w, n) = -Cov(w, v, n) /\ Cov(v, w, n) = -Cov(v, v, n)
    BY <2>1, CovTurned
  <2>6. Cov(w, w, n) = Cov(v, v, n)
    BY <2>2, <2>3, <2>5
  <2>a. PICK a, b, c : a = Cov(u, u, n) /\ b = Cov(v, v, n) /\ c = Cov(u, v, n)
    OBVIOUS
  <2>7. Pearson(u, v) = IF a = 0 \/ b = 0 THEN None ELSE [num |-> c, a |-> a, b |-> b]
    BY <1>2, <2>a DEF Pearson
  <2>8. Pearson(u, w) = IF a = 0 \/ b = 0 THEN None ELSE [num |-> -c, a |-> a, b |-> b]
    BY <1>2, <2>4, <2>6, <2>a DEF Pearson
  <2>9. a \in Int /\ b \in Int /\ c \in Int /\ -c \in Int
    BY <2>2, <2>a
  <2>10. [num |-> c, a |-> a, b |-> b] # None /\ [num |-> -c, a |-> a, b |-> b] # None
    BY <2>9
  <2> QED
    BY <2>7, <2>8, <2>9, <2>10 DEF Opposite
<1> QED
  BY <1>1, <1>2

(* What Coefficient answers of a correlation.                              *)
SignOf(c) == IF c.num > 0 THEN "+" ELSE IF c.num < 0 THEN "-" ELSE "0"

IsCoefficient(r, c, short, reached) ==
    r = IF short \/ c = None THEN [sign |-> "0", significant |-> FALSE]
        ELSE [sign |-> SignOf(c), significant |-> c.num * c.num = c.a * c.b \/ reached]

LEMMA CoefficientsOppose ==
    ASSUME NEW c, NEW d, Opposite(c, d), NEW short \in BOOLEAN, NEW reached \in BOOLEAN, NEW r, NEW q,
           IsCoefficient(r, c, short, reached), IsCoefficient(q, d, short, reached)
    PROVE  /\ q.sign = CASE r.sign = "+" -> "-" [] r.sign = "-" -> "+" [] r.sign = "0" -> "0"
           /\ r.sign \in {"+", "-", "0"} /\ q.significant = r.significant
<1>1. CASE short \/ c = None
  <2>1. short \/ d = None
    BY <1>1 DEF Opposite
  <2>2. r = [sign |-> "0", significant |-> FALSE] /\ q = [sign |-> "0", significant |-> FALSE]
    BY <1>1, <2>1 DEF IsCoefficient
  <2>3. r.sign = "0" /\ q.sign = "0" /\ q.significant = r.significant
    BY <2>2
  <2> QED
    BY <2>3
<1>2. CASE ~(short \/ c = None)
  <2>1. /\ d # None /\ d.num = -c.num /\ d.a = c.a /\ d.b = c.b
        /\ c.num \in Int /\ c.a \in Int /\ c.b \in Int
    BY <1>2 DEF Opposite
  <2>2. r.sign = SignOf(c) /\ q.sign = SignOf(d)
    BY <1>2, <2>1 DEF IsCoefficient
  <2>a. PICK x, y : x = c.num * c.num /\ y = c.a * c.b
    OBVIOUS
  <2>3. d.num * d.num = x /\ d.a * d.b = y
    BY <2>1, <2>a
  <2>4. r.significant = (x = y \/ reached) /\ q.significant = (x = y \/ reached)
    <3>1. r = [sign |-> SignOf(c), significant |-> c.num * c.num = c.a * c.b \/ reached]
      BY <1>2 DEF IsCoefficient
    <3>2. q = [sign |-> SignOf(d), significant |-> d.num * d.num = d.a * d.b \/ reached]
      BY <1>2, <2>1 DEF IsCoefficient
    <3> HIDE DEF SignOf
    <3>3. r.significant = (c.num * c.num = c.a * c.b \/ reached)
      BY <3>1, Zenon
    <3>4. q.significant = (d.num * d.num = d.a * d.b \/ reached)
      BY <3>2, Zenon
    <3> QED
      BY <2>3, <2>a, <3>3, <3>4, Zenon
  <2>5. SignOf(d) = CASE SignOf(c) = "+" -> "-" [] SignOf(c) = "-" -> "+" [] SignOf(c) = "0" -> "0"
    <3>1. CASE c.num > 0
      BY <2>1, <3>1 DEF SignOf
    <3>2. CASE c.num < 0
      BY <2>1, <3>2 DEF SignOf
    <3>3. CASE c.num = 0
      BY <2>1, <3>3 DEF SignOf
    <3>4. c.num > 0 \/ c.num < 0 \/ c.num = 0
      BY <2>1
    <3> QED
      BY <3>1, <3>2, <3>3, <3>4, Zenon
  <2>6. SignOf(c) \in {"+", "-", "0"}
    BY DEF SignOf
  <2> HIDE DEF SignOf
  <2>7. q.significant = r.significant
    BY <2>4
  <2> QED
    BY <2>2, <2>5, <2>6, <2>7
<1> QED
  BY <1>1, <1>2

LEMMA CoefficientOdd ==
    ASSUME NEW x, AdmitGiven(x), None \notin [num : Int, a : Int, b : Int], NEW a,
           a.ic = Coefficient(x.xs, x.ys, MinIcObs, x.t),
           a.reasons = AdmissionReasons(a.ic, x.alpha, x.expected, x.marginal, x.correlation),
           a.admitted => Admitted(a.reasons)
    PROVE  CoefficientIsOdd(x, a)
<1>a. PICK xs, ys, n : xs = x.xs /\ ys = x.ys /\ n = Len(x.xs)
  OBVIOUS
<1>b. PICK ws : ws = [i \in DOMAIN ys |-> -ys[i]]
  OBVIOUS
<1>1. n \in Nat /\ Numbers(xs, n) /\ Numbers(ys, n)
  BY <1>a DEF AdmitGiven, Numbers
<1>2. Numbers(ws, n) /\ TurnedFrom(ws, ys, 0, n)
  <2>1. DOMAIN ws = 1..n /\ \A i \in 1..n : ws[i] = -ys[i] /\ ys[i] \in Int
    BY <1>1, <1>b DEF Numbers
  <2> QED
    BY <2>1 DEF Numbers, TurnedFrom
<1>c. PICK u, v, w : u = Ranks(xs) /\ v = Ranks(ys) /\ w = Ranks(ws)
  OBVIOUS
<1>3. Numbers(u, n) /\ Numbers(v, n) /\ Numbers(w, n)
  BY <1>1, <1>2, <1>c, RanksAre
<1>4. Len(u) = n
  <2>1. u = [i \in 1..n |-> u[i]]
    BY <1>1, <1>c DEF Ranks, Numbers
  <2> QED
    BY <1>1, <2>1
<1>d. PICK K : K = 2 * n + 2
  OBVIOUS
<1>5. K \in Int /\ TurnedFrom(w, v, K, n)
  BY <1>1, <1>2, <1>c, <1>d, RanksTurned
<1>e. PICK c, d : c = Pearson(u, v) /\ d = Pearson(u, w)
  OBVIOUS
<1>6. Opposite(c, d)
  BY <1>1, <1>3, <1>4, <1>5, <1>e, PearsonTurned
<1> DEFINE short == n < MinIcObs
           reached == x.t >= Max({2000, CriticalAt(n - 2)})
<1>g. PICK r, q : r = Coefficient(xs, ys, MinIcObs, x.t) /\ q = Coefficient(xs, ws, MinIcObs, x.t)
  OBVIOUS
<1>7. IsCoefficient(r, c, short, reached)
  <2>1. IsCoefficient(Coefficient(xs, ys, MinIcObs, x.t), Pearson(Ranks(xs), Ranks(ys)),
                      Len(xs) < MinIcObs, x.t >= Max({2000, CriticalAt(Len(xs) - 2)}))
    BY DEF Coefficient, IsCoefficient, SignOf
  <2> QED
    BY <1>a, <1>c, <1>e, <1>g, <2>1
<1>8. IsCoefficient(q, d, short, reached)
  <2>1. IsCoefficient(Coefficient(xs, ws, MinIcObs, x.t), Pearson(Ranks(xs), Ranks(ws)),
                      Len(xs) < MinIcObs, x.t >= Max({2000, CriticalAt(Len(xs) - 2)}))
    BY DEF Coefficient, IsCoefficient, SignOf
  <2> QED
    BY <1>a, <1>c, <1>e, <1>g, <2>1
<1>9. short \in BOOLEAN /\ reached \in BOOLEAN
  OBVIOUS
<1> HIDE DEF short, reached
<1>10. /\ q.sign = CASE r.sign = "+" -> "-" [] r.sign = "-" -> "+" [] r.sign = "0" -> "0"
       /\ r.sign \in {"+", "-", "0"} /\ q.significant = r.significant
  BY <1>6, <1>7, <1>8, <1>9, CoefficientsOppose
<1>11. a.ic = r
  BY <1>a, <1>g
<1>12. a.admitted => a.ic.sign = x.expected
  <2> SUFFICES ASSUME a.admitted
               PROVE  a.ic.sign = x.expected
    OBVIOUS
  <2>1. "signed" \in DOMAIN a.reasons /\ a.reasons["signed"] = (a.ic.significant /\ a.ic.sign = x.expected)
    BY DEF AdmissionReasons
  <2>2. a.reasons["signed"]
    BY <2>1 DEF Admitted
  <2> QED
    BY <2>1, <2>2
<1>13. Field(x.ys, LAMBDA y : -y) = ws
  BY <1>a, <1>b DEF Field
<1> DEFINE down == Coefficient(x.xs, Field(x.ys, LAMBDA y : -y), MinIcObs, x.t)
           opposite == [s \in {"+", "-", "0"} |-> CASE s = "+" -> "-" [] s = "-" -> "+" [] s = "0" -> "0"]
<1>14. down = q
  BY <1>13, <1>a, <1>g
<1>15. opposite[r.sign] = CASE r.sign = "+" -> "-" [] r.sign = "-" -> "+" [] r.sign = "0" -> "0"
  BY <1>10
<1> HIDE DEF down, opposite
<1>16. down.sign = opposite[a.ic.sign] /\ down.significant = a.ic.significant
  BY <1>10, <1>11, <1>14, <1>15
<1>17. x.expected \in {"+", "-"}
  BY DEF AdmitGiven
<1>18. opposite[x.expected] = IF x.expected = "+" THEN "-" ELSE "+"
  BY <1>17 DEF opposite
<1>19. a.ic.sign = x.expected <=> down.sign = opposite[x.expected]
  BY <1>10, <1>11, <1>14, <1>17, <1>18
<1>20. AdmissionReasons(down, x.alpha, opposite[x.expected], x.marginal, x.correlation) = a.reasons
  <2>a. PICK p, o : p = (a.ic.significant /\ a.ic.sign = x.expected)
                    /\ o = (down.significant /\ down.sign = opposite[x.expected])
    OBVIOUS
  <2>1. p = o
    BY <1>16, <1>19, <2>a, Zenon
  <2> QED
    BY <2>1, <2>a DEF AdmissionReasons
<1> QED
  BY <1>12, <1>16, <1>20 DEF CoefficientIsOdd, down, opposite

(* The roster *)

Scored(c) == c.code \in Int /\ c.score \in Int /\ (c.dsr = None \/ c.dsr \in Int)
Dsr(c) == IF c.dsr = None THEN -1 ELSE c.dsr

LEMMA RanksAboveIs ==
    ASSUME NEW c, NEW d
    PROVE  RanksAbove(c, d) <=>
                \/ c.score > d.score
                \/ c.score = d.score /\ Dsr(c) > Dsr(d)
                \/ c.score = d.score /\ Dsr(c) = Dsr(d) /\ c.code > d.code
BY DEF RanksAbove, Dsr

LEMMA RankingIs ==
    ASSUME NEW c, NEW d, NEW e, Scored(c), Scored(d), Scored(e)
    PROVE  /\ ~RanksAbove(c, c)
           /\ RanksAbove(c, d) => ~RanksAbove(d, c)
           /\ RanksAbove(c, d) /\ RanksAbove(d, e) => RanksAbove(c, e)
           /\ ~RanksAbove(c, d) /\ ~RanksAbove(d, e) => ~RanksAbove(c, e)
<1>a. PICK s, t, u, v, w, y, k, l, m : /\ s = c.score /\ v = Dsr(c) /\ k = c.code
                                       /\ t = d.score /\ w = Dsr(d) /\ l = d.code
                                       /\ u = e.score /\ y = Dsr(e) /\ m = e.code
  OBVIOUS
<1>1. /\ s \in Int /\ t \in Int /\ u \in Int /\ v \in Int /\ w \in Int /\ y \in Int
      /\ k \in Int /\ l \in Int /\ m \in Int
  BY <1>a DEF Scored, Dsr
<1>2. /\ RanksAbove(c, c) <=> s > s \/ (s = s /\ v > v) \/ (s = s /\ v = v /\ k > k)
      /\ RanksAbove(c, d) <=> s > t \/ (s = t /\ v > w) \/ (s = t /\ v = w /\ k > l)
      /\ RanksAbove(d, c) <=> t > s \/ (t = s /\ w > v) \/ (t = s /\ w = v /\ l > k)
      /\ RanksAbove(d, e) <=> t > u \/ (t = u /\ w > y) \/ (t = u /\ w = y /\ l > m)
      /\ RanksAbove(c, e) <=> s > u \/ (s = u /\ v > y) \/ (s = u /\ v = y /\ k > m)
  BY <1>a, RanksAboveIs
<1>3. ~RanksAbove(c, c) /\ (RanksAbove(c, d) => ~RanksAbove(d, c))
  BY <1>1, <1>2
<1>4. RanksAbove(c, d) /\ RanksAbove(d, e) => RanksAbove(c, e)
  BY <1>1, <1>2
<1>5. ~RanksAbove(c, d) /\ ~RanksAbove(d, e) => ~RanksAbove(c, e)
  BY <1>1, <1>2
<1> QED
  BY <1>3, <1>4, <1>5

Ahead(cs, i, j) ==
    \/ RanksAbove(cs[i], cs[j])
    \/ i < j /\ ~RanksAbove(cs[j], cs[i])

AheadIn(S, cs) == [i \in S |-> {j \in S : Ahead(cs, j, i)}]

LEMMA AheadOrders ==
    ASSUME NEW cs, NEW S, S \subseteq Int, \A i \in S : Scored(cs[i])
    PROVE  Orders(AheadIn(S, cs), S)
<1>a. PICK before : before = AheadIn(S, cs)
  OBVIOUS
<1>1. DOMAIN before = S /\ \A i \in S : before[i] = {j \in S : Ahead(cs, j, i)}
  BY <1>a DEF AheadIn
<1>2. \A i, j \in S : j \in before[i] <=> Ahead(cs, j, i)
  BY <1>1
<1>3. ASSUME NEW i \in S
      PROVE  before[i] \subseteq S /\ i \notin before[i]
  <2>1. before[i] \subseteq S
    BY <1>1
  <2>2. ~RanksAbove(cs[i], cs[i])
    BY RankingIs
  <2>3. i \in Int /\ ~(i < i)
    OBVIOUS
  <2>4. ~Ahead(cs, i, i)
    BY <2>2, <2>3 DEF Ahead
  <2> QED
    BY <1>2, <2>1, <2>4
<1>4. ASSUME NEW i \in S, NEW j \in S, NEW k \in S, Ahead(cs, i, j), Ahead(cs, j, k)
      PROVE  Ahead(cs, i, k)
  <2>a. PICK c, d, e : c = cs[i] /\ d = cs[j] /\ e = cs[k]
    OBVIOUS
  <2>1. Scored(c) /\ Scored(d) /\ Scored(e) /\ i \in Int /\ j \in Int /\ k \in Int
    BY <2>a
  <2>2. /\ RanksAbove(c, d) /\ RanksAbove(d, e) => RanksAbove(c, e)
        /\ ~RanksAbove(e, d) /\ ~RanksAbove(d, c) => ~RanksAbove(e, c)
    BY <2>1, RankingIs
  <2>3. /\ ~RanksAbove(c, e) /\ ~RanksAbove(e, d) => ~RanksAbove(c, d)
        /\ ~RanksAbove(d, c) /\ ~RanksAbove(c, e) => ~RanksAbove(d, e)
    BY <2>1, RankingIs
  <2>4. /\ RanksAbove(c, d) \/ (i < j /\ ~RanksAbove(d, c))
        /\ RanksAbove(d, e) \/ (j < k /\ ~RanksAbove(e, d))
    BY <1>4, <2>a DEF Ahead
  <2>5. RanksAbove(c, e) \/ (i < k /\ ~RanksAbove(e, c))
    <3>1. i < j /\ j < k => i < k
      BY <2>1
    <3> QED
      BY <2>2, <2>3, <2>4, <3>1
  <2> QED
    BY <2>5, <2>a DEF Ahead
<1>5. ASSUME NEW i \in S, NEW j \in S
      PROVE  i = j \/ Ahead(cs, i, j) \/ Ahead(cs, j, i)
  <2>1. i = j \/ i < j \/ j < i
    OBVIOUS
  <2> QED
    BY <2>1 DEF Ahead
<1>6. ASSUME NEW d \in S, NEW e \in S, d \in before[e], NEW c \in before[d]
      PROVE  c \in before[e]
  <2>1. c \in S
    BY <1>3
  <2>2. Ahead(cs, c, d) /\ Ahead(cs, d, e)
    BY <1>2, <1>6, <2>1
  <2> QED
    BY <1>2, <1>4, <2>1, <2>2
<1>7. \A d, e \in S : d = e \/ d \in before[e] \/ e \in before[d]
  BY <1>2, <1>5
<1>8. Orders(before, S)
  BY <1>1, <1>3, <1>6, <1>7 DEF Orders
<1> QED
  BY <1>8, <1>a

(* The candidates in the order they are asked for.                         *)
Asking(ranked, cs) ==
    /\ ListOf(ranked)
    /\ \A k \in DOMAIN ranked : ranked[k] \in Range(cs)
    /\ \A c \in Range(cs) : Provisional(c) => \E k \in DOMAIN ranked : ranked[k] = c
    /\ \A j, k \in DOMAIN ranked : RanksAbove(ranked[j], ranked[k]) => j < k

LEMMA AskingIs ==
    ASSUME NEW cs, List(cs), \A c \in Range(cs) : Scored(c)
    PROVE  Asking(RankedCandidates(cs), cs)
<1>a. PICK n : n = Len(cs)
  OBVIOUS
<1>1. n \in Nat /\ DOMAIN cs = 1..n /\ \A i \in 1..n : cs[i] \in Range(cs)
  <2>1. cs \in Seq(Range(cs))
    BY DEF List
  <2> QED
    BY <2>1, <1>a
<1>b. PICK S : S = {i \in 1..n : Provisional(cs[i])}
  OBVIOUS
<1>2. S \in SUBSET (1..n) /\ S \subseteq Int
  BY <1>1, <1>b
<1>3. IsFiniteSet(S)
  <2>1. 1 \in Int /\ n \in Int
    BY <1>1
  <2>2. IsFiniteSet(1..n)
    BY <2>1, FS_Interval
  <2> QED
    BY <1>2, <2>2, FS_Subset
<1>c. PICK before : before = AheadIn(S, cs)
  OBVIOUS
<1>4. \A i \in S : Scored(cs[i])
  BY <1>1, <1>2
<1>5. Orders(before, S)
  BY <1>2, <1>4, <1>c, AheadOrders
<1>d. PICK order, ranked : order = Arranged(before) /\ ranked = RankedCandidates(cs)
  OBVIOUS
<1>6. InPlace(order, before, S) /\ Cardinality(S) \in Nat
  BY <1>3, <1>5, <1>d, ArrangedIs
<1>7. ranked = [k \in DOMAIN order |-> cs[order[k]]]
  <2>1. RankedCandidates(cs) =
          [k \in DOMAIN Arranged(AheadIn({i \in DOMAIN cs : Provisional(cs[i])}, cs)) |->
              cs[Arranged(AheadIn({i \in DOMAIN cs : Provisional(cs[i])}, cs))[k]]]
    BY DEF RankedCandidates, AheadIn, Ahead
  <2>2. {i \in DOMAIN cs : Provisional(cs[i])} = S
    BY <1>1, <1>b
  <2> QED
    BY <1>c, <1>d, <2>1, <2>2
<1>8. /\ DOMAIN order = 1..Cardinality(S)
      /\ \A k \in DOMAIN order : order[k] \in S
      /\ \A d \in S : \E k \in DOMAIN order : order[k] = d
      /\ \A j, k \in DOMAIN order : order[j] \in before[order[k]] <=> j < k
  BY <1>6 DEF InPlace
<1>9. DOMAIN ranked = DOMAIN order /\ \A k \in DOMAIN order : ranked[k] = cs[order[k]]
  BY <1>7
<1>10. ListOf(ranked)
  <2>1. Len(ranked) = Cardinality(S)
    BY <1>6, <1>7, <1>8
  <2> QED
    BY <1>6, <1>8, <1>9, <2>1 DEF ListOf
<1>11. \A k \in DOMAIN ranked : ranked[k] \in Range(cs)
  BY <1>1, <1>2, <1>8, <1>9
<1>12. ASSUME NEW c \in Range(cs), Provisional(c)
       PROVE  \E k \in DOMAIN ranked : ranked[k] = c
  <2>1. PICK i \in 1..n : cs[i] = c
    BY <1>1 DEF Range
  <2>2. i \in S
    BY <1>12, <1>b, <2>1
  <2> QED
    BY <1>8, <1>9, <2>1, <2>2
<1>13. ASSUME NEW j \in DOMAIN ranked, NEW k \in DOMAIN ranked, RanksAbove(ranked[j], ranked[k])
       PROVE  j < k
  <2>1. order[j] \in S /\ order[k] \in S /\ ranked[j] = cs[order[j]] /\ ranked[k] = cs[order[k]]
    BY <1>8, <1>9
  <2>2. Ahead(cs, order[j], order[k])
    BY <1>13, <2>1 DEF Ahead
  <2>3. order[j] \in before[order[k]]
    BY <1>c, <2>1, <2>2 DEF AheadIn
  <2> QED
    BY <1>8, <1>9, <2>3
<1> QED
  BY <1>10, <1>11, <1>12, <1>13, <1>d DEF Asking

NoPicks == <<>>

PickSteps(h, cs, gap, excluded) ==
    LET ranked == RankedCandidates(cs) IN
    /\ h[0] = NoPicks
    /\ \A k \in 0..Len(ranked) : h[k] \in Seq(Range(cs))
    /\ \A k \in 1..Len(ranked) : h[k] = Pick(h[k - 1], ranked[k], gap, excluded)

LEMMA PickTyped ==
    ASSUME NEW C, NEW p \in Seq(C), NEW c \in C, NEW gap, NEW excluded
    PROVE  Pick(p, c, gap, excluded) \in Seq(C)
BY DEF Pick

LEMMA RosterIsSteps ==
    ASSUME NEW cs, ListOf(RankedCandidates(cs)), NEW active, NEW floor, NEW excluded,
           \A k \in DOMAIN RankedCandidates(cs) : RankedCandidates(cs)[k] \in Range(cs)
    PROVE  \E h : /\ PickSteps(h, cs, RosterGap(active, floor), excluded)
                  /\ RosterFill(active, cs, floor, excluded) = h[Len(RankedCandidates(cs))]
<1> DEFINE n == Len(RankedCandidates(cs))
           V == Seq(Range(cs))
           b == NoPicks
           Is(it) == it = [U \in SUBSET DOMAIN RankedCandidates(cs) |->
                              IF U = {} THEN b ELSE Pick(it[U \ {Max(U)}], RankedCandidates(cs)[Max(U)], RosterGap(active, floor), excluded)]
           iter == CHOOSE it : Is(it)
<1>1. RosterFill(active, cs, floor, excluded) = iter[DOMAIN RankedCandidates(cs)]
  BY DEF RosterFill, FoldLeft, MapThenFoldSet, NoPicks
<1>2. n \in Nat /\ DOMAIN RankedCandidates(cs) = 1..n
  BY DEF ListOf
<1>3. b \in V
  BY DEF NoPicks
<1> DEFINE step == [p \in (1..n) \X V |-> Pick(p[2], RankedCandidates(cs)[p[1]], RosterGap(active, floor), excluded)]
<1>4. step \in [(1..n) \X V -> V]
  <2> SUFFICES ASSUME NEW k \in 1..n, NEW v \in V
               PROVE  Pick(v, RankedCandidates(cs)[k], RosterGap(active, floor), excluded) \in V
    OBVIOUS
  <2> QED
    BY <1>2, PickTyped
<1>0. b = NoPicks
  OBVIOUS
<1> HIDE DEF b, V
<1>5. PICK it : Folds(it, V, b, n, step)
  <2> HIDE DEF V, b, step, n
  <2> QED
    BY <1>2, <1>3, <1>4, FoldExists
<1>6. \A U \in SUBSET DOMAIN RankedCandidates(cs) :
        it[U] = IF U = {} THEN b ELSE Pick(it[U \ {Max(U)}], RankedCandidates(cs)[Max(U)], RosterGap(active, floor), excluded)
  <2> SUFFICES ASSUME NEW U \in SUBSET (1..n)
               PROVE  it[U] = IF U = {} THEN b ELSE Pick(it[U \ {Max(U)}], RankedCandidates(cs)[Max(U)], RosterGap(active, floor), excluded)
    BY <1>2
  <2>1. it[U] \in V /\ it[U \ {Max(U)}] \in V
    BY <1>5 DEF Folds
  <2>2. CASE U = {}
    BY <1>5, <2>1, <2>2 DEF Folds
  <2>3. CASE U # {}
    <3>1. Max(U) \in 1..n /\ it[U] = step[<<Max(U), it[U \ {Max(U)}]>>]
      BY <1>5, <2>3 DEF Folds
    <3> QED
      BY <2>1, <2>3, <3>1
  <2> QED
    BY <2>2, <2>3
<1>7. Is(it)
  <2>1. it \in [SUBSET DOMAIN RankedCandidates(cs) -> V]
    BY <1>2, <1>5 DEF Folds
  <2> HIDE DEF b, V
  <2> QED
    BY <1>6, <2>1
<1>8. Is(iter)
  <2> HIDE DEF Is
  <2> QED
    BY <1>7
<1>9. ASSUME NEW U \in SUBSET (1..n)
      PROVE  iter[U] = IF U = {} THEN b ELSE Pick(iter[U \ {Max(U)}], RankedCandidates(cs)[Max(U)], RosterGap(active, floor), excluded)
  BY <1>2, <1>8
<1> PICK h : h = [k \in 0..n |-> iter[1..k]]
  OBVIOUS
<1>10. h[0] = b
  <2>1. 1..0 = {} /\ {} \in SUBSET (1..n) /\ 0 \in 0..n
    BY <1>2
  <2> QED
    BY <1>9, <2>1
<1>11. ASSUME NEW k \in 1..n
       PROVE  h[k] = Pick(h[k - 1], RankedCandidates(cs)[k], RosterGap(active, floor), excluded)
  <2>1. 1..k \in SUBSET (1..n) /\ 1..k # {} /\ k \in Nat \ {0} /\ k \in 0..n /\ k - 1 \in 0..n
    BY <1>2
  <2>2. Max(1..k) = k /\ (1..k) \ {Max(1..k)} = 1..(k - 1)
    BY <2>1, LastOfInterval
  <2>3. iter[1..k] = Pick(iter[1..(k - 1)], RankedCandidates(cs)[k], RosterGap(active, floor), excluded)
    BY <1>9, <2>1, <2>2
  <2>4. h[k] = iter[1..k] /\ h[k - 1] = iter[1..(k - 1)]
    BY <2>1
  <2> QED
    BY <2>3, <2>4
<1>12. \A k \in 0..n : h[k] \in V
  <2> DEFINE Bad == {k \in 0..n : h[k] \notin V}
  <2> SUFFICES ASSUME Bad # {}
               PROVE  FALSE
    OBVIOUS
  <2>1. PICK k \in Bad : \A j \in Bad : k <= j
    <3>1. Bad \in SUBSET Nat
      BY <1>2
    <3> HIDE DEF Bad
    <3> QED
      BY <3>1, LeastNumber
  <2>2. k \in 0..n /\ h[k] \notin V
    BY <2>1
  <2>3. k # 0
    BY <1>3, <1>10, <2>2
  <2>4. k \in 1..n /\ h[k - 1] \in V
    <3>1. k \in 1..n /\ k - 1 \in 0..n /\ ~(k <= k - 1)
      BY <1>2, <2>2, <2>3
    <3> HIDE DEF V
    <3> QED
      BY <2>1, <3>1
  <2>5. h[k] \in V
    <3>1. Pick(h[k - 1], RankedCandidates(cs)[k], RosterGap(active, floor), excluded) \in V
      BY <1>2, <2>4, PickTyped DEF V
    <3> QED
      BY <1>11, <2>4, <3>1
  <2> QED
    BY <2>2, <2>5
<1>13. h[n] = iter[DOMAIN RankedCandidates(cs)]
  BY <1>2
<1> HIDE DEF iter
<1> QED
  <2>1. h[0] = NoPicks
    BY <1>0, <1>10
  <2>2. RosterFill(active, cs, floor, excluded) = h[Len(RankedCandidates(cs))]
    BY <1>1, <1>13
  <2>3. PickSteps(h, cs, RosterGap(active, floor), excluded)
    BY <2>1, <1>11, <1>12 DEF PickSteps, V
  <2> QED
    BY <2>2, <2>3

Has(p, code) == \E l \in DOMAIN p : p[l].code = code
Apart(p) == \A i, l \in DOMAIN p : i # l => p[i].code # p[l].code

(* When the j-th was picked, those before it were excluded or picked.      *)
PickedAt(p, ranked, i, j, excluded) ==
    /\ p[i] = ranked[j]
    /\ \A m \in 1..(j - 1) :
        \/ ranked[m].code \in excluded
        \/ \E l \in DOMAIN p : l # i /\ p[l].code = ranked[m].code

PicksInv(p, ranked, k, gap, excluded) ==
    /\ Len(p) <= gap /\ Apart(p)
    /\ \A i \in DOMAIN p : p[i].code \notin excluded /\ \E j \in 1..k : PickedAt(p, ranked, i, j, excluded)
    /\ Len(p) < gap => \A m \in 1..k : ranked[m].code \in excluded \/ Has(p, ranked[m].code)

LEMMA PicksKept ==
    ASSUME NEW p, NEW ranked, NEW k \in Nat \ {0}, NEW gap \in Nat, NEW excluded,
           PicksInv(p, ranked, k - 1, gap, excluded), Len(p) \in Nat,
           \/ Len(p) >= gap
           \/ ranked[k].code \in excluded
           \/ Has(p, ranked[k].code)
    PROVE  PicksInv(p, ranked, k, gap, excluded)
<1>1. 1..(k - 1) \subseteq 1..k /\ \A m \in 1..k : m = k \/ m \in 1..(k - 1)
  OBVIOUS
<1>2. \A i \in DOMAIN p : p[i].code \notin excluded /\ \E j \in 1..k : PickedAt(p, ranked, i, j, excluded)
  BY <1>1 DEF PicksInv
<1>3. Len(p) < gap => \A m \in 1..k : ranked[m].code \in excluded \/ Has(p, ranked[m].code)
  <2> SUFFICES ASSUME Len(p) < gap, NEW m \in 1..k
               PROVE  ranked[m].code \in excluded \/ Has(p, ranked[m].code)
    OBVIOUS
  <2>1. ~(Len(p) >= gap)
    OBVIOUS
  <2>2. CASE m = k
    BY <2>1, <2>2
  <2>3. CASE m \in 1..(k - 1)
    BY <2>3 DEF PicksInv
  <2> QED
    BY <1>1, <2>2, <2>3
<1> QED
  BY <1>2, <1>3 DEF PicksInv

LEMMA PicksAdded ==
    ASSUME NEW C, NEW p \in Seq(C), NEW ranked, NEW k \in Nat \ {0}, NEW gap \in Nat, NEW excluded,
           PicksInv(p, ranked, k - 1, gap, excluded), ranked[k] \in C, Len(p) < gap,
           ranked[k].code \notin excluded, ~Has(p, ranked[k].code)
    PROVE  PicksInv(Append(p, ranked[k]), ranked, k, gap, excluded)
<1>a. PICK n, c, q : n = Len(p) /\ c = ranked[k] /\ q = Append(p, ranked[k])
  OBVIOUS
<1>1. n \in Nat /\ DOMAIN p = 1..n
  BY <1>a
<1>2. /\ DOMAIN q = 1..(n + 1) /\ Len(q) = n + 1 /\ q[n + 1] = c
      /\ \A i \in 1..n : q[i] = p[i]
  BY <1>1, <1>a
<1>3. \A i \in 1..(n + 1) : i = n + 1 \/ i \in 1..n
  BY <1>1
<1>4. 1..n \subseteq 1..(n + 1) /\ n + 1 \in 1..(n + 1) /\ n + 1 \notin 1..n
  BY <1>1
<1>5. Apart(q)
  <2> SUFFICES ASSUME NEW i \in DOMAIN q, NEW l \in DOMAIN q, i # l
               PROVE  q[i].code # q[l].code
    BY DEF Apart
  <2>1. \A j \in 1..n : p[j].code # c.code
    BY <1>1, <1>a DEF Has
  <2>2. \A j, m \in 1..n : j # m => p[j].code # p[m].code
    BY <1>1 DEF PicksInv, Apart
  <2>3. i = n + 1 \/ i \in 1..n
    BY <1>2, <1>3
  <2>4. l = n + 1 \/ l \in 1..n
    BY <1>2, <1>3
  <2>5. CASE i = n + 1
    <3>1. l \in 1..n
      BY <2>4, <2>5
    <3> QED
      BY <1>2, <2>1, <2>5, <3>1
  <2>6. CASE i \in 1..n
    <3>1. CASE l = n + 1
      BY <1>2, <2>1, <2>6, <3>1
    <3>2. CASE l \in 1..n
      BY <1>2, <2>2, <2>6, <3>2
    <3> QED
      BY <2>4, <3>1, <3>2
  <2> QED
    BY <2>3, <2>5, <2>6
<1>6. \A code : Has(p, code) => Has(q, code)
  <2> SUFFICES ASSUME NEW code, Has(p, code)
               PROVE  Has(q, code)
    OBVIOUS
  <2>1. PICK l \in 1..n : p[l].code = code
    BY <1>1 DEF Has
  <2>2. l \in DOMAIN q /\ q[l].code = code
    BY <1>2, <1>4, <2>1
  <2> QED
    BY <2>2 DEF Has
<1>7. Has(q, c.code)
  BY <1>2, <1>4 DEF Has
<1>8. \A m \in 1..(k - 1) : ranked[m].code \in excluded \/ Has(p, ranked[m].code)
  BY DEF PicksInv
<1>9. \A m \in 1..k : ranked[m].code \in excluded \/ Has(q, ranked[m].code)
  <2> SUFFICES ASSUME NEW m \in 1..k
               PROVE  ranked[m].code \in excluded \/ Has(q, ranked[m].code)
    OBVIOUS
  <2>1. m = k \/ m \in 1..(k - 1)
    OBVIOUS
  <2>2. CASE m = k
    BY <1>7, <1>a, <2>2
  <2>3. CASE m \in 1..(k - 1)
    BY <1>6, <1>8, <2>3
  <2> QED
    BY <2>1, <2>2, <2>3
<1>10. ASSUME NEW i \in 1..n
       PROVE  q[i].code \notin excluded /\ \E j \in 1..k : PickedAt(q, ranked, i, j, excluded)
  <2>1. p[i].code \notin excluded
    BY <1>1 DEF PicksInv
  <2>2. PICK j \in 1..(k - 1) : PickedAt(p, ranked, i, j, excluded)
    BY <1>1 DEF PicksInv
  <2>3. ASSUME NEW m \in 1..(j - 1)
        PROVE  ranked[m].code \in excluded \/ \E l \in DOMAIN q : l # i /\ q[l].code = ranked[m].code
    <3>1. ranked[m].code \in excluded \/ \E l \in 1..n : l # i /\ p[l].code = ranked[m].code
      BY <1>1, <2>2 DEF PickedAt
    <3> QED
      BY <1>2, <1>4, <3>1
  <2>4. q[i] = ranked[j]
    BY <1>2, <2>2 DEF PickedAt
  <2>5. PickedAt(q, ranked, i, j, excluded)
    BY <2>3, <2>4 DEF PickedAt
  <2>6. j \in 1..k
    OBVIOUS
  <2> QED
    BY <1>2, <2>1, <2>5, <2>6
<1>11. q[n + 1].code \notin excluded /\ \E j \in 1..k : PickedAt(q, ranked, n + 1, j, excluded)
  <2>1. ASSUME NEW m \in 1..(k - 1)
        PROVE  ranked[m].code \in excluded \/ \E l \in DOMAIN q : l # n + 1 /\ q[l].code = ranked[m].code
    <3>1. ranked[m].code \in excluded \/ Has(p, ranked[m].code)
      BY <1>8
    <3>2. ASSUME Has(p, ranked[m].code)
          PROVE  \E l \in DOMAIN q : l # n + 1 /\ q[l].code = ranked[m].code
      <4>1. PICK l \in 1..n : p[l].code = ranked[m].code
        BY <1>1, <3>2 DEF Has
      <4>2. l \in DOMAIN q /\ l # n + 1 /\ q[l] = p[l]
        BY <1>2, <1>4
      <4> QED
        BY <4>1, <4>2
    <3> QED
      BY <3>1, <3>2
  <2>2. PickedAt(q, ranked, n + 1, k, excluded)
    BY <1>2, <1>a, <2>1 DEF PickedAt
  <2>3. k \in 1..k
    OBVIOUS
  <2> QED
    BY <1>2, <1>a, <2>2, <2>3
<1>12. \A i \in DOMAIN q : q[i].code \notin excluded /\ \E j \in 1..k : PickedAt(q, ranked, i, j, excluded)
  BY <1>2, <1>3, <1>10, <1>11
<1>13. Len(q) <= gap
  BY <1>1, <1>2, <1>a
<1> QED
  BY <1>5, <1>9, <1>12, <1>13, <1>a DEF PicksInv

LEMMA PicksAre ==
    ASSUME NEW cs, NEW ranked, ranked = RankedCandidates(cs), Asking(ranked, cs), NEW active \in Int, NEW floor \in Int,
           NEW excluded, NEW picks, picks = RosterFill(active, cs, floor, excluded)
    PROVE  /\ RosterGap(active, floor) \in Nat /\ picks \in Seq(Range(cs))
           /\ PicksInv(picks, ranked, Len(ranked), RosterGap(active, floor), excluded)
<1>a. PICK gap, n : gap = RosterGap(active, floor) /\ n = Len(ranked)
  OBVIOUS
<1>1. gap \in Nat
  <2>1. 0 \in Int /\ floor - active \in Int
    OBVIOUS
  <2>2. Max({0, floor - active}) = IF 0 >= floor - active THEN 0 ELSE floor - active
    BY <2>1, MaxOfTwo
  <2> QED
    BY <1>a, <2>1, <2>2 DEF RosterGap
<1>2. n \in Nat /\ DOMAIN ranked = 1..n /\ \A k \in 1..n : ranked[k] \in Range(cs)
  BY <1>a DEF Asking, ListOf
<1>3. PICK h : PickSteps(h, cs, gap, excluded) /\ picks = h[n]
  BY <1>a, RosterIsSteps DEF Asking
<1>4. /\ h[0] = NoPicks
      /\ \A k \in 0..n : h[k] \in Seq(Range(cs))
      /\ \A k \in 1..n : h[k] = Pick(h[k - 1], ranked[k], gap, excluded)
  BY <1>3, <1>a DEF PickSteps
<1>5. PicksInv(h[0], ranked, 0, gap, excluded)
  <2>1. Len(NoPicks) = 0 /\ DOMAIN NoPicks = {}
    BY DEF NoPicks
  <2>2. 1..0 = {}
    OBVIOUS
  <2> QED
    BY <1>1, <1>4, <2>1, <2>2 DEF PicksInv, Apart
<1>6. ASSUME NEW k \in 1..n, PicksInv(h[k - 1], ranked, k - 1, gap, excluded)
      PROVE  PicksInv(h[k], ranked, k, gap, excluded)
  <2>a. PICK p : p = h[k - 1]
    OBVIOUS
  <2>b. PICK C : C = Range(cs)
    OBVIOUS
  <2>1. k \in Nat \ {0} /\ k - 1 \in 0..n
    BY <1>2
  <2>2. p \in Seq(C) /\ Len(p) \in Nat /\ ranked[k] \in C /\ PicksInv(p, ranked, k - 1, gap, excluded)
    BY <1>2, <1>4, <1>6, <2>1, <2>a, <2>b
  <2>3. h[k] = Pick(p, ranked[k], gap, excluded)
    BY <1>4, <2>a
  <2>4. CASE Len(p) >= gap \/ ranked[k].code \in excluded \/ Has(p, ranked[k].code)
    <3>1. h[k] = p
      BY <2>3, <2>4 DEF Pick, Has
    <3>2. PicksInv(p, ranked, k, gap, excluded)
      BY <1>1, <2>1, <2>2, <2>4, PicksKept
    <3> QED
      BY <3>1, <3>2
  <2>5. CASE ~(Len(p) >= gap \/ ranked[k].code \in excluded \/ Has(p, ranked[k].code))
    <3>1. h[k] = Append(p, ranked[k])
      BY <2>3, <2>5 DEF Pick, Has
    <3>2. Len(p) < gap
      BY <1>1, <2>2, <2>5
    <3>3. PicksInv(Append(p, ranked[k]), ranked, k, gap, excluded)
      BY <1>1, <2>1, <2>2, <2>5, <3>2, PicksAdded
    <3> QED
      BY <3>1, <3>3
  <2> QED
    BY <2>4, <2>5
<1>7. PicksInv(h[n], ranked, n, gap, excluded)
  <2> DEFINE Bad == {k \in 0..n : ~PicksInv(h[k], ranked, k, gap, excluded)}
  <2> SUFFICES ASSUME Bad # {}
               PROVE  FALSE
    BY <1>2
  <2>1. PICK k \in Bad : \A j \in Bad : k <= j
    <3>1. Bad \in SUBSET Nat
      BY <1>2
    <3> HIDE DEF Bad
    <3> QED
      BY <3>1, LeastNumber
  <2>2. k \in 0..n /\ ~PicksInv(h[k], ranked, k, gap, excluded) /\ k # 0
    BY <1>5, <2>1
  <2>3. k \in 1..n /\ k - 1 \in 0..n /\ ~(k <= k - 1)
    BY <1>2, <2>2
  <2>4. PicksInv(h[k - 1], ranked, k - 1, gap, excluded)
    BY <2>1, <2>3
  <2> QED
    BY <1>6, <2>2, <2>3, <2>4
<1>8. n \in 0..n
  BY <1>2
<1> QED
  BY <1>1, <1>3, <1>4, <1>7, <1>8, <1>a

LEMMA RosterBest ==
    ASSUME NEW x, RosterGiven(x)
    PROVE  RosterIsBest(x, RosterFill(x.active, x.candidates, x.floor, x.excluded))
<1>a. PICK cs, excluded : cs = x.candidates /\ excluded = x.excluded
  OBVIOUS
<1>b. PICK ranked, picks, gap : /\ ranked = RankedCandidates(cs) /\ gap = RosterGap(x.active, x.floor)
                                /\ picks = RosterFill(x.active, cs, x.floor, excluded)
  OBVIOUS
<1>1. List(cs) /\ x.active \in Int /\ x.floor \in Int /\ \A c \in Range(cs) : Scored(c)
  BY <1>a DEF RosterGiven, Scored
<1>2. Asking(ranked, cs)
  BY <1>1, <1>b, AskingIs
<1>3. gap \in Nat /\ picks \in Seq(Range(cs)) /\ PicksInv(picks, ranked, Len(ranked), gap, excluded)
  <2>1. PICK active, floor : active = x.active /\ floor = x.floor
    OBVIOUS
  <2>2. active \in Int /\ floor \in Int /\ gap = RosterGap(active, floor)
        /\ picks = RosterFill(active, cs, floor, excluded)
    BY <1>1, <1>b, <2>1
  <2> QED
    BY <1>2, <1>b, <2>2, PicksAre
<1>c. PICK n, N : n = Len(picks) /\ N = Len(ranked)
  OBVIOUS
<1>4. n \in Nat /\ DOMAIN picks = 1..n /\ N \in Nat /\ DOMAIN ranked = 1..N
  BY <1>2, <1>3, <1>c DEF Asking, ListOf
<1> DEFINE codes == {picks[i].code : i \in DOMAIN picks}
           left == {c \in Range(cs) : Provisional(c) /\ c.code \notin codes \union excluded}
<1>5. Cardinality(codes) = n
  <2>a. PICK f : f = [i \in 1..n |-> picks[i].code]
    OBVIOUS
  <2>1. IsFiniteSet(1..n) /\ Cardinality(1..n) = n
    <3>1. 1 \in Int /\ n \in Int
      BY <1>4
    <3>2. IsFiniteSet(1..n) /\ Cardinality(1..n) = IF 1 > n THEN 0 ELSE n - 1 + 1
      BY <3>1, FS_Interval
    <3> QED
      BY <1>4, <3>2
  <2>2. \A i, l \in 1..n : i # l => picks[i].code # picks[l].code
    BY <1>3, <1>4 DEF PicksInv, Apart
  <2>3. f \in Bijection(1..n, codes)
    <3>1. f \in [1..n -> codes] /\ \A y \in codes : \E i \in 1..n : f[i] = y
      BY <1>4, <2>a
    <3>2. \A i, l \in 1..n : f[i] = f[l] => i = l
      BY <2>2, <2>a
    <3> HIDE DEF codes
    <3> QED
      BY <3>1, <3>2 DEF Bijection, Injection, Surjection, IsInjective
  <2> HIDE DEF codes
  <2>4. Cardinality(1..n) = Cardinality(codes)
    BY <2>1, <2>3, FS_Bijection DEF ExistsBijection
  <2> QED
    BY <2>1, <2>4
<1>6. codes \cap excluded = {}
  BY <1>3 DEF PicksInv
<1>7. n <= gap
  BY <1>3, <1>c DEF PicksInv
<1>8. ASSUME n < gap, NEW c \in left
      PROVE  FALSE
  <2>1. c \in Range(cs) /\ Provisional(c) /\ c.code \notin codes /\ c.code \notin excluded
    BY <1>8
  <2>2. PICK k \in 1..N : ranked[k] = c
    BY <1>2, <1>4, <2>1 DEF Asking
  <2>3. c.code \in excluded \/ Has(picks, c.code)
    BY <1>3, <1>8, <1>c, <2>2 DEF PicksInv
  <2> QED
    BY <2>1, <2>3 DEF Has
<1>9. ASSUME NEW i \in DOMAIN picks, NEW c \in Range(cs), Provisional(c), c \in left \/ c.code = picks[i].code
      PROVE  ~RanksAbove(c, picks[i])
  <2> SUFFICES ASSUME RanksAbove(c, picks[i])
               PROVE  FALSE
    OBVIOUS
  <2>1. PICK m \in 1..N : ranked[m] = c
    BY <1>2, <1>4, <1>9 DEF Asking
  <2>2. PICK j \in 1..N : PickedAt(picks, ranked, i, j, excluded)
    BY <1>3, <1>c DEF PicksInv
  <2>3. picks[i] = ranked[j]
    BY <2>2 DEF PickedAt
  <2>4. m < j
    BY <1>2, <1>4, <2>1, <2>3 DEF Asking
  <2>5. m \in 1..(j - 1)
    BY <1>4, <2>4
  <2>6. c.code \in excluded \/ \E l \in DOMAIN picks : l # i /\ picks[l].code = c.code
    BY <2>1, <2>2, <2>5 DEF PickedAt
  <2>7. CASE c \in left
    BY <2>6, <2>7
  <2>8. CASE c.code = picks[i].code
    <3>1. c.code \notin excluded
      BY <1>3, <2>8 DEF PicksInv
    <3>2. Apart(picks)
      BY <1>3 DEF PicksInv
    <3> QED
      BY <2>6, <2>8, <3>1, <3>2 DEF Apart
  <2> QED
    BY <1>9, <2>7, <2>8
<1> HIDE DEF codes, left
<1>10. n < gap => left = {}
  BY <1>8
<1>11. \A i \in DOMAIN picks : \A c \in {c \in Range(cs) : Provisional(c)} :
         c \in left \/ c.code = picks[i].code => ~RanksAbove(c, picks[i])
  BY <1>9
<1>12. RosterIsBest(x, picks) <=>
         /\ Cardinality(codes) = Len(picks) /\ codes \cap excluded = {}
         /\ Len(picks) <= gap
         /\ Len(picks) < gap => left = {}
         /\ \A i \in DOMAIN picks : \A c \in {c \in Range(cs) : Provisional(c)} :
             c \in left \/ c.code = picks[i].code => ~RanksAbove(c, picks[i])
  BY <1>a, <1>b DEF RosterIsBest, codes, left
<1> QED
  BY <1>5, <1>6, <1>7, <1>10, <1>11, <1>12, <1>a, <1>b, <1>c

(* The gates and the reports compute what they are for: the drawdown a      *)
(* book is refused for is its deepest, borrowing only costs, a hedge is     *)
(* judged on the days both series have, a signal turned upside down is as   *)
(* significant, the roster takes the best candidates once each, the order   *)
(* of rows and of verdicts that do not count is not read, a regime knows no *)
(* bar after its trade, and nearness of candidates is mutual.               *)
THEOREM ReportsAreSound == Spec => []ReportsMatchReference
<1>1. Answers => ReportsMatchReference
  <2> SUFFICES ASSUME Answers
               PROVE  ReportsMatchReference
    OBVIOUS
  <2>1. ASSUME Asked("carry"), given.of.run # None
        PROVE  DrawdownIsDeepest(given.of, answer)
    <3>1. EvaluateCarryStands
      BY <2>1, StandsIf
    <3>2. PICK x \in Inputs.carry :
            given = [kind |-> "carry", of |-> x] /\ answer = EvaluateRun(x.run, x.growth, x.sharpe, 3, x.strict)
      BY <3>1, Zenon DEF EvaluateCarryStands
    <3>3. given.of = x
      BY <3>2
    <3>4. CarryGiven(x) /\ x.run # None
      BY <2>1, <3>3, InputsAssumption
    <3>5. DrawdownIsDeepest(x, answer)
      BY <3>2, <3>4, DrawdownDeepest
    <3> QED
      BY <3>3, <3>5
  <2>2. ASSUME Asked("preview")
        PROVE  BorrowOnlyCosts(given.of, answer)
    <3>1. PreviewCarryStands
      BY <2>2, StandsIf
    <3>2. PICK x \in Inputs.preview :
            given = [kind |-> "preview", of |-> x] /\ answer = PreviewEquity(PreviewReturns(x.legs, x.leverage, x.borrow))
      BY <3>1, Zenon DEF PreviewCarryStands
    <3>3. given.of = x
      BY <3>2
    <3>4. PreviewGiven(x)
      BY InputsAssumption
    <3>5. BorrowOnlyCosts(x, answer)
      BY <3>2, <3>4, BorrowCosts
    <3> QED
      BY <3>3, <3>5
  <2>3. ASSUME Asked("hedge")
        PROVE  HedgeIsPaired(given.of, answer)
    <3>1. EvaluateHedgeStands
      BY <2>3, StandsIf
    <3>2. PICK x \in Inputs.hedge :
            given = [kind |-> "hedge", of |-> x] /\ answer = HedgeAnswer(x)
      BY <3>1, Zenon DEF EvaluateHedgeStands
    <3>3. given.of = x
      BY <3>2
    <3>4. HedgeGiven(x)
      BY InputsAssumption
    <3>a. PICK a : a = answer
      OBVIOUS
    <3>5. a.both = Aligned(HedgeReturns(x.run), ByDay(ReturnsOf(x.bench)))
      BY <3>2, <3>a DEF HedgeAnswer
    <3>6. a.passed => HedgePasses(HedgeMetrics(x.run, x.growth, x.sharpe), MetricsOf(x.bench, 2000, 50),
                                  a.both, x.resampled)
      BY <3>2, <3>a DEF HedgeAnswer
    <3>7. HedgeIsPaired(x, a)
      BY <3>4, <3>5, <3>6, HedgePaired
    <3> QED
      BY <3>3, <3>7, <3>a
  <2>4. ASSUME Asked("admit")
        PROVE  CoefficientIsOdd(given.of, answer)
    <3>1. AdmitAlphaStands
      BY <2>4, StandsIf
    <3>2. PICK x \in Inputs.admit :
            given = [kind |-> "admit", of |-> x] /\ answer = AdmitAnswer(x)
      BY <3>1, Zenon DEF AdmitAlphaStands
    <3>3. given.of = x
      BY <3>2
    <3>4. AdmitGiven(x) /\ None \notin [num : Int, a : Int, b : Int]
      BY InputsAssumption
    <3>a. PICK a : a = answer
      OBVIOUS
    <3>5. a.ic = Coefficient(x.xs, x.ys, MinIcObs, x.t)
      BY <3>2, <3>a DEF AdmitAnswer
    <3>6. a.reasons = AdmissionReasons(a.ic, x.alpha, x.expected, x.marginal, x.correlation)
      BY <3>2, <3>a DEF AdmitAnswer
    <3>8. a.admitted => Admitted(a.reasons)
      BY <3>2, <3>a DEF AdmitAnswer
    <3>7. CoefficientIsOdd(x, a)
      BY <3>4, <3>5, <3>6, <3>8, CoefficientOdd
    <3> QED
      BY <3>3, <3>7, <3>a
  <2>5. ASSUME Asked("roster")
        PROVE  RosterIsBest(given.of, answer)
    <3>1. FillRosterStands
      BY <2>5, StandsIf
    <3>2. PICK x \in Inputs.roster :
            given = [kind |-> "roster", of |-> x] /\ answer = RosterFill(x.active, x.candidates, x.floor, x.excluded)
      BY <3>1, Zenon DEF FillRosterStands
    <3>3. given.of = x
      BY <3>2
    <3>4. RosterGiven(x)
      BY InputsAssumption
    <3>5. RosterIsBest(x, answer)
      BY <3>2, <3>4, RosterBest
    <3> QED
      BY <3>3, <3>5
  <2>6. ASSUME Asked("arms")
        PROVE  ArmsIgnoreOrder(given.of, answer)
    <3>1. CompareArmsStands
      BY <2>6, StandsIf
    <3>2. PICK x \in Inputs.arms :
            /\ given = [kind |-> "arms", of |-> x]
            /\ answer = [deltas |-> Deltas(x.rows),
                         verdict |-> DeltaVerdict(Cardinality(DOMAIN Deltas(x.rows)), x.minimum,
                                                  x.metric, x.ci, x.mean)]
      BY <3>1, Zenon DEF CompareArmsStands
    <3>3. given.of = x
      BY <3>2
    <3>4. ArmsGiven(x)
      BY InputsAssumption
    <3>5. answer.deltas = Deltas(x.rows)
      BY <3>2
    <3>6. ArmsIgnoreOrder(x, answer)
      BY <3>4, <3>5, ArmsAnyOrder DEF ArmsIgnoreOrder
    <3> QED
      BY <3>3, <3>6
  <2>7. ASSUME Asked("drift")
        PROVE  DriftIsRecent(given.of, answer)
    <3>1. WatchVerdictsStands
      BY <2>7, StandsIf
    <3>2. PICK x \in Inputs.drift :
            given = [kind |-> "drift", of |-> x] /\ answer = Drifts(x)
      BY <3>1, Zenon DEF WatchVerdictsStands
    <3>3. given.of = x
      BY <3>2
    <3>4. DriftGiven(x)
      BY InputsAssumption
    <3>5. DriftIsRecent(x, answer)
      BY <3>2, <3>4, DriftRecent
    <3> QED
      BY <3>3, <3>5
  <2>8. ASSUME Asked("regimes")
        PROVE  RegimesAreCausal(given.of, answer)
    <3>1. AnalyzeRegimesStands
      BY <2>8, StandsIf
    <3>2. PICK x \in Inputs.regimes :
            given = [kind |-> "regimes", of |-> x] /\ answer = RegimeReport(x.trades, x.bars, Lengths, MinTrades)
      BY <3>1, Zenon DEF AnalyzeRegimesStands
    <3>3. given.of = x
      BY <3>2
    <3>4. /\ RegimesGiven(x) /\ Lengths.sma \in Nat /\ Lengths.atr \in Nat /\ Lengths.rank \in Nat
          /\ Lengths.near \in Nat /\ Lengths.bars \in Nat /\ Lengths.sma < Lengths.bars
      BY InputsAssumption
    <3>5. RegimesAreCausal(x, answer)
      BY <3>2, <3>4, RegimesCausal
    <3> QED
      BY <3>3, <3>5
  <2>9. ClosenessIsMutual(given.of)
    BY ClosenessMutual
  <2> QED
    BY <2>1, <2>2, <2>3, <2>4, <2>5, <2>6, <2>7, <2>8, <2>9 DEF ReportsMatchReference
<1> QED
  BY <1>1, AnswersStand, PTL
=============================================================================
