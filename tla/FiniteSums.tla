----------------------------- MODULE FiniteSums -----------------------------
(* Induction stated of sets of numbers, for the library states it of an     *)
(* operator, and sums over finite sets, whatever the order of summation.    *)
EXTENDS Integers, FiniteSets, FiniteSetsExt, FiniteSetTheorems, WellFoundedInduction, TLAPS

-----------------------------------------------------------------------------
(* Induction.                                                               *)
\* A set of numbers that is not empty has a least one.
LEMMA LeastNumber ==
  ASSUME NEW S, S \subseteq Nat, S # {}
  PROVE  \E n \in S : \A m \in S : n <= m
<1>1. IsWellFoundedOn(OpToRel(<, Nat), Nat) BY NatLessThanWellFounded
<1>2. PICK n \in S : \A m \in S : ~(<<m, n>> \in OpToRel(<, Nat))
  BY <1>1, WFMin
<1>3. ASSUME NEW m \in S PROVE n <= m
  <2>1. <<m, n>> \notin OpToRel(<, Nat) BY <1>2
  <2>2. ~(m < n) BY <2>1 DEF OpToRel
  <2> QED BY <2>2
<1> QED BY <1>3

\* A set with zero, and with the next number of each it has, has all up to any.
LEMMA UpTo ==
  ASSUME NEW N \in Nat, NEW S, 0 \in S, \A n \in 0..N : n \in S /\ n < N => n + 1 \in S
  PROVE  0..N \subseteq S
<1> DEFINE T == {n \in 0..N : n \notin S}
<1>1. SUFFICES ASSUME T # {} PROVE FALSE OBVIOUS
<1>2. T \subseteq Nat OBVIOUS
<1> HIDE DEF T
<1>3. PICK n \in T : \A m \in T : n <= m BY <1>1, <1>2, LeastNumber
<1> USE DEF T
<1>4. n # 0 /\ n \in 1..N BY <1>3
<1>5. n - 1 \in 0..N /\ n - 1 \notin T BY <1>3, <1>4
<1>6. n - 1 \in S BY <1>5
<1>7. n \in S BY <1>4, <1>5, <1>6
<1> QED BY <1>3, <1>7

-----------------------------------------------------------------------------
(* Sums over finite sets, of the values of a function.                         *)
Some(s) == CHOOSE x \in s : TRUE
IsSum(g, h, S) == g = [s \in SUBSET S |-> IF s = {} THEN 0 ELSE h[Some(s)] + g[s \ {Some(s)}]]
SumOf(h, S) == (CHOOSE g : IsSum(g, h, S))[S]

\* The element that the recursion takes out.
LEMMA SomeRemoved ==
  ASSUME NEW S, IsFiniteSet(S), NEW s \in SUBSET S, s # {}
  PROVE  /\ Some(s) \in s /\ s \ {Some(s)} \in SUBSET S /\ IsFiniteSet(s)
         /\ IsFiniteSet(s \ {Some(s)})
         /\ Cardinality(s) \in Nat /\ Cardinality(s \ {Some(s)}) = Cardinality(s) - 1
         /\ Cardinality(s) <= Cardinality(S)
<1>1. Some(s) \in s BY DEF Some
<1>2. IsFiniteSet(s) /\ Cardinality(s) <= Cardinality(S) BY FS_Subset
<1> QED BY <1>1, <1>2, FS_RemoveElement, FS_CardinalityType

\* The recursion over subsets has a solution.
LEMMA SumExists == ASSUME NEW h, NEW S, IsFiniteSet(S) PROVE \E g : IsSum(g, h, S)
<1> DEFINE N == Cardinality(S)
           Small(m) == {s \in SUBSET S : Cardinality(s) <= m}
           Sums(g, m) == g = [s \in Small(m) |->
                                IF s = {} THEN 0 ELSE h[Some(s)] + g[s \ {Some(s)}]]
           M == {m \in 0..N : \E g : Sums(g, m)}
<1>1. N \in Nat BY FS_CardinalityType
<1>2. Small(N) = SUBSET S BY FS_Subset
<1>3. 0 \in M
  <2>1. \A s \in SUBSET S : Cardinality(s) <= 0 <=> s = {}
    BY FS_Subset, FS_EmptySet, FS_CardinalityType
  <2>2. Small(0) = {{}} BY <2>1
  <2> DEFINE g == [s \in Small(0) |-> 0]
  <2>3. g = [s \in Small(0) |-> IF s = {} THEN 0 ELSE h[Some(s)] + g[s \ {Some(s)}]]
    BY <2>2
  <2>4. Sums(g, 0) BY <2>3
  <2> HIDE DEF Sums, g
  <2> QED BY <1>1, <2>4
<1>4. ASSUME NEW m \in 0..N, m \in M, m < N PROVE m + 1 \in M
  <2>1. PICK g : Sums(g, m) BY <1>4
  <2> DEFINE k == [s \in Small(m + 1) |->
                     IF Cardinality(s) <= m THEN g[s] ELSE h[Some(s)] + g[s \ {Some(s)}]]
  <2>2. ASSUME NEW s \in Small(m + 1)
        PROVE  k[s] = IF s = {} THEN 0 ELSE h[Some(s)] + k[s \ {Some(s)}]
    <3>1. CASE s = {}
      <4>1. s \in Small(m) /\ Cardinality(s) <= m BY <1>1, <3>1, FS_EmptySet
      <4>2. g[s] = 0 BY <2>1, <3>1, <4>1
      <4> QED BY <3>1, <4>1, <4>2
    <3>2. CASE s # {}
      <4>1. /\ s \ {Some(s)} \in SUBSET S /\ Cardinality(s) \in Nat
            /\ Cardinality(s \ {Some(s)}) = Cardinality(s) - 1 /\ Cardinality(s) <= m + 1
        BY <3>2, SomeRemoved
      <4>2. s \ {Some(s)} \in Small(m) /\ s \ {Some(s)} \in Small(m + 1)
            /\ Cardinality(s \ {Some(s)}) <= m
        BY <1>4, <4>1
      <4>3. k[s \ {Some(s)}] = g[s \ {Some(s)}] BY <4>2
      <4>4. CASE Cardinality(s) <= m
        <5>1. s \in Small(m) BY <4>4
        <5>2. g[s] = h[Some(s)] + g[s \ {Some(s)}] BY <2>1, <3>2, <5>1
        <5>3. k[s] = g[s] BY <4>4
        <5> QED BY <3>2, <4>3, <5>2, <5>3
      <4>5. CASE ~(Cardinality(s) <= m)
        <5>1. k[s] = h[Some(s)] + g[s \ {Some(s)}] BY <4>5
        <5> QED BY <3>2, <4>3, <5>1
      <4> QED BY <4>4, <4>5
    <3> QED BY <3>1, <3>2
  <2>3. k = [s \in Small(m + 1) |-> k[s]] OBVIOUS
  <2> HIDE DEF k
  <2>4. Sums(k, m + 1) BY <2>2, <2>3, Zenon
  <2> HIDE DEF Sums
  <2> QED BY <1>1, <1>4, <2>4
<1> HIDE DEF M
<1>5. N \in M BY <1>1, <1>3, <1>4, UpTo
<1> QED BY <1>2, <1>5 DEF M, IsSum

\* A solution obeys the recursion at every subset.
LEMMA SumUnfolds ==
  ASSUME NEW g, NEW h, NEW S, IsFiniteSet(S), IsSum(g, h, S)
  PROVE  /\ g[{}] = 0
         /\ \A s \in SUBSET S : s # {} => g[s] = h[Some(s)] + g[s \ {Some(s)}]
<1>1. \A s \in SUBSET S : g[s] = IF s = {} THEN 0 ELSE h[Some(s)] + g[s \ {Some(s)}]
  BY DEF IsSum
<1>2. g[{}] = IF {} = {} THEN 0 ELSE h[Some({})] + g[{} \ {Some({})}] BY <1>1
<1> QED BY <1>1, <1>2

\* Whichever set they were computed for, sums over the same set are the same.
SameOn(h, j, T) == \A x \in T : h[x] = j[x]
IntsOn(h, T) == \A x \in T : h[x] \in Int

\* Two solutions agree wherever the functions they sum do.
LEMMA SumsAgree ==
  ASSUME NEW h, NEW j, NEW A, NEW B, NEW T, IsFiniteSet(A), IsFiniteSet(B), T \subseteq A, T \subseteq B,
         SameOn(h, j, T),
         NEW g, NEW k, IsSum(g, h, A), IsSum(k, j, B)
  PROVE  g[T] = k[T]
<1> DEFINE N == Cardinality(T)
           M == {m \in 0..N : \A s \in SUBSET T : Cardinality(s) = m => g[s] = k[s]}
<1>1. IsFiniteSet(T) /\ N \in Nat BY FS_Subset, FS_CardinalityType
<1>a. g[{}] = 0 /\ \A s \in SUBSET A : s # {} => g[s] = h[Some(s)] + g[s \ {Some(s)}]
  BY SumUnfolds
<1>b. k[{}] = 0 /\ \A s \in SUBSET B : s # {} => k[s] = j[Some(s)] + k[s \ {Some(s)}]
  BY SumUnfolds
<1>c. Cardinality({}) = 0 BY FS_EmptySet
<1>2. 0 \in M
  <2>1. \A s \in SUBSET T : Cardinality(s) = 0 => s = {} BY <1>1, FS_Subset, FS_EmptySet
  <2>2. g[{}] = k[{}] BY <1>a, <1>b
  <2>3. \A s \in SUBSET T : Cardinality(s) = 0 => g[s] = k[s] BY <2>1, <2>2
  <2> QED BY <1>1, <2>3
<1>3. ASSUME NEW m \in 0..N, m \in M, m < N PROVE m + 1 \in M
  <2>1. ASSUME NEW s \in SUBSET T, Cardinality(s) = m + 1 PROVE g[s] = k[s]
    <3>1. s # {}
      <4>1. ~(m + 1 = 0) BY <1>3
      <4> QED BY <1>c, <2>1, <4>1
    <3>2. Some(s) \in s /\ s \ {Some(s)} \in SUBSET T /\ Cardinality(s \ {Some(s)}) = m
      BY <1>1, <1>3, <2>1, <3>1, SomeRemoved
    <3>3. g[s \ {Some(s)}] = k[s \ {Some(s)}] BY <1>3, <3>2
    <3>4. h[Some(s)] = j[Some(s)] BY <3>2 DEF SameOn
    <3>5. s \in SUBSET A /\ s \in SUBSET B OBVIOUS
    <3>6. g[s] = h[Some(s)] + g[s \ {Some(s)}] BY <1>a, <3>1, <3>5
    <3>7. k[s] = j[Some(s)] + k[s \ {Some(s)}] BY <1>b, <3>1, <3>5
    <3> QED BY <3>3, <3>4, <3>6, <3>7
  <2> QED BY <1>1, <1>3, <2>1
<1> HIDE DEF M
<1>4. N \in M BY <1>1, <1>2, <1>3, UpTo
<1> QED BY <1>1, <1>4 DEF M

\* The sum obeys the recursion.
LEMMA SumRec ==
  ASSUME NEW h, NEW S, IsFiniteSet(S)
  PROVE  /\ SumOf(h, {}) = 0
         /\ S # {} => SumOf(h, S) = h[Some(S)] + SumOf(h, S \ {Some(S)})
<1>1. \A T : IsFiniteSet(T) => IsSum(CHOOSE g : IsSum(g, h, T), h, T) BY SumExists
<1>2. SumOf(h, {}) = 0
  BY <1>1, FS_EmptySet, SumUnfolds DEF SumOf
<1>3. ASSUME S # {} PROVE SumOf(h, S) = h[Some(S)] + SumOf(h, S \ {Some(S)})
  <2> DEFINE g == CHOOSE g : IsSum(g, h, S)
             T == S \ {Some(S)}
             k == CHOOSE k : IsSum(k, h, T)
  <2>1. IsFiniteSet(T) /\ T \subseteq S BY FS_Subset
  <2>2. IsSum(g, h, S) /\ IsSum(k, h, T) BY <1>1, <2>1
  <2>3. SumOf(h, S) = g[S] /\ SumOf(h, T) = k[T] BY DEF SumOf
  <2> HIDE DEF g, k
  <2>4. g[S] = h[Some(S)] + g[T] BY <1>3, <2>2, SumUnfolds
  <2>a. SameOn(h, h, T) /\ T \subseteq T BY DEF SameOn
  <2>b. IsFiniteSet(T) /\ T \subseteq S BY <2>1
  <2> HIDE DEF T
  <2>5. g[T] = k[T] BY <2>a, <2>b, <2>2, SumsAgree
  <2> QED BY <2>3, <2>4, <2>5 DEF T
<1> QED BY <1>2, <1>3

\* Only the values on the set matter.
LEMMA SumSame ==
  ASSUME NEW h, NEW j, NEW S, IsFiniteSet(S), SameOn(h, j, S)
  PROVE  SumOf(h, S) = SumOf(j, S)
<1> DEFINE g == CHOOSE g : IsSum(g, h, S)
           k == CHOOSE k : IsSum(k, j, S)
<1>1. IsSum(g, h, S) /\ IsSum(k, j, S) BY SumExists
<1>2. SumOf(h, S) = g[S] /\ SumOf(j, S) = k[S] BY DEF SumOf
<1> HIDE DEF g, k
<1>3. S \subseteq S OBVIOUS
<1>4. g[S] = k[S] BY <1>1, <1>3, SumsAgree
<1> QED BY <1>2, <1>4

\* An element more, whichever it is.
LEMMA SumAdd ==
  ASSUME NEW h, NEW S, IsFiniteSet(S), NEW e, e \notin S, IntsOn(h, S \cup {e})
  PROVE  /\ SumOf(h, S) \in Int
         /\ SumOf(h, S \cup {e}) = SumOf(h, S) + h[e]
<1> DEFINE U == S \cup {e}
           N == Cardinality(U)
           Adds(T) == /\ SumOf(h, T) \in Int
                      /\ \A x \in U \ T : SumOf(h, T \cup {x}) = SumOf(h, T) + h[x]
           M == {m \in 0..N : \A T \in SUBSET U : Cardinality(T) = m => Adds(T)}
<1>1. IsFiniteSet(U) /\ N \in Nat BY FS_AddElement, FS_CardinalityType
<1>2. \A x \in U : h[x] \in Int BY DEF IntsOn
<1>3. \A T \in SUBSET U : IsFiniteSet(T) /\ Cardinality(T) \in 0..N
  BY <1>1, FS_Subset, FS_CardinalityType
<1> HIDE DEF U, N
<1>4. ASSUME NEW T \in SUBSET U, NEW x \in U, x \notin T, SumOf(h, T) \in Int,
             \A V \in SUBSET U : Cardinality(V) < Cardinality(T) => Adds(V)
      PROVE  SumOf(h, T \cup {x}) = SumOf(h, T) + h[x]
  <2> DEFINE W == T \cup {x}
             c == Some(W)
  <2>1. W \in SUBSET U /\ W # {} /\ IsFiniteSet(W) BY <1>3, <1>4
  <2>2. SumOf(h, W) = h[c] + SumOf(h, W \ {c}) BY <2>1, SumRec
  <2>3. c \in W BY DEF Some
  <2> HIDE DEF c
  <2>4. CASE c = x
    <3>1. W \ {c} = T BY <1>4, <2>4
    <3>2. SumOf(h, W) = h[x] + SumOf(h, T) BY <2>2, <2>4, <3>1
    <3>3. h[x] \in Int BY <1>2, <1>4
    <3> HIDE DEF W
    <3>4. SumOf(h, W) = SumOf(h, T) + h[x] BY <1>4, <3>2, <3>3
    <3> QED BY <3>4 DEF W
  <2>5. CASE c # x
    <3> DEFINE V == T \ {c}
    <3>1. c \in T /\ V \in SUBSET U /\ x \notin V /\ c \notin V /\ V \cup {c} = T
          /\ W \ {c} = V \cup {x}
      BY <1>4, <2>3, <2>5
    <3>2. Cardinality(V) < Cardinality(T)
      BY <1>3, <3>1, FS_RemoveElement
    <3> HIDE DEF V
    <3>3. Adds(V) BY <1>4, <3>1, <3>2
    <3>4. SumOf(h, V \cup {x}) = SumOf(h, V) + h[x] BY <1>4, <3>1, <3>3
    <3>5. SumOf(h, T) = SumOf(h, V) + h[c]
      <4>1. c \in U \ V BY <3>1, <2>3, <2>1
      <4> QED BY <3>1, <3>3, <4>1
    <3>6. SumOf(h, V) \in Int /\ h[c] \in Int /\ h[x] \in Int BY <1>2, <1>4, <2>1, <2>3, <3>3
    <3>7. SumOf(h, W) = h[c] + SumOf(h, V \cup {x}) BY <2>2, <3>1
    <3> HIDE DEF W
    <3>8. SumOf(h, W) = SumOf(h, T) + h[x] BY <3>4, <3>5, <3>6, <3>7
    <3> QED BY <3>8 DEF W
  <2> QED BY <2>4, <2>5
<1>5. 0 \in M
  <2>1. ASSUME NEW T \in SUBSET U, Cardinality(T) = 0 PROVE Adds(T)
    <3>1. T = {} BY <1>3, <2>1, FS_EmptySet
    <3>2. SumOf(h, T) = 0 BY <3>1, FS_EmptySet, SumRec
    <3>3. \A V \in SUBSET U : ~(Cardinality(V) < Cardinality(T)) BY <1>3, <2>1
    <3> QED BY <1>4, <3>2, <3>3
  <2> QED BY <1>1, <2>1 DEF N
<1>6. ASSUME NEW m \in 0..N, \A n \in 0..m : n \in M, m < N PROVE m + 1 \in M
  <2>1. ASSUME NEW T \in SUBSET U, Cardinality(T) = m + 1 PROVE Adds(T)
    <3>1. T # {} /\ IsFiniteSet(T) BY <1>3, <2>1, FS_EmptySet
    <3>2. \A V \in SUBSET U : Cardinality(V) < Cardinality(T) => Adds(V)
      <4>1. ASSUME NEW V \in SUBSET U, Cardinality(V) < Cardinality(T) PROVE Adds(V)
        <5>1. Cardinality(V) \in 0..m BY <1>3, <1>6, <2>1, <4>1
        <5>2. Cardinality(V) \in M BY <1>6, <5>1
        <5> QED BY <5>2
      <4> QED BY <4>1
    <3>3. SumOf(h, T) \in Int
      <4> DEFINE c == Some(T)
                 V == T \ {c}
      <4>1. c \in T /\ V \in SUBSET U /\ Cardinality(V) = Cardinality(T) - 1
            /\ Cardinality(T) \in Nat
        BY <1>1, <3>1, SomeRemoved
      <4>a. Cardinality(V) < Cardinality(T) BY <4>1
      <4> HIDE DEF V, Adds
      <4>2. Adds(V) BY <3>2, <4>1, <4>a
      <4> USE DEF V, Adds
      <4>3. SumOf(h, T) = h[c] + SumOf(h, V) BY <3>1, SumRec
      <4> QED BY <1>2, <4>1, <4>2, <4>3
    <3> QED BY <1>4, <3>2, <3>3
  <2> QED BY <1>1, <1>6, <2>1
<1> DEFINE L == {m \in 0..N : \A n \in 0..m : n \in M}
<1>7. 0 \in L BY <1>1, <1>5
<1> HIDE DEF M
<1>8. ASSUME NEW m \in 0..N, m \in L, m < N PROVE m + 1 \in L
  <2>1. m + 1 \in M BY <1>6, <1>8
  <2>2. \A n \in 0..m + 1 : n \in 0..m \/ n = m + 1 BY <1>8
  <2> QED BY <1>1, <1>8, <2>1, <2>2
<1>9. N \in Nat BY <1>1 DEF N
<1> HIDE DEF L
<1>10. 0..N \subseteq L BY <1>7, <1>8, <1>9, UpTo
<1>11. S \in SUBSET U /\ e \in U \ S BY DEF U
<1>12. Cardinality(S) \in 0..N BY <1>3, <1>11
<1>13. Cardinality(S) \in M BY <1>9, <1>10, <1>12 DEF L
<1>14. Adds(S) BY <1>11, <1>13 DEF M
<1> QED BY <1>11, <1>14

\* A sum is what one element adds and the sum of the rest.
LEMMA SumParts ==
  ASSUME NEW h, NEW S, IsFiniteSet(S), IntsOn(h, S), NEW e
  PROVE  /\ SumOf(h, S \ {e}) \in Int /\ SumOf(h, S) \in Int
         /\ e \in S => SumOf(h, S) = SumOf(h, S \ {e}) + h[e]
         /\ e \notin S => SumOf(h, S \ {e}) = SumOf(h, S)
<1>0. ASSUME NEW T, IsFiniteSet(T), IntsOn(h, T) PROVE SumOf(h, T) \in Int
  <2>1. CASE T = {} BY <2>1, <1>0, SumRec
  <2>2. CASE T # {}
    <3>1. PICK x \in T : TRUE BY <2>2
    <3> DEFINE R == T \ {x}
    <3>2. IsFiniteSet(R) /\ x \notin R /\ R \cup {x} = T BY <1>0, <3>1, FS_Subset
    <3>3. IntsOn(h, R \cup {x}) BY <1>0, <3>2
    <3> HIDE DEF R
    <3>4. SumOf(h, R) \in Int /\ SumOf(h, R \cup {x}) = SumOf(h, R) + h[x]
      BY <3>2, <3>3, SumAdd
    <3>5. h[x] \in Int BY <1>0, <3>1 DEF IntsOn
    <3>6. SumOf(h, T) = SumOf(h, R) + h[x] BY <3>2, <3>4
    <3> QED BY <3>4, <3>5, <3>6
  <2> QED BY <2>1, <2>2
<1> DEFINE R == S \ {e}
<1>1. IsFiniteSet(R) /\ IntsOn(h, R) BY FS_Subset DEF IntsOn
<1>2. SumOf(h, S) \in Int /\ SumOf(h, R) \in Int BY <1>0, <1>1
<1>3. CASE e \in S
  <2>1. e \notin R /\ R \cup {e} = S BY <1>3
  <2>2. IntsOn(h, R \cup {e}) BY <2>1
  <2> HIDE DEF R
  <2>3. SumOf(h, R \cup {e}) = SumOf(h, R) + h[e] BY <1>1, <2>1, <2>2, SumAdd
  <2>4. SumOf(h, S) = SumOf(h, R) + h[e] BY <2>1, <2>3
  <2> QED BY <1>2, <1>3, <2>4 DEF R
<1>4. CASE e \notin S
  <2>1. R = S BY <1>4
  <2>2. SumOf(h, R) = SumOf(h, S) BY <2>1, Zenon
  <2> QED BY <1>2, <1>4, <2>2
<1> QED BY <1>3, <1>4
=============================================================================
