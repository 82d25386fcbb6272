------------------------------ MODULE FiniteLemmas ------------------------------
(***************************************************************************)
(* What the proofs about budgets, rankings and latest rows need of finite  *)
(* sets: least and greatest elements, and sums.  The models sum with       *)
(* MapThenSumSet, whose definition chooses a function that satisfies a     *)
(* recursive equation; that such a function exists and is unique, and what *)
(* sums of natural numbers have in common with those of arithmetic, is     *)
(* proved by least counterexamples: a set of subsets of a finite set that  *)
(* is not empty has a member none of whose proper subsets belongs to it.   *)
(***************************************************************************)
EXTENDS Integers, FiniteSetsExt, FiniteSetTheorems, WellFoundedInduction, TLAPS

\* A set of subsets of a finite set has a least one.
LEMMA LeastSubset ==
  ASSUME NEW S, IsFiniteSet(S), NEW B \in SUBSET (SUBSET S), B # {}
  PROVE  \E T \in B : \A U \in SUBSET T : U # T => U \notin B
<1>1. IsWellFoundedOn(StrictSubsetOrdering(S), SUBSET S)
  BY FS_StrictSubsetOrderingWellFounded, FS_FiniteSubsetsOfFinite
<1>2. PICK T \in B : \A U \in B : ~ (<<U, T>> \in StrictSubsetOrdering(S))
  BY <1>1, WFMin
<1>3. QED
  BY <1>2 DEF StrictSubsetOrdering

-------------------------------------------------------------------------------
(* Least and greatest elements *)

Orders(R, S) ==
  /\ \A x, y \in S : x # y => <<x, y>> \in R \/ <<y, x>> \in R
  /\ \A x, y, z \in S : <<x, y>> \in R /\ <<y, z>> \in R => <<x, z>> \in R

\* A total and transitive relation has a least element in every finite set.
LEMMA LeastElement ==
  ASSUME NEW S, IsFiniteSet(S), S # {}, NEW R, Orders(R, S)
  PROVE  \E m \in S : \A x \in S \ {m} : <<m, x>> \in R
<1> USE DEF Orders
<1> DEFINE B == {T \in SUBSET S : T # {} /\ ~ \E m \in T : \A x \in T \ {m} : <<m, x>> \in R}
<1>1. SUFFICES ASSUME B # {} PROVE FALSE  OBVIOUS
<1>2. PICK T \in B : \A U \in SUBSET T : U # T => U \notin B
  <2> HIDE DEF B
  <2>1. B \in SUBSET (SUBSET S)  BY DEF B
  <2>2. QED  BY <1>1, <2>1, LeastSubset
<1>3. T \in SUBSET S /\ T # {} /\ ~ \E m \in T : \A x \in T \ {m} : <<m, x>> \in R  OBVIOUS
<1>4. PICK a \in T : TRUE  BY <1>3
<1>5. T \ {a} \in SUBSET T /\ T \ {a} # T /\ T \ {a} \in SUBSET S  BY <1>3, <1>4
<1>6. T \ {a} \notin B  BY <1>2, <1>5
<1>7. T \ {a} # {}  BY <1>3, <1>4
<1>8. PICK m \in T \ {a} : \A x \in (T \ {a}) \ {m} : <<m, x>> \in R  BY <1>5, <1>6, <1>7
<1> HIDE DEF B
<1>9. CASE <<m, a>> \in R
  <2>1. \A x \in T \ {m} : <<m, x>> \in R  BY <1>8, <1>9
  <2>2. QED  BY <1>3, <1>8, <2>1
<1>10. CASE <<a, m>> \in R
  <2>1. \A x \in T \ {a} : <<a, x>> \in R  BY <1>3, <1>4, <1>8, <1>10
  <2>2. QED  BY <1>3, <1>4, <2>1
<1>11. QED  BY <1>3, <1>4, <1>8, <1>9, <1>10

LEMMA MaxFacts ==
  ASSUME NEW S, IsFiniteSet(S), S # {}, S \subseteq Int
  PROVE  Max(S) \in S /\ \A x \in S : Max(S) >= x
<1> DEFINE R == {p \in S \X S : p[1] >= p[2]}
<1>1. \A x, y \in S : <<x, y>> \in R <=> x >= y  OBVIOUS
<1> HIDE DEF R
<1>2. \E m \in S : \A x \in S \ {m} : <<m, x>> \in R
  <2>1. \A x, y \in S : x # y => <<x, y>> \in R \/ <<y, x>> \in R  BY <1>1
  <2>2. \A x, y, z \in S : <<x, y>> \in R /\ <<y, z>> \in R => <<x, z>> \in R  BY <1>1
  <2>3. Orders(R, S)  BY <2>1, <2>2 DEF Orders
  <2>4. QED  BY <2>3, LeastElement
<1>3. \E m \in S : \A x \in S : m >= x
  <2>1. PICK m \in S : \A x \in S \ {m} : <<m, x>> \in R  BY <1>2
  <2>2. ASSUME NEW x \in S PROVE m >= x
    <3>1. CASE x = m  BY <3>1
    <3>2. CASE x # m
      <4>1. <<m, x>> \in R  BY <2>1, <3>2
      <4>2. QED  BY <1>1, <4>1
    <3>3. QED  BY <3>1, <3>2
  <2>3. QED  BY <2>2
<1>4. QED  BY <1>3 DEF Max

LEMMA MinFacts ==
  ASSUME NEW S, IsFiniteSet(S), S # {}, S \subseteq Int
  PROVE  Min(S) \in S /\ \A x \in S : Min(S) <= x
<1> DEFINE R == {p \in S \X S : p[1] <= p[2]}
<1>1. \A x, y \in S : <<x, y>> \in R <=> x <= y  OBVIOUS
<1> HIDE DEF R
<1>2. \E m \in S : \A x \in S \ {m} : <<m, x>> \in R
  <2>1. \A x, y \in S : x # y => <<x, y>> \in R \/ <<y, x>> \in R  BY <1>1
  <2>2. \A x, y, z \in S : <<x, y>> \in R /\ <<y, z>> \in R => <<x, z>> \in R  BY <1>1
  <2>3. Orders(R, S)  BY <2>1, <2>2 DEF Orders
  <2>4. QED  BY <2>3, LeastElement
<1>3. \E m \in S : \A x \in S : m <= x
  <2>1. PICK m \in S : \A x \in S \ {m} : <<m, x>> \in R  BY <1>2
  <2>2. ASSUME NEW x \in S PROVE m <= x
    <3>1. CASE x = m  BY <3>1
    <3>2. CASE x # m
      <4>1. <<m, x>> \in R  BY <2>1, <3>2
      <4>2. QED  BY <1>1, <4>1
    <3>3. QED  BY <3>1, <3>2
  <2>3. QED  BY <2>2
<1>4. QED  BY <1>3 DEF Min

-------------------------------------------------------------------------------
(* Sums: the function the definition chooses exists and is unique *)

SumOver(f, S) == MapThenSumSet(LAMBDA x : f[x], S)

Pick(s) == CHOOSE x \in s : TRUE
Unfolds(it, f, S) ==
  it = [s \in SUBSET S |-> IF s = {} THEN 0 ELSE f[Pick(s)] + it[s \ {Pick(s)}]]

LEMMA PickIn ==
  ASSUME NEW s, s # {}
  PROVE  /\ Pick(s) \in s
         /\ s \ {Pick(s)} \in SUBSET s /\ s \ {Pick(s)} # s
<1>1. PICK x \in s : TRUE  OBVIOUS
<1>2. Pick(s) \in s  BY <1>1 DEF Pick
<1>3. QED  BY <1>2

LEMMA UnfoldsAt ==
  ASSUME NEW f, NEW S, NEW g, Unfolds(g, f, S), NEW T \in SUBSET S
  PROVE  /\ T = {} => g[T] = 0
         /\ T # {} => g[T] = f[Pick(T)] + g[T \ {Pick(T)}]
BY DEF Unfolds

\* The sum of a part does not depend on the whole it is computed in.
LEMMA UnfoldsUnique ==
  ASSUME NEW f, NEW S, IsFiniteSet(S), NEW R \in SUBSET S,
         NEW g, Unfolds(g, f, S), NEW h, Unfolds(h, f, R)
  PROVE  \A T \in SUBSET R : g[T] = h[T]
<1> DEFINE B == {T \in SUBSET R : g[T] # h[T]}
<1>1. SUFFICES ASSUME B # {} PROVE FALSE  OBVIOUS
<1>2. IsFiniteSet(R)  BY FS_Subset
<1>3. PICK T \in B : \A U \in SUBSET T : U # T => U \notin B
  <2> HIDE DEF B
  <2>1. B \in SUBSET (SUBSET R)  BY DEF B
  <2>2. QED  BY <1>1, <1>2, <2>1, LeastSubset
<1>4. T \in SUBSET R /\ T \in SUBSET S /\ g[T] # h[T]  OBVIOUS
<1> HIDE DEF B
<1>5. T # {}
  <2>1. T = {} => g[T] = 0  BY <1>4, UnfoldsAt
  <2>2. T = {} => h[T] = 0  BY <1>4, UnfoldsAt
  <2>3. QED  BY <1>4, <2>1, <2>2
<1>6. T \ {Pick(T)} \in SUBSET R /\ g[T \ {Pick(T)}] = h[T \ {Pick(T)}]
  BY <1>3, <1>4, <1>5, PickIn DEF B
<1>7. QED  BY <1>4, <1>5, <1>6, UnfoldsAt

LEMMA UnfoldsExists ==
  ASSUME NEW f, NEW S, IsFiniteSet(S)
  PROVE  \E g : Unfolds(g, f, S)
<1> DEFINE B == {T \in SUBSET S : ~ \E g : Unfolds(g, f, T)}
<1>1. SUFFICES ASSUME B # {} PROVE FALSE  OBVIOUS
<1>3. PICK T \in B : \A U \in SUBSET T : U # T => U \notin B
  <2> HIDE DEF B
  <2>1. B \in SUBSET (SUBSET S)  BY DEF B
  <2>2. QED  BY <1>1, <2>1, LeastSubset
<1>4. T \in SUBSET S /\ ~ \E g : Unfolds(g, f, T)  OBVIOUS
<1>5. \A U \in SUBSET T : U # T => IsFiniteSet(U) /\ \E g : Unfolds(g, f, U)
  BY <1>3, <1>4, FS_Subset
<1> HIDE DEF B
<1> DEFINE F(U) == CHOOSE g : Unfolds(g, f, U)
           w == [s \in SUBSET T |-> IF s = {} THEN 0 ELSE f[Pick(s)] + F(s \ {Pick(s)})[s \ {Pick(s)}]]
<1>6. \A U \in SUBSET T : U # T => Unfolds(F(U), f, U)  BY <1>5
<1>7. ASSUME NEW s \in SUBSET T, s # {}
      PROVE  w[s \ {Pick(s)}] = F(s \ {Pick(s)})[s \ {Pick(s)}]
  <2> DEFINE U == s \ {Pick(s)}
  <2>1. U \in SUBSET T /\ U # T  BY <1>7, PickIn
  <2>2. Unfolds(F(U), f, U) /\ U \in SUBSET U  BY <2>1, <1>6
  <2>3. CASE U = {}
    <3>1. F(U)[U] = 0
      <4> HIDE DEF U, F
      <4>1. QED  BY <2>2, <2>3, UnfoldsAt
    <3>2. w[U] = 0
      <4> HIDE DEF U, F
      <4>1. QED  BY <2>1, <2>3
    <3>3. QED  BY <3>1, <3>2
  <2>4. CASE U # {}
    <3> DEFINE V == U \ {Pick(U)}
    <3>1. V \in SUBSET U /\ V # U /\ V \in SUBSET T /\ V # T  BY <2>1, <2>4, PickIn
    <3>2. Unfolds(F(V), f, V) /\ V \in SUBSET V  BY <3>1, <1>6
    <3>3. IsFiniteSet(U)  BY <2>1, <1>5
    <3>4. F(U)[V] = F(V)[V]
      <4> HIDE DEF U, V, F
      <4>1. QED  BY <2>2, <3>1, <3>2, <3>3, UnfoldsUnique
    <3>5. F(U)[U] = f[Pick(U)] + F(U)[V]
      <4> HIDE DEF U, F
      <4>1. QED  BY <2>2, <2>4, UnfoldsAt
    <3>6. w[U] = f[Pick(U)] + F(V)[V]
      <4> HIDE DEF U, F
      <4>1. QED  BY <2>1, <2>4
    <3>7. QED  BY <3>4, <3>5, <3>6
  <2>5. QED  BY <2>3, <2>4
<1>8. w = [s \in SUBSET T |-> IF s = {} THEN 0 ELSE f[Pick(s)] + w[s \ {Pick(s)}]]
  <2>1. \A s \in SUBSET T : w[s] = IF s = {} THEN 0 ELSE f[Pick(s)] + w[s \ {Pick(s)}]
    <3>1. SUFFICES ASSUME NEW s \in SUBSET T PROVE w[s] = IF s = {} THEN 0 ELSE f[Pick(s)] + w[s \ {Pick(s)}]
      OBVIOUS
    <3>2. w[s] = IF s = {} THEN 0 ELSE f[Pick(s)] + F(s \ {Pick(s)})[s \ {Pick(s)}]
      <4> HIDE DEF F
      <4>1. QED  OBVIOUS
    <3> HIDE DEF w, F
    <3>3. QED  BY <1>7, <3>2
  <2>2. w = [s \in SUBSET T |-> w[s]]
    <3> HIDE DEF F
    <3>1. QED  OBVIOUS
  <2> HIDE DEF w, F
  <2>3. QED  BY <2>1, <2>2
<1>9. Unfolds(w, f, T)  BY <1>8 DEF Unfolds
<1>10. QED  BY <1>4, <1>9

LEMMA SumIs ==
  ASSUME NEW f, NEW S, IsFiniteSet(S), NEW g, Unfolds(g, f, S)
  PROVE  g[S] = SumOver(f, S)
<1> DEFINE h == CHOOSE it : Unfolds(it, f, S)
<1>1. SumOver(f, S) = h[S]
  BY DEF SumOver, MapThenSumSet, MapThenFoldSet, Unfolds, Pick
<1>2. Unfolds(h, f, S)  OBVIOUS
<1> HIDE DEF h
<1>3. S \in SUBSET S  OBVIOUS
<1>4. g[S] = h[S]  BY <1>2, <1>3, UnfoldsUnique
<1>5. QED  BY <1>1, <1>4

LEMMA SumEmpty ==
  ASSUME NEW f
  PROVE  SumOver(f, {}) = 0
<1>1. IsFiniteSet({})  BY FS_EmptySet
<1>2. PICK g : Unfolds(g, f, {})  BY <1>1, UnfoldsExists
<1>3. g[{}] = 0  BY <1>2, UnfoldsAt
<1>4. QED  BY <1>1, <1>2, <1>3, SumIs

LEMMA SumPick ==
  ASSUME NEW f, NEW S, IsFiniteSet(S), S # {}
  PROVE  SumOver(f, S) = f[Pick(S)] + SumOver(f, S \ {Pick(S)})
<1> DEFINE R == S \ {Pick(S)}
<1>1. R \in SUBSET S /\ R \in SUBSET R  BY PickIn
<1>2. IsFiniteSet(R)  BY <1>1, FS_Subset
<1>3. PICK g : Unfolds(g, f, S)  BY UnfoldsExists
<1>4. PICK h : Unfolds(h, f, R)  BY <1>2, UnfoldsExists
<1> HIDE DEF R
<1>5. g[R] = h[R]  BY <1>1, <1>3, <1>4, UnfoldsUnique
<1>6. h[R] = SumOver(f, R)  BY <1>2, <1>4, SumIs
<1>7. g[S] = f[Pick(S)] + g[R]  BY <1>3, UnfoldsAt DEF R
<1>8. g[S] = SumOver(f, S)  BY <1>3, SumIs
<1>9. QED  BY <1>5, <1>6, <1>7, <1>8 DEF R

-------------------------------------------------------------------------------
(* Sums of natural numbers *)

LEMMA SumNat ==
  ASSUME NEW f, NEW S, IsFiniteSet(S), \A x \in S : f[x] \in Nat
  PROVE  SumOver(f, S) \in Nat
<1> DEFINE B == {T \in SUBSET S : SumOver(f, T) \notin Nat}
<1>1. SUFFICES ASSUME B # {} PROVE FALSE  OBVIOUS
<1>2. PICK T \in B : \A U \in SUBSET T : U # T => U \notin B
  <2> HIDE DEF B
  <2>1. B \in SUBSET (SUBSET S)  BY DEF B
  <2>2. QED  BY <1>1, <2>1, LeastSubset
<1>3. T \in SUBSET S /\ SumOver(f, T) \notin Nat  OBVIOUS
<1>4. T # {}  BY <1>3, SumEmpty
<1>5. IsFiniteSet(T)  BY <1>3, FS_Subset
<1>6. SumOver(f, T \ {Pick(T)}) \in Nat  BY <1>2, <1>3, <1>4, PickIn
<1>7. f[Pick(T)] \in Nat  BY <1>3, <1>4, PickIn
<1>8. QED  BY <1>3, <1>4, <1>5, <1>6, <1>7, SumPick

\* Which member is taken out does not matter.
LEMMA SumRemove ==
  ASSUME NEW f, NEW S, IsFiniteSet(S), \A x \in S : f[x] \in Nat, NEW x \in S
  PROVE  SumOver(f, S) = f[x] + SumOver(f, S \ {x})
<1> DEFINE B == {T \in SUBSET S : \E y \in T : SumOver(f, T) # f[y] + SumOver(f, T \ {y})}
<1>1. SUFFICES ASSUME B # {} PROVE FALSE  OBVIOUS
<1>2. PICK T \in B : \A U \in SUBSET T : U # T => U \notin B
  <2> HIDE DEF B
  <2>1. B \in SUBSET (SUBSET S)  BY DEF B
  <2>2. QED  BY <1>1, <2>1, LeastSubset
<1>3. T \in SUBSET S  OBVIOUS
<1>4. PICK y \in T : SumOver(f, T) # f[y] + SumOver(f, T \ {y})  OBVIOUS
<1> DEFINE c == Pick(T)
<1>5. c \in T  BY <1>4, PickIn
<1> HIDE DEF c
<1>6. \A U \in SUBSET T : IsFiniteSet(U) /\ \A z \in U : f[z] \in Nat  BY <1>3, FS_Subset
<1>7. SumOver(f, T) = f[c] + SumOver(f, T \ {c})  BY <1>4, <1>6, SumPick DEF c
<1>8. y # c  BY <1>4, <1>7
<1> DEFINE V == (T \ {c}) \ {y}
<1>9. V = (T \ {y}) \ {c}  OBVIOUS
<1>10. SumOver(f, T \ {c}) = f[y] + SumOver(f, V)
  <2>1. T \ {c} \in SUBSET T /\ T \ {c} # T /\ y \in T \ {c}  BY <1>5, <1>8
  <2>2. T \ {c} \notin B  BY <1>2, <2>1
  <2>3. QED  BY <1>3, <2>1, <2>2
<1>11. SumOver(f, T \ {y}) = f[c] + SumOver(f, V)
  <2>1. T \ {y} \in SUBSET T /\ T \ {y} # T /\ c \in T \ {y}  BY <1>5, <1>8
  <2>2. T \ {y} \notin B  BY <1>2, <2>1
  <2>3. SumOver(f, T \ {y}) = f[c] + SumOver(f, (T \ {y}) \ {c})  BY <1>3, <2>1, <2>2
  <2>4. QED  BY <2>3, <1>9
<1>12. SumOver(f, V) \in Nat
  <2>1. V \in SUBSET T  OBVIOUS
  <2> HIDE DEF V
  <2>2. QED  BY <1>6, <2>1, SumNat
<1>13. f[c] \in Nat /\ f[y] \in Nat  BY <1>5, <1>6
<1> HIDE DEF V, B
<1>14. QED  BY <1>4, <1>7, <1>10, <1>11, <1>12, <1>13

LEMMA SumAdd ==
  ASSUME NEW f, NEW S, IsFiniteSet(S), \A y \in S : f[y] \in Nat, NEW x, x \notin S, f[x] \in Nat
  PROVE  SumOver(f, S \cup {x}) = f[x] + SumOver(f, S)
<1>1. IsFiniteSet(S \cup {x})  BY FS_AddElement
<1>2. (S \cup {x}) \ {x} = S  OBVIOUS
<1>3. SumOver(f, S \cup {x}) = f[x] + SumOver(f, (S \cup {x}) \ {x})  BY <1>1, SumRemove
<1>4. QED  BY <1>2, <1>3

\* A sum grows with its terms.
LEMMA SumMono ==
  ASSUME NEW f, NEW g, NEW S, IsFiniteSet(S),
         \A x \in S : f[x] \in Nat /\ g[x] \in Nat /\ f[x] <= g[x]
  PROVE  SumOver(f, S) <= SumOver(g, S)
<1> DEFINE B == {T \in SUBSET S : ~ SumOver(f, T) <= SumOver(g, T)}
<1>1. SUFFICES ASSUME B # {} PROVE FALSE  OBVIOUS
<1>2. PICK T \in B : \A U \in SUBSET T : U # T => U \notin B
  <2> HIDE DEF B
  <2>1. B \in SUBSET (SUBSET S)  BY DEF B
  <2>2. QED  BY <1>1, <2>1, LeastSubset
<1>3. T \in SUBSET S /\ ~ SumOver(f, T) <= SumOver(g, T)  OBVIOUS
<1>4. T # {}
  <2>1. SumOver(f, {}) = 0 /\ SumOver(g, {}) = 0  BY SumEmpty
  <2> HIDE DEF B
  <2>2. QED  BY <1>3, <2>1
<1> DEFINE c == Pick(T)  R == T \ {Pick(T)}
<1>5. c \in T /\ R \in SUBSET T /\ R # T  BY <1>4, PickIn
<1>6. SumOver(f, R) <= SumOver(g, R)
  <2>1. R \in SUBSET S /\ R \notin B  BY <1>2, <1>3, <1>5
  <2>2. QED  BY <2>1
<1>7. IsFiniteSet(T) /\ IsFiniteSet(R)  BY <1>3, <1>5, FS_Subset
<1>8. SumOver(f, T) = f[c] + SumOver(f, R) /\ SumOver(g, T) = g[c] + SumOver(g, R)
  BY <1>4, <1>7, SumPick
<1> HIDE DEF B, c, R
<1>9. SumOver(f, R) \in Nat /\ SumOver(g, R) \in Nat  BY <1>3, <1>5, <1>7, SumNat
<1>10. f[c] \in Nat /\ g[c] \in Nat /\ f[c] <= g[c]  BY <1>3, <1>5
<1>11. QED  BY <1>3, <1>6, <1>8, <1>9, <1>10

\* A sum depends on the terms it adds only.
LEMMA SumAgree ==
  ASSUME NEW f, NEW g, NEW S, IsFiniteSet(S), \A x \in S : f[x] \in Nat /\ f[x] = g[x]
  PROVE  SumOver(f, S) = SumOver(g, S)
<1>1. SumOver(f, S) <= SumOver(g, S) /\ SumOver(g, S) <= SumOver(f, S)  BY SumMono
<1>2. SumOver(f, S) \in Nat /\ SumOver(g, S) \in Nat  BY SumNat
<1>3. QED  BY <1>1, <1>2

\* One term changes.
LEMMA SumChange ==
  ASSUME NEW f, NEW g, NEW S, IsFiniteSet(S), NEW x \in S,
         \A y \in S : f[y] \in Nat /\ g[y] \in Nat, \A y \in S \ {x} : f[y] = g[y]
  PROVE  SumOver(g, S) + f[x] = SumOver(f, S) + g[x]
<1> DEFINE R == S \ {x}
<1>1. IsFiniteSet(R)  BY FS_Subset
<1>2. SumOver(f, S) = f[x] + SumOver(f, R) /\ SumOver(g, S) = g[x] + SumOver(g, R)  BY SumRemove
<1>3. SumOver(f, R) = SumOver(g, R)  BY <1>1, SumAgree
<1>4. SumOver(f, R) \in Nat  BY <1>1, SumNat
<1>5. QED  BY <1>2, <1>3, <1>4

\* Every term is part of the sum.
LEMMA SumTerm ==
  ASSUME NEW f, NEW S, IsFiniteSet(S), NEW x \in S, \A y \in S : f[y] \in Nat
  PROVE  f[x] <= SumOver(f, S)
<1>1. SumOver(f, S) = f[x] + SumOver(f, S \ {x})  BY SumRemove
<1>2. IsFiniteSet(S \ {x})  BY FS_Subset
<1>3. SumOver(f, S \ {x}) \in Nat  BY <1>2, SumNat
<1>4. QED  BY <1>1, <1>3

===============================================================================
