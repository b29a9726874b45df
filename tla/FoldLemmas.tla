------------------------------ MODULE FoldLemmas ------------------------------
(***************************************************************************)
(* Facts about folds for the proofs of GroupReads and RecordBudget.  The   *)
(* induction theorems of the library take a predicate as a parameter,      *)
(* which SMT and Zenon cannot instantiate; here the predicate is a set of  *)
(* numbers and the step of a fold is a function, so that first-order       *)
(* provers can use them.  Both rest on WFMin: every non-empty set of       *)
(* natural numbers has a least element.                                    *)
(***************************************************************************)
EXTENDS Naturals, FiniteSets, FiniteSetsExt, FiniteSetTheorems, WellFoundedInduction, TLAPS

(* A set of numbers that has 0 and with n also n + 1 has all of them.      *)
THEOREM SetInduction ==
  ASSUME NEW S \in SUBSET Nat, 0 \in S, \A n \in S : n + 1 \in S
  PROVE  \A n \in Nat : n \in S
<1> DEFINE T == Nat \ S
           R == OpToRel(<, Nat)
<1> SUFFICES ASSUME T # {} PROVE FALSE
  OBVIOUS
<1>1. \E x \in T : \A y \in T : ~ (<<y, x>> \in R)
  <2>1. IsWellFoundedOn(R, Nat)
    BY NatLessThanWellFounded
  <2>2. T \subseteq Nat
    OBVIOUS
  <2> HIDE DEF R, T
  <2> QED BY <2>1, <2>2, WFMin
<1>2. PICK x \in T : \A y \in T : ~ (<<y, x>> \in R)
  BY <1>1
<1>3. x - 1 \in T /\ x - 1 < x
  BY x \in Nat, x # 0
<1>4. <<x - 1, x>> \in R
  BY <1>3 DEF OpToRel
<1> QED BY <1>2, <1>3, <1>4

(* The same up to a bound.                                                 *)
LEMMA IntervalInduction ==
  ASSUME NEW S, NEW m \in Nat, 0 \in S, \A n \in 0..m : n \in S /\ n < m => n + 1 \in S
  PROVE  \A n \in 0..m : n \in S
<1> DEFINE T == {n \in Nat : n <= m => n \in S}
<1>1. T \in SUBSET Nat /\ 0 \in T
  OBVIOUS
<1>2. ASSUME NEW n \in T PROVE n + 1 \in T
  <2>1. CASE n + 1 <= m
    BY <2>1
  <2> QED BY <2>1
<1> HIDE DEF T
<1>3. \A n \in Nat : n \in T
  BY <1>1, <1>2, SetInduction
<1> QED BY <1>3 DEF T

(* The largest number of a set between 1 and n.                            *)
LEMMA MaxInSet ==
  ASSUME NEW n \in Nat, NEW T \in SUBSET (1..n), T # {}
  PROVE  Max(T) \in T /\ \A x \in T : x <= Max(T)
<1>1. \E y \in T : \A x \in T : x <= y
  <2> DEFINE B == {k \in Nat : \A x \in T : x <= k => \E y \in T : \A z \in T : z <= k => z <= y}
  <2>1. B \in SUBSET Nat /\ 0 \in B
    OBVIOUS
  <2>2. ASSUME NEW k \in B PROVE k + 1 \in B
    <3> SUFFICES ASSUME NEW x \in T, x <= k + 1
                 PROVE  \E y \in T : \A z \in T : z <= k + 1 => z <= y
      OBVIOUS
    <3>1. CASE k + 1 \in T
      BY <3>1
    <3>2. CASE k + 1 \notin T
      <4>1. \A z \in T : z <= k + 1 => z <= k
        BY <3>2
      <4> QED BY <4>1
    <3> QED BY <3>1, <3>2
  <2> HIDE DEF B
  <2>3. n \in B
    BY <2>1, <2>2, SetInduction
  <2>4. PICK x \in T : TRUE
    OBVIOUS
  <2>5. x <= n /\ \A z \in T : z <= n
    BY <2>4
  <2> QED BY <2>3, <2>5 DEF B
<1> QED BY <1>1 DEF Max

(* A fold over a finite set exists: the function that MapThenFoldSet       *)
(* recurses through.  h[<<x, v>>] is the step from v with element x, and   *)
(* c[t] the element that is taken last of t.                               *)
Foldable(S, X, b, h, c) ==
  /\ IsFiniteSet(S) /\ b \in X
  /\ \A x \in S, v \in X : h[<<x, v>>] \in X
  /\ \A t \in SUBSET S : t # {} => c[t] \in t

Unfolds(f, S, b, h, c) ==
  \A t \in SUBSET S : f[t] = IF t = {} THEN b ELSE h[<<c[t], f[t \ {c[t]}]>>]

(* A fold over a finite set exists: some function on its subsets takes b   *)
(* for none, and h of the element that c chooses and the value for the     *)
(* others.                                                                 *)
THEOREM FoldExists ==
  ASSUME NEW S, NEW X, NEW b, NEW h, NEW c, Foldable(S, X, b, h, c)
  PROVE  \E f \in [SUBSET S -> X] : Unfolds(f, S, b, h, c)
<1> USE DEF Foldable, Unfolds
<1> DEFINE Step(f, t) == IF t = {} THEN b ELSE h[<<c[t], f[t \ {c[t]}]>>]
           Good == {n \in Nat : \E f \in [SUBSET S -> X] :
                      \A t \in SUBSET S : Cardinality(t) <= n => f[t] = Step(f, t)}
<1>1. \A t \in SUBSET S : IsFiniteSet(t) /\ Cardinality(t) \in Nat
  BY FS_Subset, FS_CardinalityType
<1>2. \A t \in SUBSET S : t # {} => /\ t \ {c[t]} \in SUBSET S
                                    /\ Cardinality(t \ {c[t]}) = Cardinality(t) - 1
  BY <1>1, FS_RemoveElement
<1>3. \A f \in [SUBSET S -> X], t \in SUBSET S : Step(f, t) \in X
  OBVIOUS
<1>4. 0 \in Good
  <2> DEFINE f == [t \in SUBSET S |-> b]
  <2>1. f \in [SUBSET S -> X]
    OBVIOUS
  <2>2. \A t \in SUBSET S : Cardinality(t) <= 0 => f[t] = Step(f, t)
    BY <1>1, FS_EmptySet
  <2> HIDE DEF f, Step
  <2> QED BY <2>1, <2>2
<1>5. ASSUME NEW n \in Good PROVE n + 1 \in Good
  <2>1. PICK f \in [SUBSET S -> X] :
          \A t \in SUBSET S : Cardinality(t) <= n => f[t] = Step(f, t)
    OBVIOUS
  <2> DEFINE g == [t \in SUBSET S |-> Step(f, t)]
  <2>2. g \in [SUBSET S -> X] /\ \A t \in SUBSET S : g[t] = Step(f, t)
    BY <1>3
  <2> HIDE DEF g
  <2>3. ASSUME NEW t \in SUBSET S, Cardinality(t) <= n + 1 PROVE g[t] = Step(g, t)
    <3>1. CASE t = {}
      BY <2>2, <3>1
    <3>2. CASE t # {}
      <4>1. t \ {c[t]} \in SUBSET S /\ Cardinality(t \ {c[t]}) <= n
        BY <1>1, <1>2, <2>3, <3>2
      <4>2. f[t \ {c[t]}] = g[t \ {c[t]}]
        BY <2>1, <2>2, <4>1
      <4> QED BY <2>2, <3>2, <4>2
    <3> QED BY <3>1, <3>2
  <2> HIDE DEF Step
  <2> QED BY <2>2, <2>3
<1> HIDE DEF Good
<1>6. Cardinality(S) \in Good
  <2>1. Good \in SUBSET Nat
    BY DEF Good
  <2> QED BY <1>1, <1>4, <1>5, <2>1, SetInduction
<1>7. PICK f \in [SUBSET S -> X] :
        \A t \in SUBSET S : Cardinality(t) <= Cardinality(S) => f[t] = Step(f, t)
  BY <1>6 DEF Good
<1>8. \A t \in SUBSET S : f[t] = Step(f, t)
  BY <1>7, FS_Subset
<1> QED BY <1>8

(* A set of subsets of a finite S that has {}, and every t of which it has *)
(* all that is left when one element is taken away, has S itself.          *)
LEMMA SubsetInduction ==
  ASSUME NEW S, IsFiniteSet(S), NEW P, {} \in P,
         \A t \in SUBSET S : t # {} /\ (\A x \in t : t \ {x} \in P) => t \in P
  PROVE  S \in P
<1> DEFINE Good == {n \in Nat : \A t \in SUBSET S : Cardinality(t) = n => t \in P}
<1>1. \A t \in SUBSET S : IsFiniteSet(t) /\ Cardinality(t) \in Nat
  BY FS_Subset, FS_CardinalityType
<1>2. \A t \in SUBSET S : Cardinality(t) = 0 <=> t = {}
  BY <1>1, FS_EmptySet
<1>3. 0 \in Good
  BY <1>2
<1>4. ASSUME NEW n \in Good PROVE n + 1 \in Good
  <2>1. ASSUME NEW t \in SUBSET S, Cardinality(t) = n + 1 PROVE t \in P
    <3>1. t # {}
      BY <1>2, <2>1
    <3>2. ASSUME NEW x \in t PROVE t \ {x} \in P
      <4>1. IsFiniteSet(t) /\ Cardinality(t) = n + 1
        BY <1>1, <2>1
      <4>2. Cardinality(t \ {x}) = Cardinality(t) - 1
        BY <4>1, FS_RemoveElement
      <4>3. t \ {x} \in SUBSET S /\ Cardinality(t \ {x}) = n
        BY <4>1, <4>2
      <4> QED BY <4>3
    <3> QED BY <3>1, <3>2
  <2> QED BY <2>1
<1>5. Good \in SUBSET Nat
  OBVIOUS
<1>6. Cardinality(S) \in Good
  <2> HIDE DEF Good
  <2> QED BY <1>1, <1>3, <1>4, <1>5, SetInduction
<1> QED BY <1>6

(* The sum of f over S, and the function MapThenSumSet recurses through.   *)
SumOf(f, S) == MapThenSumSet(LAMBDA m : f[m], S)

Sums(g, f, S) ==
  g = [t \in SUBSET S |-> IF t = {} THEN 0
                          ELSE f[CHOOSE x \in t : TRUE] + g[t \ {CHOOSE x \in t : TRUE}]]

(* A sum is what such a function yields.                                   *)
LEMMA SumUnfolds ==
  ASSUME NEW S, IsFiniteSet(S), NEW f, \A m \in S : f[m] \in Nat
  PROVE  \E g : Sums(g, f, S) /\ SumOf(f, S) = g[S]
<1> DEFINE c == [t \in SUBSET S |-> CHOOSE x \in t : TRUE]
           h == [p \in S \X Nat |-> f[p[1]] + p[2]]
<1>1. \A x \in S, v \in Nat : h[<<x, v>>] = f[x] + v /\ h[<<x, v>>] \in Nat
  OBVIOUS
<1>2. \A t \in SUBSET S : t # {} => c[t] \in t
  OBVIOUS
<1>3. \E g \in [SUBSET S -> Nat] : Unfolds(g, S, 0, h, c)
  <2>1. Foldable(S, Nat, 0, h, c)
    <3> HIDE DEF h, c
    <3> QED BY <1>1, <1>2 DEF Foldable
  <2> HIDE DEF c, h
  <2> QED BY <2>1, FoldExists
<1>4. PICK g \in [SUBSET S -> Nat] : Unfolds(g, S, 0, h, c)
  BY <1>3
<1>5. Sums(g, f, S)
  <2>1. \A t \in SUBSET S : t # {} => h[<<c[t], g[t \ {c[t]}]>>] = f[c[t]] + g[t \ {c[t]}]
    <3> HIDE DEF h, c
    <3> QED BY <1>1, <1>2
  <2>2. \A t \in SUBSET S : c[t] = CHOOSE x \in t : TRUE
    OBVIOUS
  <2> HIDE DEF h, c
  <2>3. \A t \in SUBSET S : g[t] = IF t = {} THEN 0
                            ELSE f[CHOOSE x \in t : TRUE] + g[t \ {CHOOSE x \in t : TRUE}]
    BY <1>4, <2>1, <2>2 DEF Unfolds
  <2> QED BY <2>3 DEF Sums
<1>6. SumOf(f, S) = (CHOOSE u : Sums(u, f, S))[S]
  BY DEF SumOf, Sums, MapThenSumSet, MapThenFoldSet
<1>7. Sums(CHOOSE u : Sums(u, f, S), f, S)
  BY <1>5
<1> QED BY <1>6, <1>7

(* The sum of a function that is 1 on R and 0 elsewhere.                   *)
LEMMA SumCounts ==
  ASSUME NEW S, IsFiniteSet(S), NEW f, NEW R,
         \A m \in S : f[m] = IF m \in R THEN 1 ELSE 0
  PROVE  SumOf(f, S) = Cardinality(S \cap R)
<1>1. PICK g : Sums(g, f, S) /\ SumOf(f, S) = g[S]
  <2>1. \A m \in S : f[m] \in Nat
    OBVIOUS
  <2> QED BY <2>1, SumUnfolds
<1> DEFINE P == {t \in SUBSET S : g[t] = Cardinality(t \cap R)}
<1>2. {} \in P
  BY <1>1, FS_EmptySet DEF Sums
<1>3. ASSUME NEW t \in SUBSET S, t # {}, \A x \in t : t \ {x} \in P PROVE t \in P
  <2> DEFINE x == CHOOSE y \in t : TRUE
             rest == (t \ {x}) \cap R
  <2>1. x \in t
    BY <1>3
  <2>2. g[t] = f[x] + g[t \ {x}] /\ g[t \ {x}] = Cardinality(rest)
    BY <1>1, <1>3 DEF Sums
  <2> HIDE DEF x
  <2>3. IsFiniteSet(rest) /\ Cardinality(rest) \in Nat
    BY FS_Subset, FS_CardinalityType
  <2>4. CASE x \in R
    <3>1. t \cap R = rest \cup {x} /\ x \notin rest
      BY <2>1, <2>4
    <3>2. Cardinality(rest \cup {x}) = Cardinality(rest) + 1
      BY <2>3, <3>1, FS_AddElement
    <3>3. f[x] = 1
      BY <2>1, <2>4
    <3>4. Cardinality(t \cap R) = Cardinality(rest) + 1
      BY <3>1, <3>2
    <3>5. g[t] = Cardinality(t \cap R)
      BY <2>2, <2>3, <3>3, <3>4
    <3> QED BY <3>5
  <2>5. CASE x \notin R
    <3>1. t \cap R = rest
      BY <2>5
    <3>2. f[x] = 0 /\ g[t] = Cardinality(t \cap R)
      BY <2>1, <2>2, <2>3, <2>5, <3>1
    <3> QED BY <3>2
  <2> QED BY <2>4, <2>5
<1>4. S \in P
  <2> HIDE DEF P
  <2> QED BY <1>2, <1>3, SubsetInduction
<1> QED BY <1>1, <1>4

(* One element counted once more, or none.                                 *)
LEMMA SumStep ==
  ASSUME NEW S, IsFiniteSet(S), NEW f, NEW new, NEW R,
         \A m \in S : f[m] \in Nat,
         \A m \in S : new[m] = IF m \in R THEN f[m] + 1 ELSE f[m]
  PROVE  SumOf(f, S) \in Nat /\ SumOf(new, S) = SumOf(f, S) + Cardinality(S \cap R)
<1>1. PICK g : Sums(g, f, S) /\ SumOf(f, S) = g[S]
  BY SumUnfolds
<1>2. PICK h : Sums(h, new, S) /\ SumOf(new, S) = h[S]
  <2>1. \A m \in S : new[m] \in Nat
    OBVIOUS
  <2> QED BY <2>1, SumUnfolds
<1> DEFINE P == {t \in SUBSET S : g[t] \in Nat /\ h[t] = g[t] + Cardinality(t \cap R)}
<1>3. {} \in P
  BY <1>1, <1>2, FS_EmptySet DEF Sums
<1>4. ASSUME NEW t \in SUBSET S, t # {}, \A x \in t : t \ {x} \in P PROVE t \in P
  <2> DEFINE x == CHOOSE y \in t : TRUE
             rest == (t \ {x}) \cap R
  <2>1. x \in t
    BY <1>4
  <2>2. /\ g[t] = f[x] + g[t \ {x}] /\ g[t \ {x}] \in Nat
        /\ h[t] = new[x] + h[t \ {x}] /\ h[t \ {x}] = g[t \ {x}] + Cardinality(rest)
    BY <1>1, <1>2, <1>4 DEF Sums
  <2> HIDE DEF x
  <2>3. IsFiniteSet(rest) /\ Cardinality(rest) \in Nat
    BY FS_Subset, FS_CardinalityType
  <2>4. f[x] \in Nat
    BY <2>1
  <2>5. CASE x \in R
    <3>1. t \cap R = rest \cup {x} /\ x \notin rest
      BY <2>1, <2>5
    <3>2. Cardinality(rest \cup {x}) = Cardinality(rest) + 1
      BY <2>3, <3>1, FS_AddElement
    <3>3. new[x] = f[x] + 1
      BY <2>1, <2>5
    <3>4. g[t] \in Nat /\ h[t] = g[t] + Cardinality(t \cap R)
      BY <2>2, <2>3, <2>4, <3>1, <3>2, <3>3
    <3> QED BY <3>4
  <2>6. CASE x \notin R
    <3>1. t \cap R = rest
      BY <2>6
    <3>2. new[x] = f[x]
      BY <2>1, <2>6
    <3>3. g[t] \in Nat /\ h[t] = g[t] + Cardinality(t \cap R)
      BY <2>2, <2>3, <2>4, <3>1, <3>2
    <3> QED BY <3>3
  <2> QED BY <2>5, <2>6
<1>5. S \in P
  <2> HIDE DEF P
  <2> QED BY <1>3, <1>4, SubsetInduction
<1> QED BY <1>1, <1>2, <1>5

(* The function the sum over S recurses through has the sums over its      *)
(* subsets too.                                                            *)
LEMMA SumRestricts ==
  ASSUME NEW S, IsFiniteSet(S), NEW f, \A m \in S : f[m] \in Nat,
         NEW g, Sums(g, f, S), NEW t \in SUBSET S
  PROVE  SumOf(f, t) = g[t]
<1>1. IsFiniteSet(t)
  BY FS_Subset
<1>2. PICK h : Sums(h, f, t) /\ SumOf(f, t) = h[t]
  BY <1>1, SumUnfolds
<1> DEFINE P == {u \in SUBSET t : g[u] = h[u]}
<1>3. {} \in P
  BY <1>2 DEF Sums
<1>4. ASSUME NEW u \in SUBSET t, u # {}, \A x \in u : u \ {x} \in P PROVE u \in P
  <2> DEFINE x == CHOOSE y \in u : TRUE
  <2>1. x \in u
    BY <1>4
  <2>2. g[u] = f[x] + g[u \ {x}] /\ h[u] = f[x] + h[u \ {x}]
    BY <1>2, <1>4 DEF Sums
  <2> HIDE DEF x
  <2>3. g[u \ {x}] = h[u \ {x}]
    BY <1>4, <2>1
  <2> QED BY <2>2, <2>3
<1>5. t \in P
  <2> HIDE DEF P
  <2> QED BY <1>1, <1>3, <1>4, SubsetInduction
<1> QED BY <1>2, <1>5

(* A sum of numbers is a number.                                           *)
LEMMA SumNat ==
  ASSUME NEW S, IsFiniteSet(S), NEW f, \A m \in S : f[m] \in Nat
  PROVE  SumOf(f, S) \in Nat
<1> DEFINE R == {}
<1>1. \A m \in S : f[m] = IF m \in R THEN f[m] + 1 ELSE f[m]
  OBVIOUS
<1> HIDE DEF R
<1> QED BY <1>1, SumStep

(* Equal terms have equal sums.                                            *)
LEMMA SumSame ==
  ASSUME NEW S, IsFiniteSet(S), NEW f, NEW g,
         \A m \in S : f[m] \in Nat /\ g[m] = f[m]
  PROVE  SumOf(g, S) = SumOf(f, S)
<1> DEFINE R == {}
<1>1. \A m \in S : f[m] \in Nat
  OBVIOUS
<1>2. \A m \in S : g[m] = IF m \in R THEN f[m] + 1 ELSE f[m]
  OBVIOUS
<1>3. Cardinality(S \cap R) = 0
  BY FS_EmptySet
<1> HIDE DEF R
<1>4. SumOf(f, S) \in Nat /\ SumOf(g, S) = SumOf(f, S) + Cardinality(S \cap R)
  BY <1>1, <1>2, SumStep
<1> QED BY <1>3, <1>4

(* The empty sum.                                                          *)
LEMMA SumOfNone ==
  ASSUME NEW f
  PROVE  SumOf(f, {}) = 0
<1>1. IsFiniteSet({}) /\ \A m \in {} : f[m] \in Nat
  BY FS_EmptySet
<1>2. PICK g : Sums(g, f, {}) /\ SumOf(f, {}) = g[{}]
  BY <1>1, SumUnfolds
<1> QED BY <1>2 DEF Sums

(* Any element can be added last.                                          *)
LEMMA SumRemove ==
  ASSUME NEW S, IsFiniteSet(S), NEW f, \A m \in S : f[m] \in Nat, NEW e \in S
  PROVE  SumOf(f, S) \in Nat /\ SumOf(f, S \ {e}) \in Nat
         /\ SumOf(f, S) = f[e] + SumOf(f, S \ {e})
<1>1. PICK g : Sums(g, f, S) /\ SumOf(f, S) = g[S]
  BY SumUnfolds
<1>0. \A t \in SUBSET S : g[t] \in Nat
  <2> SUFFICES ASSUME NEW t \in SUBSET S PROVE g[t] \in Nat
    OBVIOUS
  <2>1. IsFiniteSet(t) /\ \A m \in t : f[m] \in Nat
    BY FS_Subset
  <2>2. SumOf(f, t) \in Nat
    BY <2>1, SumNat
  <2> QED BY <1>1, <2>2, SumRestricts
<1> DEFINE P == {t \in SUBSET S : \A x \in t : g[t] = f[x] + g[t \ {x}]}
<1>2. {} \in P
  OBVIOUS
<1>3. ASSUME NEW t \in SUBSET S, t # {}, \A x \in t : t \ {x} \in P PROVE t \in P
  <2> DEFINE c == CHOOSE y \in t : TRUE
  <2>1. c \in t
    BY <1>3
  <2>2. g[t] = f[c] + g[t \ {c}]
    BY <1>1, <1>3 DEF Sums
  <2> HIDE DEF c
  <2>3. f[c] \in Nat /\ g[t \ {c}] \in Nat
    BY <1>0, <2>1
  <2>4. ASSUME NEW x \in t, x # c PROVE g[t] = f[x] + g[t \ {x}]
    <3>1. g[t \ {c}] = f[x] + g[(t \ {c}) \ {x}]
      BY <1>3, <2>1, <2>4
    <3>2. g[t \ {x}] = f[c] + g[(t \ {x}) \ {c}]
      BY <1>3, <2>1, <2>4
    <3> DEFINE rest == (t \ {c}) \ {x}
    <3>3. (t \ {x}) \ {c} = rest /\ rest \in SUBSET S
      OBVIOUS
    <3>4. f[x] \in Nat
      OBVIOUS
    <3> HIDE DEF rest
    <3>5. g[rest] \in Nat
      BY <3>3, <1>0
    <3>6. g[t \ {c}] = f[x] + g[rest] /\ g[t \ {x}] = f[c] + g[rest]
      BY <3>1, <3>2, <3>3 DEF rest
    <3> QED BY <2>2, <2>3, <3>4, <3>5, <3>6
  <2> QED BY <2>2, <2>4
<1>4. S \in P
  <2> HIDE DEF P
  <2> QED BY <1>2, <1>3, SubsetInduction
<1>5. S \ {e} \in SUBSET S
  OBVIOUS
<1>6. SumOf(f, S \ {e}) = g[S \ {e}]
  BY <1>1, <1>5, SumRestricts
<1> QED BY <1>0, <1>1, <1>4, <1>5, <1>6

(* When every element of S has one of its own in T that weighs at least as *)
(* much, the sum over S is at most that over T.                            *)
THEOREM SumBelow ==
  ASSUME NEW S, NEW T, IsFiniteSet(S), IsFiniteSet(T),
         NEW f, \A m \in S : f[m] \in Nat,
         NEW g, \A m \in T : g[m] \in Nat,
         NEW a, \A m \in S : a[m] \in T /\ f[m] <= g[a[m]],
         \A m, n \in S : a[m] = a[n] => m = n
  PROVE  SumOf(f, S) <= SumOf(g, T)
<1> DEFINE P == {t \in SUBSET S : \A U \in SUBSET T :
                   (\A m \in t : a[m] \in U) => SumOf(f, t) <= SumOf(g, U)}
<1>1. \A U \in SUBSET T : IsFiniteSet(U) /\ SumOf(g, U) \in Nat
  <2> SUFFICES ASSUME NEW U \in SUBSET T PROVE IsFiniteSet(U) /\ SumOf(g, U) \in Nat
    OBVIOUS
  <2>1. IsFiniteSet(U) /\ \A m \in U : g[m] \in Nat
    BY FS_Subset
  <2> QED BY <2>1, SumNat
<1>2. {} \in P
  <2>1. SumOf(f, {}) = 0
    BY SumOfNone
  <2> QED BY <1>1, <2>1
<1>3. ASSUME NEW t \in SUBSET S, t # {}, \A x \in t : t \ {x} \in P PROVE t \in P
  <2> SUFFICES ASSUME NEW U \in SUBSET T, \A m \in t : a[m] \in U
               PROVE  SumOf(f, t) <= SumOf(g, U)
    OBVIOUS
  <2>1. PICK x \in t : TRUE
    BY <1>3
  <2>2. /\ SumOf(f, t) = f[x] + SumOf(f, t \ {x})
        /\ SumOf(f, t \ {x}) \in Nat
    <3>1. IsFiniteSet(t) /\ x \in t /\ \A m \in t : f[m] \in Nat
      BY <2>1, FS_Subset
    <3> QED BY <3>1, SumRemove
  <2> DEFINE y == a[x]
  <2>3. y \in U /\ y \in T /\ f[x] <= g[y] /\ f[x] \in Nat /\ g[y] \in Nat
    BY <2>1
  <2>4. \A m \in t \ {x} : a[m] \in U \ {y}
    BY <2>1
  <2> HIDE DEF y
  <2>5. SumOf(g, U) = g[y] + SumOf(g, U \ {y})
    <3>1. IsFiniteSet(U) /\ \A m \in U : g[m] \in Nat
      BY <1>1
    <3> QED BY <2>3, <3>1, SumRemove
  <2>6. SumOf(f, t \ {x}) <= SumOf(g, U \ {y})
    <3>1. t \ {x} \in P
      BY <1>3, <2>1
    <3>2. U \ {y} \in SUBSET T
      OBVIOUS
    <3> QED BY <2>4, <3>1, <3>2
  <2>7. SumOf(g, U \ {y}) \in Nat
    BY <1>1
  <2> QED BY <2>2, <2>3, <2>5, <2>6, <2>7
<1>4. S \in P
  <2> HIDE DEF P
  <2> QED BY <1>2, <1>3, SubsetInduction
<1> QED BY <1>4
===============================================================================
