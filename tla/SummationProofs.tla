-------------------------- MODULE SummationProofs --------------------------
(***************************************************************************)
(* The algebra of sums over finite sets.  Sum is the value of a function   *)
(* of the subsets that takes one element at a time; that there is such a   *)
(* function, and that it does not matter which element it takes, follows   *)
(* by induction over the subsets of a finite set.                          *)
(***************************************************************************)
EXTENDS Summation, Integers, FiniteSetTheorems, WellFoundedInduction, TLAPS

(* What the sum of f over S is computed by: a function of the subsets.      *)
OneOf(s) == CHOOSE x \in s : TRUE
Sums(g, f, S) == g = [s \in SUBSET S |-> IF s = {} THEN 0 ELSE f[OneOf(s)] + g[s \ {OneOf(s)}]]

(* Among some subsets of a finite set, one is smallest: the library's       *)
(* well-foundedness of strict inclusion, without an operator as parameter.  *)
LEMMA FiniteMin ==
  ASSUME NEW S, IsFiniteSet(S), NEW T \in SUBSET SUBSET S, T # {}
  PROVE  \E t \in T : \A u \in T : u \subseteq t => u = t
<1>1. T \subseteq FiniteSubsetsOf(S)
  BY FS_FiniteSubsetsOfFinite
<1>2. IsWellFoundedOn(StrictSubsetOrdering(S), FiniteSubsetsOf(S))
  BY FS_StrictSubsetOrderingWellFounded
<1>3. \E t \in T : \A u \in T : <<u, t>> \notin StrictSubsetOrdering(S)
  BY <1>1, <1>2, WFMin, Zenon
<1> QED
  BY <1>3 DEF StrictSubsetOrdering

(* Induction over the subsets of a finite set: what is true of a subset if  *)
(* it is of all smaller ones is true of all.                                *)
LEMMA FiniteInduction ==
  ASSUME NEW S, IsFiniteSet(S), NEW T \in SUBSET SUBSET S,
         \A s \in SUBSET S : (\A u \in SUBSET s : u # s => u \in T) => s \in T
  PROVE  T = SUBSET S
<1>1. SUFFICES ASSUME (SUBSET S) \ T # {} PROVE FALSE
  OBVIOUS
<1>2. PICK t \in (SUBSET S) \ T : \A u \in (SUBSET S) \ T : u \subseteq t => u = t
  <2> DEFINE U == (SUBSET S) \ T
  <2>1. U \in SUBSET SUBSET S /\ U # {}
    BY <1>1
  <2> HIDE DEF U
  <2>2. \E t \in U : \A u \in U : u \subseteq t => u = t
    BY <2>1, FiniteMin
  <2> QED
    BY <2>2 DEF U
<1>3. \A u \in SUBSET t : u # t => u \in T
  BY <1>2
<1> QED
  BY <1>2, <1>3

(* What the sum takes first is an element. *)
LEMMA OneOfIn == ASSUME NEW s, s # {} PROVE OneOf(s) \in s
BY DEF OneOf

(* Two functions that sum f agree on what they both sum. *)
LEMMA SumsAgree ==
  ASSUME NEW f, NEW S, NEW R, IsFiniteSet(S), S \subseteq R, NEW g, NEW h, Sums(g, f, S), Sums(h, f, R)
  PROVE  \A s \in SUBSET S : g[s] = h[s]
<1> DEFINE T == {s \in SUBSET S : g[s] = h[s]}
<1>1. ASSUME NEW s \in SUBSET S, \A u \in SUBSET s : u # s => u \in T
      PROVE  s \in T
  <2>1. CASE s = {}
    <3>1. g[s] = 0
      BY <2>1 DEF Sums
    <3>2. h[s] = 0
      BY <2>1 DEF Sums
    <3> QED
      BY <3>1, <3>2
  <2>2. CASE s # {}
    <3>1. s \ {OneOf(s)} \in T
      BY <1>1, <2>2, OneOfIn
    <3>2. g[s] = f[OneOf(s)] + g[s \ {OneOf(s)}]
      BY <2>2 DEF Sums
    <3>3. h[s] = f[OneOf(s)] + h[s \ {OneOf(s)}]
      BY <2>2 DEF Sums
    <3> QED
      BY <3>1, <3>2, <3>3
  <2> QED
    BY <2>1, <2>2
<1>2. T \in SUBSET SUBSET S
  OBVIOUS
<1> HIDE DEF T
<1>3. T = SUBSET S
  BY <1>1, <1>2, FiniteInduction
<1> QED
  BY <1>3 DEF T

(* Such a function exists: the recursion over subsets is well-defined.      *)
LEMMA SumsExist ==
  ASSUME NEW f, NEW S, IsFiniteSet(S)
  PROVE  \E g : Sums(g, f, S)
<1> DEFINE T == {s \in SUBSET S : \E g : Sums(g, f, s)}
<1>1. ASSUME NEW s \in SUBSET S, \A u \in SUBSET s : u # s => u \in T
      PROVE  s \in T
  <2> DEFINE Of(u) == CHOOSE g : Sums(g, f, u)
             Val(u) == Of(u)[u]
             G == [u \in SUBSET s |-> IF u = {} THEN 0 ELSE f[OneOf(u)] + Val(u \ {OneOf(u)})]
  <2>1. ASSUME NEW u \in SUBSET s, u # s PROVE Sums(Of(u), f, u)
    BY <2>1, <1>1
  <2>2. ASSUME NEW u \in SUBSET s, u # s PROVE G[u] = Val(u)
    <3>1. CASE u = {}
      <4>1. Sums(Of(u), f, u)
        BY <2>1, <2>2
      <4>2. Of(u)[u] = 0
        <5> HIDE DEF Of
        <5> QED
          BY <4>1, <3>1 DEF Sums
      <4> QED
        BY <3>1, <4>2
    <3>2. CASE u # {}
      <4> DEFINE v == u \ {OneOf(u)}
      <4>0. v \in SUBSET u /\ v # s /\ v \in SUBSET s
        BY <3>2, <2>2, OneOfIn
      <4>1. Of(u)[u] = f[OneOf(u)] + Of(u)[v]
        <5>1. Sums(Of(u), f, u)
          BY <2>1, <2>2
        <5> HIDE DEF Of
        <5> QED
          BY <5>1, <3>2 DEF Sums
      <4>2. Sums(Of(v), f, v) /\ Sums(Of(u), f, u)
        BY <2>1, <2>2, <4>0
      <4>2a. IsFiniteSet(v)
        BY <4>0, FS_Subset
      <4>2b. v \in SUBSET v
        OBVIOUS
      <4>3. Of(v)[v] = Of(u)[v]
        <5> HIDE DEF v, Of
        <5> QED
          BY <4>0, <4>2, <4>2a, <4>2b, SumsAgree
      <4> QED
        BY <4>1, <4>3, <3>2
    <3> QED
      BY <3>1, <3>2
  <2>3. G = [u \in SUBSET s |-> IF u = {} THEN 0 ELSE f[OneOf(u)] + G[u \ {OneOf(u)}]]
    <3>1. ASSUME NEW u \in SUBSET s, u # {} PROVE G[u \ {OneOf(u)}] = Val(u \ {OneOf(u)})
      <4>1. u \ {OneOf(u)} \in SUBSET s /\ u \ {OneOf(u)} # s
        BY <3>1, OneOfIn
      <4> HIDE DEF G, Val
      <4> QED
        BY <4>1, <2>2
    <3> HIDE DEF Val
    <3> QED
      BY <3>1
  <2> HIDE DEF G
  <2>4. Sums(G, f, s)
    BY <2>3 DEF Sums
  <2> QED
    BY <2>4
<1>2. T \in SUBSET SUBSET S
  OBVIOUS
<1> HIDE DEF T
<1>3. T = SUBSET S
  BY <1>1, <1>2, FiniteInduction
<1> QED
  BY <1>3 DEF T

(* Sum is the value of such a function. *)
LEMMA SumIsOne ==
  ASSUME NEW f, NEW S, IsFiniteSet(S)
  PROVE  \E g : Sums(g, f, S) /\ Sum(f, S) = g[S]
<1>1. Sum(f, S) = (CHOOSE g : Sums(g, f, S))[S]
  BY DEF Sum, MapThenSumSet, MapThenFoldSet, Sums, OneOf
<1> QED
  BY <1>1, SumsExist

(* The sum of nothing. *)
LEMMA SumEmpty == ASSUME NEW f PROVE Sum(f, {}) = 0
<1>1. PICK g : Sums(g, f, {}) /\ Sum(f, {}) = g[{}]
  BY SumIsOne, FS_EmptySet
<1> QED
  BY <1>1 DEF Sums

(* The sum as it is computed: one element, and the rest. *)
LEMMA SumAny ==
  ASSUME NEW f, NEW S, IsFiniteSet(S), S # {}
  PROVE  Sum(f, S) = f[OneOf(S)] + Sum(f, S \ {OneOf(S)})
<1> DEFINE R == S \ {OneOf(S)}
<1>1. PICK g : Sums(g, f, S) /\ Sum(f, S) = g[S]
  BY SumIsOne
<1>2. IsFiniteSet(R) /\ R \in SUBSET R /\ R \subseteq S
  BY FS_Subset
<1>3. g[S] = f[OneOf(S)] + g[R]
  BY <1>1 DEF Sums
<1> HIDE DEF R
<1>4. PICK h : Sums(h, f, R) /\ Sum(f, R) = h[R]
  BY <1>2, SumIsOne
<1>5. h[R] = g[R]
  BY <1>1, <1>2, <1>4, SumsAgree
<1> QED
  BY <1>1, <1>3, <1>4, <1>5 DEF R

(* The sum of integers is one. *)
LEMMA SumInt ==
  ASSUME NEW S, IsFiniteSet(S), NEW f, \A x \in S : f[x] \in Int
  PROVE  Sum(f, S) \in Int
<1> DEFINE T == {s \in SUBSET S : Sum(f, s) \in Int}
<1>1. ASSUME NEW s \in SUBSET S, \A u \in SUBSET s : u # s => u \in T
      PROVE  s \in T
  <2>1. CASE s = {}
    BY <2>1, SumEmpty
  <2>2. CASE s # {}
    <3>1. OneOf(s) \in s /\ IsFiniteSet(s)
      BY <2>2, OneOfIn, FS_Subset
    <3>2. Sum(f, s) = f[OneOf(s)] + Sum(f, s \ {OneOf(s)})
      BY <2>2, <3>1, SumAny
    <3>3. s \ {OneOf(s)} \in T
      BY <1>1, <3>1
    <3> QED
      BY <3>1, <3>2, <3>3
  <2> QED
    BY <2>1, <2>2
<1>2. T \in SUBSET SUBSET S
  OBVIOUS
<1> HIDE DEF T
<1>3. T = SUBSET S
  BY <1>1, <1>2, FiniteInduction
<1> QED
  BY <1>3 DEF T

(* Whichever element is taken first. *)
LEMMA SumStep ==
  ASSUME NEW S, IsFiniteSet(S), NEW f, \A x \in S : f[x] \in Int, NEW y \in S
  PROVE  Sum(f, S) = f[y] + Sum(f, S \ {y})
<1> DEFINE T == {s \in SUBSET S : \A x \in s : Sum(f, s) = f[x] + Sum(f, s \ {x})}
<1>1. ASSUME NEW s \in SUBSET S, \A u \in SUBSET s : u # s => u \in T
      PROVE  s \in T
  <2> SUFFICES ASSUME NEW x \in s
               PROVE  Sum(f, s) = f[x] + Sum(f, s \ {x})
    OBVIOUS
  <2> DEFINE a == OneOf(s)
             r == s \ {a, x}
  <2>1. a \in s /\ IsFiniteSet(s) /\ IsFiniteSet(r)
    BY OneOfIn, FS_Subset
  <2>2. Sum(f, s) = f[a] + Sum(f, s \ {a})
    BY <2>1, SumAny
  <2>3. CASE x = a
    BY <2>2, <2>3
  <2>4. CASE x # a
    <3>1. s \ {a} \in T /\ s \ {x} \in T
      BY <1>1, <2>1
    <3>2. Sum(f, s \ {a}) = f[x] + Sum(f, (s \ {a}) \ {x})
      BY <2>4, <3>1
    <3>3. Sum(f, s \ {x}) = f[a] + Sum(f, (s \ {x}) \ {a})
      BY <2>4, <2>1, <3>1
    <3>4. (s \ {a}) \ {x} = r /\ (s \ {x}) \ {a} = r
      OBVIOUS
    <3>5. Sum(f, r) \in Int /\ f[a] \in Int /\ f[x] \in Int
      BY <2>1, SumInt
    <3>6. Sum(f, s \ {a}) = f[x] + Sum(f, r) /\ Sum(f, s \ {x}) = f[a] + Sum(f, r)
      BY <3>2, <3>3, <3>4, Zenon
    <3> HIDE DEF r, a
    <3> QED
      BY <2>2, <3>5, <3>6
  <2> QED
    BY <2>3, <2>4
<1>2. T \in SUBSET SUBSET S
  OBVIOUS
<1> HIDE DEF T
<1>3. T = SUBSET S
  BY <1>1, <1>2, FiniteInduction
<1> QED
  BY <1>3 DEF T

(* Term by term: what holds of each term holds of the sums.                 *)
LEMMA SumAtMost ==
  ASSUME NEW S, IsFiniteSet(S), NEW f, NEW h,
         \A x \in S : f[x] \in Int /\ h[x] \in Int /\ f[x] <= h[x]
  PROVE  Sum(f, S) <= Sum(h, S)
<1> DEFINE T == {s \in SUBSET S : Sum(f, s) <= Sum(h, s)}
<1>1. ASSUME NEW s \in SUBSET S, \A u \in SUBSET s : u # s => u \in T
      PROVE  s \in T
  <2>1. CASE s = {}
    BY <2>1, SumEmpty
  <2>2. CASE s # {}
    <3> DEFINE r == s \ {OneOf(s)}
    <3>1. OneOf(s) \in S /\ IsFiniteSet(s) /\ IsFiniteSet(r)
      BY <2>2, OneOfIn, FS_Subset
    <3>2. Sum(f, s) = f[OneOf(s)] + Sum(f, r)
      BY <2>2, <3>1, SumAny
    <3>2a. Sum(h, s) = h[OneOf(s)] + Sum(h, r)
      BY <2>2, <3>1, SumAny
    <3>3. Sum(f, r) <= Sum(h, r)
      BY <1>1, <3>1, <2>2, OneOfIn
    <3>4. Sum(f, r) \in Int /\ Sum(h, r) \in Int
      BY <3>1, SumInt
    <3> HIDE DEF r
    <3> QED
      BY <3>1, <3>2, <3>2a, <3>3, <3>4
  <2> QED
    BY <2>1, <2>2
<1>2. T \in SUBSET SUBSET S
  OBVIOUS
<1> HIDE DEF T
<1>3. T = SUBSET S
  BY <1>1, <1>2, FiniteInduction
<1> QED
  BY <1>3 DEF T

(* Elements that count nothing may be added.                                *)
LEMMA SumExtends ==
  ASSUME NEW S, IsFiniteSet(S), NEW D \in SUBSET S, NEW f, NEW h,
         \A x \in S : h[x] \in Int,
         \A x \in D : f[x] = h[x],
         \A x \in S \ D : h[x] = 0
  PROVE  Sum(f, D) = Sum(h, S)
<1> DEFINE T == {s \in SUBSET S : Sum(f, s \cap D) = Sum(h, s)}
<1>1. ASSUME NEW s \in SUBSET S, \A u \in SUBSET s : u # s => u \in T
      PROVE  s \in T
  <2>1. CASE s = {}
    <3>1. s \cap D = {}
      BY <2>1
    <3> QED
      BY <2>1, <3>1, SumEmpty
  <2>2. CASE s # {}
    <3> DEFINE x == OneOf(s)
               r == s \ {x}
    <3>1. x \in s /\ x \in S /\ IsFiniteSet(s) /\ IsFiniteSet(s \cap D) /\ IsFiniteSet(r)
      BY <2>2, OneOfIn, FS_Subset
    <3>2. Sum(h, s) = h[x] + Sum(h, r)
      BY <2>2, <3>1, SumAny
    <3>3. Sum(f, r \cap D) = Sum(h, r)
      BY <1>1, <3>1
    <3>4. Sum(h, r) \in Int
      BY <3>1, SumInt
    <3>5. CASE x \in D
      <4>1. x \in s \cap D /\ \A y \in s \cap D : f[y] \in Int
        BY <3>1, <3>5
      <4>2. Sum(f, s \cap D) = f[x] + Sum(f, (s \cap D) \ {x})
        <5> HIDE DEF x, T
        <5> QED
          BY <3>1, <4>1, SumStep
      <4>3. (s \cap D) \ {x} = r \cap D
        OBVIOUS
      <4>4. Sum(f, s \cap D) = f[x] + Sum(h, r)
        BY <3>3, <4>2, <4>3, Zenon
      <4> HIDE DEF x, r
      <4> QED
        BY <3>2, <3>5, <4>4
    <3>6. CASE x \notin D
      <4>1. h[x] = 0 /\ s \cap D = r \cap D
        BY <3>1, <3>6
      <4>2. Sum(h, s) = Sum(h, r)
        <5> HIDE DEF x, r
        <5> QED
          BY <3>2, <3>4, <4>1
      <4>3. Sum(f, s \cap D) = Sum(h, r)
        BY <3>3, <4>1, Zenon
      <4> QED
        BY <4>2, <4>3
    <3> QED
      BY <3>5, <3>6
  <2> QED
    BY <2>1, <2>2
<1>2. T \in SUBSET SUBSET S
  OBVIOUS
<1> HIDE DEF T
<1>3. S \in T
  BY <1>1, <1>2, FiniteInduction
<1>4. S \cap D = D
  OBVIOUS
<1> QED
  BY <1>3, <1>4 DEF T

(* The same terms have the same sum. *)
LEMMA SumEqual ==
  ASSUME NEW S, IsFiniteSet(S), NEW f, NEW h, \A x \in S : f[x] \in Int /\ f[x] = h[x]
  PROVE  Sum(f, S) = Sum(h, S)
BY SumExtends

(* A sum of differences is the difference of the sums. *)
LEMMA SumDifference ==
  ASSUME NEW S, IsFiniteSet(S), NEW f, NEW g, NEW h,
         \A x \in S : f[x] \in Int /\ g[x] \in Int /\ h[x] = f[x] - g[x]
  PROVE  Sum(h, S) = Sum(f, S) - Sum(g, S)
<1> DEFINE T == {s \in SUBSET S : Sum(h, s) = Sum(f, s) - Sum(g, s)}
<1>1. ASSUME NEW s \in SUBSET S, \A u \in SUBSET s : u # s => u \in T
      PROVE  s \in T
  <2>1. CASE s = {}
    <3>1. Sum(f, s) = 0 /\ Sum(g, s) = 0 /\ Sum(h, s) = 0
      BY <2>1, SumEmpty
    <3> QED
      BY <3>1
  <2>2. CASE s # {}
    <3> DEFINE x == OneOf(s)
               r == s \ {x}
    <3>1. x \in S /\ x \in s /\ IsFiniteSet(s) /\ IsFiniteSet(r)
      BY <2>2, OneOfIn, FS_Subset
    <3>2. Sum(f, s) = f[x] + Sum(f, r)
      BY <2>2, <3>1, SumAny
    <3>3. Sum(g, s) = g[x] + Sum(g, r)
      BY <2>2, <3>1, SumAny
    <3>4. Sum(h, s) = h[x] + Sum(h, r)
      BY <2>2, <3>1, SumAny
    <3>5. Sum(h, r) = Sum(f, r) - Sum(g, r)
      BY <1>1, <3>1
    <3>6. Sum(f, r) \in Int /\ Sum(g, r) \in Int
      BY <3>1, SumInt
    <3> HIDE DEF x, r
    <3> QED
      BY <3>1, <3>2, <3>3, <3>4, <3>5, <3>6
  <2> QED
    BY <2>1, <2>2
<1>2. T \in SUBSET SUBSET S
  OBVIOUS
<1> HIDE DEF T
<1>3. S \in T
  BY <1>1, <1>2, FiniteInduction
<1> QED
  BY <1>3 DEF T

(* A sum of terms that are none below 0 is not. *)
LEMMA SumNatural ==
  ASSUME NEW S, IsFiniteSet(S), NEW f, \A x \in S : f[x] \in Nat
  PROVE  Sum(f, S) \in Nat
<1> DEFINE zero == [x \in S |-> 0]
<1>1. Sum(zero, S) = Sum(zero, {})
  BY SumExtends
<1>2. Sum(zero, {}) = 0
  BY SumEmpty
<1>3. Sum(zero, S) <= Sum(f, S)
  <2>1. \A x \in S : zero[x] \in Int /\ f[x] \in Int /\ zero[x] <= f[x]
    OBVIOUS
  <2> HIDE DEF zero
  <2> QED
    BY <2>1, SumAtMost
<1>4. Sum(f, S) \in Int
  BY SumInt
<1> HIDE DEF zero
<1> QED
  BY <1>1, <1>2, <1>3, <1>4

(* The sums of two sets that have nothing in common add up. *)
LEMMA SumDisjoint ==
  ASSUME NEW S, NEW R, IsFiniteSet(S), IsFiniteSet(R), S \cap R = {},
         NEW f, \A x \in S \cup R : f[x] \in Int
  PROVE  Sum(f, S \cup R) = Sum(f, S) + Sum(f, R)
<1> DEFINE T == {s \in SUBSET R : Sum(f, S \cup s) = Sum(f, S) + Sum(f, s)}
<1>0. Sum(f, S) \in Int
  BY SumInt
<1>1. ASSUME NEW s \in SUBSET R, \A u \in SUBSET s : u # s => u \in T
      PROVE  s \in T
  <2>1. CASE s = {}
    <3>1. Sum(f, s) = 0 /\ S \cup s = S
      BY <2>1, SumEmpty
    <3>2. Sum(f, S \cup s) = Sum(f, S)
      BY <3>1, Zenon
    <3> QED
      BY <1>0, <3>1, <3>2
  <2>2. CASE s # {}
    <3> DEFINE x == OneOf(s)
               r == s \ {x}
               U == S \cup s
    <3>1. x \in s /\ IsFiniteSet(s) /\ IsFiniteSet(r) /\ IsFiniteSet(U)
      BY <2>2, OneOfIn, FS_Subset, FS_Union
    <3>2. Sum(f, s) = f[x] + Sum(f, r)
      BY <2>2, <3>1, SumAny
    <3>3. Sum(f, S \cup r) = Sum(f, S) + Sum(f, r)
      BY <1>1, <3>1
    <3>4. U \ {x} = S \cup r /\ x \in U /\ \A y \in U : f[y] \in Int
      BY <3>1
    <3>5. Sum(f, U) = f[x] + Sum(f, U \ {x})
      <4> HIDE DEF U, x
      <4> QED
        BY <3>1, <3>4, SumStep
    <3>6. Sum(f, U) = f[x] + Sum(f, S \cup r)
      BY <3>4, <3>5, Zenon
    <3>7. Sum(f, r) \in Int /\ f[x] \in Int
      BY <3>1, SumInt
    <3> HIDE DEF x, r
    <3>8. Sum(f, U) = Sum(f, S) + Sum(f, s)
      <4> HIDE DEF U
      <4> QED
        BY <1>0, <3>2, <3>3, <3>6, <3>7
    <3> QED
      BY <3>8
  <2> QED
    BY <2>1, <2>2
<1>2. T \in SUBSET SUBSET R
  OBVIOUS
<1> HIDE DEF T
<1>3. R \in T
  BY <1>1, <1>2, FiniteInduction
<1> QED
  BY <1>3 DEF T

(* More terms that are none below 0 make no smaller sum. *)
LEMMA SumSubset ==
  ASSUME NEW S, IsFiniteSet(S), NEW D \in SUBSET S, NEW f, \A x \in S : f[x] \in Nat
  PROVE  Sum(f, D) <= Sum(f, S)
<1> DEFINE R == S \ D
<1>1. IsFiniteSet(D) /\ IsFiniteSet(R) /\ D \cap R = {} /\ D \cup R = S
  BY FS_Subset
<1>2. Sum(f, D) \in Nat /\ Sum(f, R) \in Nat
  BY <1>1, SumNatural
<1>3. \A x \in D \cup R : f[x] \in Int
  OBVIOUS
<1> HIDE DEF R
<1>4. Sum(f, D \cup R) = Sum(f, D) + Sum(f, R)
  BY <1>1, <1>3, SumDisjoint
<1>5. Sum(f, S) = Sum(f, D) + Sum(f, R)
  BY <1>1, <1>4, Zenon
<1> QED
  BY <1>2, <1>5

(* The sum of one term. *)
LEMMA SumOfOne == ASSUME NEW x, NEW f, f[x] \in Int PROVE Sum(f, {x}) = f[x]
<1>1. IsFiniteSet({x}) /\ {x} \ {x} = {}
  BY FS_Singleton
<1>2. Sum(f, {x}) = f[x] + Sum(f, {x} \ {x})
  BY <1>1, SumStep
<1> QED
  BY <1>1, <1>2, SumEmpty
=============================================================================
