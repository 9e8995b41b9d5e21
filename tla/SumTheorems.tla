----------------------------- MODULE SumTheorems -----------------------------
(***************************************************************************)
(* Sums over finite sets.  The community modules define a sum by a         *)
(* recursive function that is only CHOSEN; that it exists, and that the    *)
(* order of its terms does not matter, is proved here by induction over    *)
(* the subsets of a finite set, which is taken from the well-foundedness   *)
(* of strict inclusion.                                                    *)
(***************************************************************************)
EXTENDS Integers, FiniteSets, Functions, FiniteSetTheorems, TLAPS

\* A nonempty family of subsets of a finite set has a member with no smaller
\* one in the family.
LEMMA SmallestSubset ==
  ASSUME NEW S, IsFiniteSet(S), NEW T \in SUBSET SUBSET S, T # {}
  PROVE  \E x \in T : \A y \in T : y \subseteq x => y = x
<1>1. IsWellFoundedOn(StrictSubsetOrdering(S), SUBSET S)
  BY FS_StrictSubsetOrderingWellFounded, FS_FiniteSubsetsOfFinite
<1>2. PICK x \in T : \A y \in T : <<y, x>> \notin StrictSubsetOrdering(S)
  BY <1>1, WFMin
<1> QED BY <1>2 DEF StrictSubsetOrdering

\* Induction over the subsets of a finite set: G has every subset s that it
\* has whenever it has each s without one element.
LEMMA SubsetInduction ==
  ASSUME NEW S, IsFiniteSet(S), NEW G,
         \A s \in SUBSET S : (\A x \in s : s \ {x} \in G) => s \in G
  PROVE  \A s \in SUBSET S : s \in G
<1> SUFFICES ASSUME NEW t \in SUBSET S, t \notin G PROVE FALSE
  OBVIOUS
<1> DEFINE T == {s \in SUBSET S : s \notin G}
<1>1. PICK x \in T : \A y \in T : y \subseteq x => y = x
  <2> T # {} /\ T \in SUBSET SUBSET S OBVIOUS
  <2> HIDE DEF T
  <2> QED BY SmallestSubset
<1>2. \A e \in x : x \ {e} \in G
  BY <1>1
<1> QED BY <1>1, <1>2

\* Induction over the naturals, for a set G.
LEMMA SetInduction ==
  ASSUME NEW G, 0 \in G, \A n \in Nat : n \in G => n + 1 \in G
  PROVE  \A n \in Nat : n \in G
<1> SUFFICES ASSUME NEW n \in Nat, n \notin G PROVE FALSE
  OBVIOUS
<1> DEFINE S == 0 .. n
           T == {0 .. k : k \in {i \in S : i \notin G}}
<1>1. PICK x \in T : \A y \in T : y \subseteq x => y = x
  <2>1. T # {} /\ T \in SUBSET SUBSET S OBVIOUS
  <2>2. IsFiniteSet(S) BY FS_Interval
  <2> HIDE DEF S, T
  <2> QED BY <2>1, <2>2, SmallestSubset
<1>2. PICK k \in 0 .. n : k \notin G /\ x = 0 .. k
  OBVIOUS
<1>3. k # 0 /\ k - 1 \in 0 .. n /\ k - 1 \notin G
  <2>1. k # 0 BY <1>2
  <2>2. k - 1 \in Nat /\ (k - 1) + 1 = k BY <2>1
  <2> QED BY <1>2, <2>1, <2>2
<1>4. 0 .. (k - 1) \in T
  BY <1>3
<1>5. 0 .. (k - 1) \subseteq x
  BY <1>2
<1>6. 0 .. (k - 1) = 0 .. k
  BY <1>1, <1>2, <1>4, <1>5
<1> QED BY <1>6, <1>3

-----------------------------------------------------------------------------
(* The function behind a sum. *)

\* The element that a fold over s takes first.
Pick(s) == CHOOSE x \in s : TRUE
\* h is the recursive function behind the sum of f over S.
IsFold(h, f, S) ==
  h = [s \in SUBSET S |-> IF s = {} THEN 0 ELSE f[Pick(s)] + h[s \ {Pick(s)}]]

\* Pick chooses an element.
LEMMA PickIn == \A s : s # {} => Pick(s) \in s
BY DEF Pick

\* The library's sum is the recursive function at S, if there is one.
LEMMA Unfold ==
  ASSUME NEW f, NEW S
  PROVE  SumFunctionOnSet(f, S) = (CHOOSE h : IsFold(h, f, S))[S]
BY DEF SumFunctionOnSet, FoldFunctionOnSet, MapThenFoldSet, IsFold, Pick

\* h is defined by recursion over the subsets of S: pick names the element
\* taken off.
IsRecursion(h, S, base, step, pick) ==
  \A s \in SUBSET S :
    h[s] = IF s = {} THEN base ELSE step[<<pick[s], h[s \ {pick[s]}]>>]

\* Recursion over the subsets of a finite set defines a function.
LEMMA RecursionExists ==
  ASSUME NEW S, IsFiniteSet(S), NEW V, NEW base \in V, NEW step \in [S \X V -> V],
         NEW pick, \A s \in SUBSET S : s # {} => pick[s] \in s
  PROVE  \E h \in [SUBSET S -> V] : IsRecursion(h, S, base, step, pick)
<1> DEFINE Value(h, s) == IF s = {} THEN base ELSE step[<<pick[s], h[s \ {pick[s]}]>>]
           Upto(n) == {s \in SUBSET S : Cardinality(s) <= n}
           G == {n \in Nat : \E h \in [SUBSET S -> V] : \A s \in Upto(n) : h[s] = Value(h, s)}
<1>c. \A s \in SUBSET S : IsFiniteSet(s) /\ Cardinality(s) \in Nat /\ Cardinality(s) <= Cardinality(S)
  BY FS_Subset, FS_CardinalityType
<1>p. \A s \in SUBSET S : s # {} =>
        s \ {pick[s]} \in SUBSET S /\ Cardinality(s \ {pick[s]}) = Cardinality(s) - 1 /\ pick[s] \in S
  BY <1>c, FS_RemoveElement
<1>v. ASSUME NEW h \in [SUBSET S -> V], NEW s \in SUBSET S PROVE Value(h, s) \in V
  <2>1. CASE s = {} BY <2>1
  <2>2. CASE s # {}
    <3>1. pick[s] \in S /\ h[s \ {pick[s]}] \in V BY <1>p, <2>2
    <3> QED BY <3>1, <2>2
  <2> QED BY <2>1, <2>2
<1>1. 0 \in G
  <2>1. [s \in SUBSET S |-> base] \in [SUBSET S -> V] OBVIOUS
  <2>2. \A s \in Upto(0) : s = {} BY <1>c, FS_EmptySet
  <2> QED BY <2>1, <2>2
<1>2. \A n \in Nat : n \in G => n + 1 \in G
  <2> SUFFICES ASSUME NEW n \in Nat, NEW h \in [SUBSET S -> V],
                      \A s \in Upto(n) : h[s] = Value(h, s)
               PROVE  n + 1 \in G
    OBVIOUS
  <2> DEFINE k == [s \in SUBSET S |-> IF Cardinality(s) <= n THEN h[s] ELSE Value(h, s)]
  <2>1. k \in [SUBSET S -> V]
    <3> HIDE DEF Value
    <3> QED BY <1>v
  <2>2. ASSUME NEW s \in Upto(n + 1) PROVE k[s] = Value(k, s)
    <3>1. CASE s = {}
      <4>1. Cardinality(s) <= n BY <3>1, FS_EmptySet
      <4> QED BY <3>1, <4>1
    <3>2. CASE s # {}
      <4> DEFINE r == s \ {pick[s]}
      <4>1. r \in SUBSET S /\ Cardinality(r) <= n BY <1>p, <1>c, <3>2
      <4>2. k[r] = h[r] BY <4>1
      <4>3. k[s] = Value(h, s) BY <1>c
      <4> QED BY <4>2, <4>3, <3>2
    <3> QED BY <3>1, <3>2
  <2> HIDE DEF k, Value, Upto
  <2>3. n + 1 \in Nat /\ \E j \in [SUBSET S -> V] : \A s \in Upto(n + 1) : j[s] = Value(j, s)
    BY <2>1, <2>2
  <2> QED BY <2>3
<1> HIDE DEF G
<1>3. Cardinality(S) \in G
  BY <1>1, <1>2, <1>c, SetInduction
<1>4. PICK h \in [SUBSET S -> V] : \A s \in Upto(Cardinality(S)) : h[s] = Value(h, s)
  BY <1>3 DEF G
<1>5. \A s \in SUBSET S : h[s] = Value(h, s)
  BY <1>4, <1>c
<1> QED BY <1>5 DEF IsRecursion

\* So the function behind a sum exists.
LEMMA FoldExists ==
  ASSUME NEW S, IsFiniteSet(S), NEW f \in [S -> Int]
  PROVE  \E h : IsFold(h, f, S)
<1> DEFINE pick == [s \in SUBSET S |-> Pick(s)]
           step == [p \in S \X Int |-> f[p[1]] + p[2]]
<1>1. \A s \in SUBSET S : s # {} => pick[s] \in s BY PickIn
<1>2. step \in [S \X Int -> Int] /\ 0 \in Int OBVIOUS
<1> HIDE DEF pick, step
<1>3. PICK h \in [SUBSET S -> Int] : IsRecursion(h, S, 0, step, pick)
  BY <1>1, <1>2, RecursionExists
<1>4. \A s \in SUBSET S : s # {} => step[<<pick[s], h[s \ {pick[s]}]>>] = f[Pick(s)] + h[s \ {Pick(s)}]
  BY <1>1 DEF pick, step
<1>5. h = [s \in SUBSET S |-> IF s = {} THEN 0 ELSE f[Pick(s)] + h[s \ {Pick(s)}]]
  BY <1>3, <1>4 DEF IsRecursion
<1> QED BY <1>5 DEF IsFold

\* What the function behind a sum satisfies.
FoldRules(h, f, S) ==
  /\ h[{}] = 0
  /\ \A s \in SUBSET S : h[s] \in Int
  /\ \A s \in SUBSET S : s # {} => h[s] = f[Pick(s)] + h[s \ {Pick(s)}]

\* It is an integer everywhere and unfolds one element at a time.
LEMMA FoldValue ==
  ASSUME NEW S, IsFiniteSet(S), NEW f \in [S -> Int], NEW h, IsFold(h, f, S)
  PROVE  FoldRules(h, f, S)
<1>1. \A s \in SUBSET S : h[s] = IF s = {} THEN 0 ELSE f[Pick(s)] + h[s \ {Pick(s)}]
  BY DEF IsFold
<1> DEFINE G == {s \in SUBSET S : h[s] \in Int}
<1>2. ASSUME NEW s \in SUBSET S, \A x \in s : s \ {x} \in G PROVE s \in G
  <2>1. CASE s = {}
    <3>1. h[s] = 0 BY <1>1, <2>1
    <3> QED BY <3>1
  <2>2. CASE s # {}
    <3>1. h[s] = f[Pick(s)] + h[s \ {Pick(s)}] BY <1>1, <2>2
    <3>2. f[Pick(s)] \in Int /\ h[s \ {Pick(s)}] \in Int BY <1>2, <2>2, PickIn
    <3> QED BY <3>1, <3>2
  <2> QED BY <2>1, <2>2
<1> HIDE DEF G
<1>3. \A s \in SUBSET S : s \in G
  BY <1>2, SubsetInduction
<1> QED BY <1>1, <1>3 DEF G, FoldRules

\* Whichever element is taken off first, the sum is the same.
LEMMA FoldExchange ==
  ASSUME NEW S, IsFiniteSet(S), NEW f \in [S -> Int], NEW h, IsFold(h, f, S)
  PROVE  \A s \in SUBSET S : \A x \in s : h[s] = f[x] + h[s \ {x}]
<1>0. FoldRules(h, f, S) BY FoldValue
<1> DEFINE G == {s \in SUBSET S : \A x \in s : h[s] = f[x] + h[s \ {x}]}
<1>1. ASSUME NEW s \in SUBSET S, \A x \in s : s \ {x} \in G PROVE s \in G
  <2> SUFFICES ASSUME NEW x \in s PROVE h[s] = f[x] + h[s \ {x}]
    OBVIOUS
  <2> DEFINE c == Pick(s)
  <2>1. c \in s /\ h[s] = f[c] + h[s \ {c}]
    BY <1>0, PickIn DEF FoldRules
  <2> HIDE DEF c
  <2>2. CASE c = x BY <2>1, <2>2
  <2>3. CASE c # x
    <3>1. h[s \ {c}] = f[x] + h[(s \ {c}) \ {x}]
      BY <1>1, <2>1, <2>3
    <3>2. h[s \ {x}] = f[c] + h[(s \ {x}) \ {c}]
      BY <1>1, <2>1, <2>3
    <3>3. (s \ {c}) \ {x} = (s \ {x}) \ {c} OBVIOUS
    <3>4. f[x] \in Int /\ f[c] \in Int /\ h[(s \ {x}) \ {c}] \in Int
      BY <2>1, <1>0 DEF FoldRules
    <3> DEFINE r == h[(s \ {x}) \ {c}]
    <3>5. h[s] = f[c] + (f[x] + r) /\ h[s \ {x}] = f[c] + r
      BY <2>1, <3>1, <3>2, <3>3
    <3> HIDE DEF r
    <3>6. \A a, b, d \in Int : a + (b + d) = b + (a + d) OBVIOUS
    <3> QED BY <3>4, <3>5, <3>6 DEF r
  <2> QED BY <2>2, <2>3
<1> HIDE DEF G
<1>2. \A s \in SUBSET S : s \in G
  BY <1>1, SubsetInduction
<1> QED BY <1>2 DEF G

\* The sum over a part is that of any function that agrees on the part.
LEMMA FoldUnique ==
  ASSUME NEW S, IsFiniteSet(S), NEW f \in [S -> Int], NEW h, IsFold(h, f, S),
         NEW R \in SUBSET S, NEW e \in [R -> Int], NEW g, IsFold(g, e, R),
         \A x \in R : e[x] = f[x]
  PROVE  \A s \in SUBSET R : h[s] = g[s]
<1>0. IsFiniteSet(R) BY FS_Subset
<1>a. FoldRules(g, e, R) BY <1>0, FoldValue
<1>b. FoldRules(h, f, S) BY FoldValue
<1> DEFINE G == {s \in SUBSET R : h[s] = g[s]}
<1>1. ASSUME NEW s \in SUBSET R, \A x \in s : s \ {x} \in G PROVE s \in G
  <2>1. CASE s = {} BY <2>1, <1>a, <1>b DEF FoldRules
  <2>2. CASE s # {}
    <3>1. g[s] = e[Pick(s)] + g[s \ {Pick(s)}] BY <1>a, <2>2 DEF FoldRules
    <3>2. h[s] = f[Pick(s)] + h[s \ {Pick(s)}] BY <1>b, <2>2 DEF FoldRules
    <3> QED BY <3>1, <3>2, <2>2, <1>1, PickIn
  <2> QED BY <2>1, <2>2
<1> HIDE DEF G
<1>2. \A s \in SUBSET R : s \in G
  BY <1>0, <1>1, SubsetInduction
<1> QED BY <1>2 DEF G

\* The library's sum is a value of that function.
LEMMA SumIsFold ==
  ASSUME NEW S, IsFiniteSet(S), NEW f \in [S -> Int]
  PROVE  \E h : IsFold(h, f, S) /\ SumFunction(f) = h[S]
<1>1. IsFold(CHOOSE h : IsFold(h, f, S), f, S)
  BY FoldExists
<1>2. SumFunction(f) = (CHOOSE h : IsFold(h, f, S))[S]
  BY Unfold DEF SumFunction
<1> QED BY <1>1, <1>2

\* The empty sum is 0.
THEOREM SumEmpty ==
  ASSUME NEW f, DOMAIN f = {}
  PROVE  SumFunction(f) = 0
<1>1. IsFiniteSet({}) BY FS_EmptySet
<1>2. SumFunctionOnSet(f, {}) = (CHOOSE h : IsFold(h, f, {}))[{}] BY Unfold
<1>3. [s \in SUBSET {} |-> 0] = [s \in SUBSET {} |-> IF s = {} THEN 0 ELSE f[Pick(s)] + [t \in SUBSET {} |-> 0][s \ {Pick(s)}]]
  OBVIOUS
<1>4. \E h : IsFold(h, f, {}) BY <1>3 DEF IsFold
<1>5. IsFold(CHOOSE h : IsFold(h, f, {}), f, {}) BY <1>4
<1> QED BY <1>2, <1>5 DEF IsFold, SumFunction

\* A finite sum of integers is an integer.
THEOREM SumType ==
  ASSUME NEW S, IsFiniteSet(S), NEW f \in [S -> Int]
  PROVE  SumFunction(f) \in Int
BY SumIsFold, FoldValue DEF FoldRules

\* A sum is one term plus the sum of the others.
THEOREM SumSplit ==
  ASSUME NEW S, IsFiniteSet(S), NEW f \in [S -> Int], NEW x \in S
  PROVE  SumFunction(f) = f[x] + SumFunction([y \in S \ {x} |-> f[y]])
<1> DEFINE R == S \ {x}
           e == [y \in R |-> f[y]]
<1>1. IsFiniteSet(R) /\ R \in SUBSET S /\ e \in [R -> Int] /\ \A y \in R : e[y] = f[y]
  BY FS_Subset
<1> HIDE DEF R, e
<1>2. PICK h : IsFold(h, f, S) /\ SumFunction(f) = h[S]
  BY SumIsFold
<1>3. PICK g : IsFold(g, e, R) /\ SumFunction(e) = g[R]
  BY <1>1, SumIsFold
<1>4. h[R] = g[R]
  BY <1>1, <1>2, <1>3, FoldUnique
<1>5. h[S] = f[x] + h[R]
  BY <1>2, FoldExchange DEF R
<1> QED BY <1>2, <1>3, <1>4, <1>5 DEF R, e

\* A finite sum of naturals is a natural.
THEOREM SumNat ==
  ASSUME NEW S, IsFiniteSet(S), NEW f \in [S -> Nat]
  PROVE  SumFunction(f) \in Nat
<1>0. f \in [S -> Int] OBVIOUS
<1>1. PICK h : IsFold(h, f, S) /\ SumFunction(f) = h[S]
  BY <1>0, SumIsFold
<1>2. FoldRules(h, f, S)
  BY <1>0, <1>1, FoldValue
<1> DEFINE G == {s \in SUBSET S : h[s] \in Nat}
<1>3. ASSUME NEW s \in SUBSET S, \A x \in s : s \ {x} \in G PROVE s \in G
  <2>1. CASE s = {}
    <3>1. h[s] = 0 BY <1>2, <2>1 DEF FoldRules
    <3> QED BY <3>1
  <2>2. CASE s # {}
    <3>1. f[Pick(s)] \in Nat /\ h[s \ {Pick(s)}] \in Nat BY <1>3, <2>2, PickIn
    <3>2. h[s] = f[Pick(s)] + h[s \ {Pick(s)}] BY <1>2, <2>2 DEF FoldRules
    <3> QED BY <3>1, <3>2
  <2> QED BY <2>1, <2>2
<1> HIDE DEF G
<1>4. \A s \in SUBSET S : s \in G
  BY <1>3, SubsetInduction
<1> QED BY <1>1, <1>4 DEF G

-----------------------------------------------------------------------------
(* Sums over a part of a function's domain. *)

\* The sum of f over S, a part of its domain.
SumOn(f, S) == SumFunction([x \in S |-> f[x]])

\* The image of a finite set is finite.
LEMMA ImageFinite ==
  ASSUME NEW S, IsFiniteSet(S), NEW b
  PROVE  IsFiniteSet({b[x] : x \in S})
<1> DEFINE T == {b[x] : x \in S}
           f == [x \in S |-> b[x]]
<1>1. f \in Surjection(S, T) BY DEF Surjection
<1> HIDE DEF T, f
<1>2. IsFiniteSet(T) BY <1>1, FS_Surjection
<1> QED BY <1>2 DEF T

\* A finite sum of integers over a part is an integer.
THEOREM SumOnInt ==
  ASSUME NEW S, IsFiniteSet(S), NEW f, \A y \in S : f[y] \in Int
  PROVE  SumOn(f, S) \in Int
<1>1. [y \in S |-> f[y]] \in [S -> Int] OBVIOUS
<1> QED BY <1>1, SumType DEF SumOn

\* A finite sum of naturals over a part is a natural.
THEOREM SumOnNat ==
  ASSUME NEW S, IsFiniteSet(S), NEW f, \A y \in S : f[y] \in Nat
  PROVE  SumOn(f, S) \in Nat
<1>1. [y \in S |-> f[y]] \in [S -> Nat] OBVIOUS
<1> QED BY <1>1, SumNat DEF SumOn

\* A sum over nothing is 0.
THEOREM SumOnEmpty == \A f : SumOn(f, {}) = 0
BY SumEmpty DEF SumOn

\* Functions that agree on S have the same sum over S.
THEOREM SumOnSame ==
  ASSUME NEW S, NEW f, NEW g, \A x \in S : f[x] = g[x]
  PROVE  SumOn(f, S) = SumOn(g, S)
<1>1. [x \in S |-> f[x]] = [x \in S |-> g[x]] OBVIOUS
<1> QED BY <1>1 DEF SumOn

\* A sum is the term of any element plus the sum over the rest.
THEOREM SumRemove ==
  ASSUME NEW S, IsFiniteSet(S), NEW f, \A y \in S : f[y] \in Int, NEW x \in S
  PROVE  SumOn(f, S) = f[x] + SumOn(f, S \ {x})
<1> DEFINE g == [y \in S |-> f[y]]
<1>1. g \in [S -> Int] /\ g[x] = f[x] /\ [y \in S \ {x} |-> g[y]] = [y \in S \ {x} |-> f[y]]
  OBVIOUS
<1> HIDE DEF g
<1>2. SumFunction(g) = g[x] + SumFunction([y \in S \ {x} |-> g[y]])
  BY <1>1, SumSplit
<1> QED BY <1>1, <1>2 DEF g, SumOn

\* A new element adds its term.
THEOREM SumAdd ==
  ASSUME NEW S, IsFiniteSet(S), NEW x, x \notin S, NEW f, \A y \in S : f[y] \in Int, f[x] \in Int
  PROVE  SumOn(f, S) \in Int /\ SumOn(f, S \cup {x}) = SumOn(f, S) + f[x]
<1> DEFINE U == S \cup {x}
           v == f[x]
           sum == SumOn(f, S)
<1>1. IsFiniteSet(U) /\ U \ {x} = S /\ x \in U BY FS_AddElement
<1>2. \A y \in U : f[y] \in Int OBVIOUS
<1>3. sum \in Int BY SumOnInt
<1>4. SumOn(f, U) = f[x] + SumOn(f, U \ {x})
  <2> HIDE DEF U
  <2> QED BY <1>1, <1>2, SumRemove
<1>5. SumOn(f, U) = v + sum /\ v \in Int BY <1>1, <1>4
<1> HIDE DEF v, sum
<1>6. v + sum = sum + v BY <1>3, <1>5
<1> QED BY <1>3, <1>5, <1>6 DEF v, sum

\* Terms k apart at most are, summed, k apart at most for each of them.
THEOREM SumWithin ==
  ASSUME NEW S, IsFiniteSet(S), NEW f, NEW g, NEW k \in Nat,
         \A x \in S : f[x] \in Int /\ g[x] \in Int /\ f[x] - g[x] \in -k .. k
  PROVE  /\ SumOn(f, S) \in Int /\ SumOn(g, S) \in Int /\ Cardinality(S) * k \in Nat
         /\ SumOn(f, S) - SumOn(g, S) \in -(Cardinality(S) * k) .. Cardinality(S) * k
<1> DEFINE Near(s) == SumOn(f, s) - SumOn(g, s) \in -(Cardinality(s) * k) .. Cardinality(s) * k
           G == {s \in SUBSET S : Near(s)}
<1>1. ASSUME NEW s \in SUBSET S, \A x \in s : s \ {x} \in G PROVE s \in G
  <2>1. CASE s = {}
    <3>1. SumOn(f, s) = 0 /\ SumOn(g, s) = 0 BY <2>1, SumOnEmpty
    <3>2. Cardinality(s) = 0 BY <2>1, FS_EmptySet
    <3>3. 0 * k = 0 OBVIOUS
    <3> QED BY <3>1, <3>2, <3>3
  <2>2. CASE s # {}
    <3>1. PICK x \in s : TRUE BY <2>2
    <3> DEFINE r == s \ {x}
               a == SumOn(f, r)
               b == SumOn(g, r)
               n == Cardinality(r)
    <3>2. IsFiniteSet(s) /\ IsFiniteSet(r) BY FS_Subset
    <3>3. \A y \in s : f[y] \in Int /\ g[y] \in Int OBVIOUS
    <3>4. SumOn(f, s) = f[x] + a /\ SumOn(g, s) = g[x] + b BY <3>2, <3>3, SumRemove
    <3>5. a \in Int /\ b \in Int BY <3>2, <3>3, SumOnInt
    <3>6. n \in Nat /\ Cardinality(s) = n + 1
      <4>1. s = r \cup {x} /\ x \notin r OBVIOUS
      <4> HIDE DEF r
      <4> QED BY <3>2, <4>1, FS_AddElement, FS_CardinalityType
    <3>7. a - b \in -(n * k) .. n * k BY <1>1
    <3>8. f[x] \in Int /\ g[x] \in Int /\ f[x] - g[x] \in -k .. k OBVIOUS
    <3> HIDE DEF a, b, n
    <3> DEFINE m == n * k
    <3>9. (n + 1) * k = m + k /\ m \in Nat BY <3>6
    <3>10. a - b \in -m .. m BY <3>7
    <3> HIDE DEF m
    <3>11. (f[x] + a) - (g[x] + b) \in -(m + k) .. m + k BY <3>5, <3>8, <3>9, <3>10
    <3> QED BY <3>4, <3>6, <3>9, <3>11
  <2> QED BY <2>1, <2>2
<1> HIDE DEF G
<1>2. \A s \in SUBSET S : s \in G BY <1>1, SubsetInduction
<1>3. Near(S) BY <1>2 DEF G
<1>4. SumOn(f, S) \in Int /\ SumOn(g, S) \in Int BY SumOnInt
<1>5. Cardinality(S) * k \in Nat
  <2>1. Cardinality(S) \in Nat BY FS_CardinalityType
  <2> QED BY <2>1
<1> QED BY <1>3, <1>4, <1>5

\* The sum of sums.
THEOREM SumPlus ==
  ASSUME NEW S, IsFiniteSet(S), NEW f, NEW g, NEW k,
         \A x \in S : f[x] \in Int /\ g[x] \in Int /\ k[x] = f[x] + g[x]
  PROVE  SumOn(k, S) = SumOn(f, S) + SumOn(g, S)
<1> DEFINE G == {s \in SUBSET S : SumOn(k, s) = SumOn(f, s) + SumOn(g, s)}
<1>1. ASSUME NEW s \in SUBSET S, \A x \in s : s \ {x} \in G PROVE s \in G
  <2>1. CASE s = {}
    <3>1. SumOn(k, s) = 0 /\ SumOn(f, s) = 0 /\ SumOn(g, s) = 0 BY <2>1, SumOnEmpty
    <3> QED BY <3>1
  <2>2. CASE s # {}
    <3>1. PICK x \in s : TRUE BY <2>2
    <3> DEFINE r == s \ {x}
    <3>2. IsFiniteSet(s) /\ IsFiniteSet(r) /\ r \subseteq S BY FS_Subset
    <3>3. \A y \in s : f[y] \in Int /\ g[y] \in Int /\ k[y] \in Int
      OBVIOUS
    <3>4. /\ SumOn(k, s) = k[x] + SumOn(k, r)
          /\ SumOn(f, s) = f[x] + SumOn(f, r)
          /\ SumOn(g, s) = g[x] + SumOn(g, r)
      BY <3>2, <3>3, SumRemove
    <3>5. SumOn(f, r) \in Int /\ SumOn(g, r) \in Int
      BY <3>2, <3>3, SumOnInt
    <3>6. SumOn(k, r) = SumOn(f, r) + SumOn(g, r)
      BY <1>1
    <3>7. \A a, b, c, d \in Int : (a + b) + (c + d) = (a + c) + (b + d) OBVIOUS
    <3> QED BY <3>3, <3>4, <3>5, <3>6, <3>7
  <2> QED BY <2>1, <2>2
<1> HIDE DEF G
<1>2. \A s \in SUBSET S : s \in G
  BY <1>1, SubsetInduction
<1> QED BY <1>2 DEF G

\* A sum over an image, taken on the arguments of a one-to-one function.
THEOREM SumImage ==
  ASSUME NEW S, IsFiniteSet(S), NEW b, \A x, y \in S : b[x] = b[y] => x = y,
         NEW g, NEW k, \A x \in S : k[x] \in Int /\ g[b[x]] = k[x]
  PROVE  SumOn(g, {b[x] : x \in S}) = SumOn(k, S)
<1> DEFINE Image(s) == {b[x] : x \in s}
           G == {s \in SUBSET S : SumOn(g, Image(s)) = SumOn(k, s)}
<1>1. ASSUME NEW s \in SUBSET S, \A x \in s : s \ {x} \in G PROVE s \in G
  <2>1. CASE s = {}
    <3>1. Image(s) = {} BY <2>1
    <3>2. SumOn(g, Image(s)) = 0 /\ SumOn(k, s) = 0 BY <2>1, <3>1, SumOnEmpty
    <3> QED BY <3>2
  <2>2. CASE s # {}
    <3>1. PICK x \in s : TRUE BY <2>2
    <3>2. IsFiniteSet(s) BY FS_Subset
    <3>3. IsFiniteSet(Image(s)) BY <3>2, ImageFinite
    <3>4. \A y \in s : k[y] \in Int OBVIOUS
    <3>5. SumOn(k, s) = k[x] + SumOn(k, s \ {x}) BY <3>2, <3>4, SumRemove
    <3>6. b[x] \in Image(s) /\ Image(s) \ {b[x]} = Image(s \ {x}) OBVIOUS
    <3>7. \A z \in Image(s) : g[z] \in Int OBVIOUS
    <3>8. SumOn(g, Image(s \ {x})) = SumOn(k, s \ {x}) BY <1>1
    <3>9. g[b[x]] = k[x] OBVIOUS
    <3> HIDE DEF Image
    <3>10. SumOn(g, Image(s)) = g[b[x]] + SumOn(g, Image(s) \ {b[x]})
      BY <3>3, <3>6, <3>7, SumRemove
    <3> QED BY <3>5, <3>6, <3>8, <3>9, <3>10
  <2> QED BY <2>1, <2>2
<1> HIDE DEF G
<1>2. \A s \in SUBSET S : s \in G
  BY <1>1, SubsetInduction
<1> QED BY <1>2 DEF G

\* The same for a one-to-one correspondence with the set T.
THEOREM SumBijection ==
  ASSUME NEW S, IsFiniteSet(S), NEW T, NEW b \in Bijection(S, T),
         NEW g, NEW k, \A x \in S : k[x] \in Int, \A x \in S : g[b[x]] = k[x]
  PROVE  SumOn(g, T) = SumOn(k, S)
<1>1. (\A x, y \in S : b[x] = b[y] => x = y) /\ T = {b[x] : x \in S}
  BY DEF Bijection, Injection, IsInjective, Surjection
<1>2. SumOn(g, {b[x] : x \in S}) = SumOn(k, S) BY <1>1, SumImage
<1> QED BY <1>1, <1>2

\* A sum of zeros is 0.
LEMMA SumOnZero ==
  ASSUME NEW S, IsFiniteSet(S), NEW f, \A x \in S : f[x] = 0
  PROVE  SumOn(f, S) = 0
<1> DEFINE G == {s \in SUBSET S : SumOn(f, s) = 0}
<1>1. ASSUME NEW s \in SUBSET S, \A x \in s : s \ {x} \in G PROVE s \in G
  <2>1. CASE s = {} BY <2>1, SumOnEmpty
  <2>2. CASE s # {}
    <3>1. PICK x \in s : TRUE BY <2>2
    <3> DEFINE r == s \ {x}
    <3>2. IsFiniteSet(s) BY FS_Subset
    <3>3. \A y \in s : f[y] \in Int OBVIOUS
    <3>4. f[x] = 0 /\ SumOn(f, r) = 0 BY <1>1
    <3>5. SumOn(f, s) = f[x] + SumOn(f, r) BY <3>2, <3>3, SumRemove
    <3> HIDE DEF r
    <3>6. SumOn(f, s) = 0 BY <3>4, <3>5
    <3> QED BY <3>6
  <2> QED BY <2>1, <2>2
<1> HIDE DEF G
<1>2. \A s \in SUBSET S : s \in G BY <1>1, SubsetInduction
<1> QED BY <1>2 DEF G

\* A one-to-one sequence of all the elements' number lists every element.
LEMMA InjectionOnto ==
  ASSUME NEW S, IsFiniteSet(S), NEW f \in [1 .. Cardinality(S) -> S],
         \A i, j \in 1 .. Cardinality(S) : f[i] = f[j] => i = j
  PROVE  S = {f[i] : i \in 1 .. Cardinality(S)}
<1> DEFINE n == Cardinality(S)
<1>1. n \in Nat BY FS_CardinalityType
<1>2. f \in [1 .. n -> S] /\ \A i, j \in 1 .. n : f[i] = f[j] => i = j OBVIOUS
<1>3. ASSUME NEW l \in S, \A i \in 1 .. n : l # f[i] PROVE FALSE
  <2>1. f \in Injection(1 .. n, S \ {l}) BY <1>2, <1>3 DEF Injection, IsInjective
  <2>2. IsFiniteSet(S \ {l}) /\ Cardinality(S \ {l}) = n - 1
    BY FS_RemoveElement
  <2>3. IsFiniteSet(1 .. n) /\ Cardinality(1 .. n) = n
    BY <1>1, FS_Interval
  <2>4. Cardinality(1 .. n) <= Cardinality(S \ {l})
    BY <2>1, <2>2, FS_Injection
  <2> QED BY <1>1, <2>2, <2>3, <2>4
<1> QED BY <1>2, <1>3

\* A sum grows with its terms.
THEOREM SumLe ==
  ASSUME NEW S, IsFiniteSet(S), NEW f, NEW g,
         \A x \in S : f[x] \in Int /\ g[x] \in Int /\ f[x] <= g[x]
  PROVE  SumOn(f, S) <= SumOn(g, S)
<1> DEFINE gap == [x \in S |-> g[x] - f[x]]
<1>1. \A x \in S : gap[x] \in Nat /\ g[x] = f[x] + gap[x] OBVIOUS
<1> HIDE DEF gap
<1>2. SumOn(g, S) = SumOn(f, S) + SumOn(gap, S) BY <1>1, SumPlus
<1>3. SumOn(f, S) \in Int BY SumOnInt
<1>4. SumOn(gap, S) \in Nat BY <1>1, SumOnNat
<1> QED BY <1>2, <1>3, <1>4

\* A common factor comes out of a sum.
THEOREM SumScale ==
  ASSUME NEW S, IsFiniteSet(S), NEW c \in Int, NEW f, NEW k,
         \A x \in S : f[x] \in Int /\ k[x] = c * f[x]
  PROVE  SumOn(k, S) = c * SumOn(f, S)
<1> DEFINE G == {s \in SUBSET S : SumOn(k, s) = c * SumOn(f, s)}
<1>1. ASSUME NEW s \in SUBSET S, \A x \in s : s \ {x} \in G PROVE s \in G
  <2>1. CASE s = {}
    <3>1. SumOn(k, s) = 0 /\ SumOn(f, s) = 0 BY <2>1, SumOnEmpty
    <3> QED BY <3>1
  <2>2. CASE s # {}
    <3>1. PICK x \in s : TRUE BY <2>2
    <3> DEFINE r == s \ {x}
    <3>2. IsFiniteSet(s) /\ IsFiniteSet(r) /\ r \subseteq S BY FS_Subset
    <3>3. \A y \in s : f[y] \in Int /\ k[y] \in Int OBVIOUS
    <3>4. SumOn(k, s) = k[x] + SumOn(k, r) /\ SumOn(f, s) = f[x] + SumOn(f, r)
      BY <3>2, <3>3, SumRemove
    <3>5. SumOn(f, r) \in Int BY <3>2, <3>3, SumOnInt
    <3>6. SumOn(k, r) = c * SumOn(f, r) BY <1>1
    <3>7. \A a, b \in Int : c * (a + b) = c * a + c * b OBVIOUS
    <3> QED BY <3>3, <3>4, <3>5, <3>6, <3>7
  <2> QED BY <2>1, <2>2
<1> HIDE DEF G
<1>2. \A s \in SUBSET S : s \in G BY <1>1, SubsetInduction
<1> QED BY <1>2 DEF G

\* Terms that are 0 may be left out.
THEOREM SumSupport ==
  ASSUME NEW S, IsFiniteSet(S), NEW T, NEW f, \A x \in S : f[x] \in Int,
         \A x \in S \ T : f[x] = 0
  PROVE  SumOn(f, S) = SumOn(f, S \cap T)
<1> DEFINE G == {s \in SUBSET S : SumOn(f, s) = SumOn(f, s \cap T)}
<1>1. ASSUME NEW s \in SUBSET S, \A x \in s : s \ {x} \in G PROVE s \in G
  <2>1. CASE s \subseteq T
    <3>1. s \cap T = s BY <2>1
    <3> QED BY <3>1
  <2>2. CASE ~(s \subseteq T)
    <3>1. PICK x \in s : x \notin T BY <2>2
    <3> DEFINE r == s \ {x}
    <3>2. IsFiniteSet(s) /\ IsFiniteSet(r) BY FS_Subset
    <3>3. \A y \in s : f[y] \in Int OBVIOUS
    <3>4. f[x] = 0 BY <3>1
    <3>5. SumOn(f, r) = SumOn(f, r \cap T) BY <1>1
    <3>6. r \cap T = s \cap T BY <3>1
    <3>7. SumOn(f, s) = f[x] + SumOn(f, r) BY <3>2, <3>3, SumRemove
    <3>8. SumOn(f, r) \in Int BY <3>2, <3>3, SumOnInt
    <3>9. SumOn(f, s) = SumOn(f, s \cap T)
      <4>1. \A a \in Int : 0 + a = a OBVIOUS
      <4>2. SumOn(f, s) = SumOn(f, r) BY <3>4, <3>7, <3>8, <4>1
      <4> QED BY <3>5, <3>6, <4>2
    <3> QED BY <3>9
  <2> QED BY <2>1, <2>2
<1> HIDE DEF G
<1>2. \A s \in SUBSET S : s \in G BY <1>1, SubsetInduction
<1> QED BY <1>2 DEF G

\* A sum over two sets without a common element.
THEOREM SumDisjoint ==
  ASSUME NEW S, IsFiniteSet(S), NEW T, IsFiniteSet(T), S \cap T = {},
         NEW f, \A x \in S \cup T : f[x] \in Int
  PROVE  SumOn(f, S \cup T) = SumOn(f, S) + SumOn(f, T)
<1> DEFINE U == S \cup T
           g == [x \in U |-> IF x \in S THEN f[x] ELSE 0]
           h == [x \in U |-> IF x \in T THEN f[x] ELSE 0]
<1>1. IsFiniteSet(U) BY FS_Union
<1>2. /\ \A x \in U : g[x] \in Int /\ h[x] \in Int /\ f[x] = g[x] + h[x]
      /\ \A x \in U \ S : g[x] = 0
      /\ \A x \in U \ T : h[x] = 0
      /\ \A x \in S : g[x] = f[x]
      /\ \A x \in T : h[x] = f[x]
  OBVIOUS
<1>3. U \cap S = S /\ U \cap T = T OBVIOUS
<1> HIDE DEF U, g, h
<1>4. SumOn(f, U) = SumOn(g, U) + SumOn(h, U) BY <1>1, <1>2, SumPlus
<1>5. SumOn(g, U) = SumOn(g, U \cap S) BY <1>1, <1>2, SumSupport
<1>6. SumOn(h, U) = SumOn(h, U \cap T) BY <1>1, <1>2, SumSupport
<1>7. SumOn(g, S) = SumOn(f, S) BY <1>2, SumOnSame
<1>8. SumOn(h, T) = SumOn(f, T) BY <1>2, SumOnSame
<1> QED BY <1>3, <1>4, <1>5, <1>6, <1>7, <1>8 DEF U

\* A sum taken class by class.
THEOREM SumClasses ==
  ASSUME NEW S, IsFiniteSet(S), NEW D, IsFiniteSet(D), NEW class,
         \A x \in S : class[x] \subseteq D,
         \A x, y \in S : x # y => class[x] \cap class[y] = {},
         NEW f, \A d \in D : f[d] \in Int,
         NEW k, \A x \in S : k[x] = SumOn(f, class[x])
  PROVE  SumOn(k, S) = SumOn(f, UNION {class[x] : x \in S})
<1> DEFINE All(s) == UNION {class[x] : x \in s}
           G == {s \in SUBSET S : SumOn(k, s) = SumOn(f, All(s))}
<1>1. \A x \in S : IsFiniteSet(class[x]) /\ k[x] \in Int
  <2> TAKE x \in S
  <2>1. IsFiniteSet(class[x]) BY FS_Subset
  <2>2. \A d \in class[x] : f[d] \in Int OBVIOUS
  <2>3. SumOn(f, class[x]) \in Int BY <2>1, <2>2, SumOnInt
  <2> QED BY <2>1, <2>3
<1>2. ASSUME NEW s \in SUBSET S, \A x \in s : s \ {x} \in G PROVE s \in G
  <2>1. CASE s = {}
    <3>1. All(s) = {} BY <2>1
    <3>2. SumOn(k, s) = 0 /\ SumOn(f, All(s)) = 0 BY <2>1, <3>1, SumOnEmpty
    <3> QED BY <3>2
  <2>2. CASE s # {}
    <3>1. PICK x \in s : TRUE BY <2>2
    <3> DEFINE r == s \ {x}
    <3>2. IsFiniteSet(s) BY FS_Subset
    <3>3. \A y \in s : k[y] \in Int BY <1>1
    <3>4. SumOn(k, s) = k[x] + SumOn(k, r) BY <3>2, <3>3, SumRemove
    <3>5. SumOn(k, r) = SumOn(f, All(r)) BY <1>2
    <3>6. All(s) = class[x] \cup All(r) /\ class[x] \cap All(r) = {} OBVIOUS
    <3>7. All(r) \subseteq D /\ class[x] \subseteq D OBVIOUS
    <3>8. IsFiniteSet(All(r)) /\ IsFiniteSet(class[x]) BY <3>7, FS_Subset
    <3>9. \A d \in class[x] \cup All(r) : f[d] \in Int BY <3>7
    <3>10. k[x] = SumOn(f, class[x]) OBVIOUS
    <3> HIDE DEF All, r
    <3>11. SumOn(f, class[x] \cup All(r)) = SumOn(f, class[x]) + SumOn(f, All(r))
      BY <3>6, <3>8, <3>9, SumDisjoint
    <3> QED BY <3>4, <3>5, <3>6, <3>10, <3>11
  <2> QED BY <2>1, <2>2
<1> HIDE DEF G
<1>3. \A s \in SUBSET S : s \in G BY <1>2, SubsetInduction
<1> QED BY <1>3 DEF G
=============================================================================
