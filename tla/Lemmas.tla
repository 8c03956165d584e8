------------------------------- MODULE Lemmas -------------------------------
(***************************************************************************)
(* What the proofs about several modules need of numbers and finite sets:  *)
(* induction with a set for the predicate, functions defined by recursion, *)
(* and the sums of Functions.tla, which are folds.                         *)
(***************************************************************************)
EXTENDS Integers, Functions, FiniteSetTheorems, WellFoundedInduction, TLAPS

-----------------------------------------------------------------------------
(* Induction over the natural numbers, with a set for the predicate.       *)

\* A set of numbers that is not empty has a least one.
LEMMA Least ==
    ASSUME NEW S \in SUBSET Nat, S # {}
    PROVE  \E x \in S : \A y \in S : x <= y
<1> DEFINE R == OpToRel(<, Nat)
<1>1. IsWellFoundedOn(R, Nat)
  BY NatLessThanWellFounded
<1>2. \A x, y \in Nat : x < y => <<x, y>> \in R
  BY DEF OpToRel
<1> HIDE DEF R
<1>3. PICK x \in S : \A y \in S : ~(<<y, x>> \in R)
  BY <1>1, WFMin
<1>4. ASSUME NEW y \in S PROVE x <= y
  <2>1. x \in Nat /\ y \in Nat /\ ~(y < x)
    BY <1>2, <1>3
  <2> QED
    BY <2>1
<1> QED
  BY <1>4

\* A set that holds 0 and, with a number below n, the next one, holds 0 .. n.
LEMMA UpTo ==
    ASSUME NEW S, NEW n \in Nat, 0 \in S,
           \A k \in 0 .. n - 1 : k \in S => k + 1 \in S
    PROVE  \A k \in 0 .. n : k \in S
<1> SUFFICES ASSUME {k \in 0 .. n : k \notin S} # {} PROVE FALSE
  OBVIOUS
<1>1. PICK k \in {k \in 0 .. n : k \notin S} : \A j \in {j \in 0 .. n : j \notin S} : k <= j
  <2>1. {k \in 0 .. n : k \notin S} \in SUBSET Nat
    OBVIOUS
  <2> QED
    BY <2>1, Least
<1>2. k # 0 /\ k - 1 \in 0 .. n - 1 /\ k - 1 \in S
  BY <1>1
<1> QED
  BY <1>1, <1>2

\* f starts with a and goes on by D up to n.
Unrolls(f, a, D, n) == f[0] = a /\ \A k \in 1 .. n : f[k] = D[<<f[k - 1], k>>]

\* A function defined by recursion along the numbers exists.
LEMMA Recursion ==
    ASSUME NEW V, NEW a \in V, NEW n \in Nat, NEW D,
           \A v \in V, k \in 1 .. n : D[<<v, k>>] \in V
    PROVE  \E f \in [0 .. n -> V] : Unrolls(f, a, D, n)
<1> DEFINE Good(k, f) == f[0] = a /\ \A j \in 1 .. k : f[j] = D[<<f[j - 1], j>>]
           S == {k \in 0 .. n : \E f \in [0 .. n -> V] : Good(k, f)}
<1>1. 0 \in S
  <2> DEFINE g == [k \in 0 .. n |-> a]
  <2>1. g \in [0 .. n -> V] /\ g[0] = a /\ 1 .. 0 = {}
    OBVIOUS
  <2>2. Good(0, g)
    BY <2>1
  <2> HIDE DEF g
  <2> QED
    BY <2>1, <2>2
<1>2. ASSUME NEW k \in 0 .. n - 1, k \in S PROVE k + 1 \in S
  <2>1. PICK f \in [0 .. n -> V] : Good(k, f)
    BY <1>2
  <2> DEFINE g == [f EXCEPT ![k + 1] = D[<<f[k], k + 1>>]]
  <2>2. f[k] \in V /\ k + 1 \in 1 .. n /\ k \in 0 .. n
    OBVIOUS
  <2>3. D[<<f[k], k + 1>>] \in V
    BY <2>2
  <2>4. g \in [0 .. n -> V] /\ g[k + 1] = D[<<f[k], k + 1>>]
    BY <2>2, <2>3
  <2>5. \A j \in 0 .. k : g[j] = f[j]
    BY <2>2
  <2> HIDE DEF g
  <2>6. g[0] = a
    BY <2>1, <2>5
  <2>7. ASSUME NEW j \in 1 .. k + 1 PROVE g[j] = D[<<g[j - 1], j>>]
    <3>1. CASE j \in 1 .. k
      <4>1. j \in 0 .. k /\ j - 1 \in 0 .. k
        BY <3>1
      <4> QED
        BY <2>1, <2>5, <3>1, <4>1
    <3>2. CASE j = k + 1
      <4>1. j - 1 = k /\ k \in 0 .. k
        BY <3>2
      <4>2. g[j - 1] = f[k]
        BY <2>5, <4>1
      <4> QED
        BY <2>4, <4>2, <3>2
    <3> QED
      BY <3>1, <3>2
  <2> QED
    BY <2>2, <2>4, <2>6, <2>7
<1>3. n \in S
  <2> HIDE DEF S
  <2>1. \A k \in 0 .. n : k \in S
    BY <1>1, <1>2, UpTo
  <2> QED
    BY <2>1
<1> QED
  BY <1>3 DEF Unrolls

-----------------------------------------------------------------------------
(* Sums over finite sets.                                                  *)

\* The element the fold takes next, and a function that computes the fold.
Taken(s) == CHOOSE x \in s : TRUE
Computes(g, f, S) ==
    g = [s \in SUBSET S |-> IF s = {} THEN 0 ELSE f[Taken(s)] + g[s \ {Taken(s)}]]

\* The sum is what such a function, if any, computes.
LEMMA SumUnfolds ==
    ASSUME NEW f, NEW S
    PROVE  SumFunctionOnSet(f, S) = (CHOOSE g : Computes(g, f, S))[S]
  BY DEF SumFunctionOnSet, FoldFunctionOnSet, MapThenFoldSet, Taken, Computes

\* A finite set loses one when it loses an element.
LEMMA OneLess ==
    ASSUME NEW s, IsFiniteSet(s), NEW x \in s
    PROVE  /\ IsFiniteSet(s \ {x}) /\ Cardinality(s \ {x}) = Cardinality(s) - 1
           /\ Cardinality(s) \in Nat \ {0}
<1>1. Cardinality(s) \in Nat /\ Cardinality(s) # 0
  BY FS_CardinalityType, FS_EmptySet
<1> QED
  BY <1>1, FS_RemoveElement

LEMMA TakesOne == ASSUME NEW s, s # {} PROVE Taken(s) \in s
  BY DEF Taken

\* A set that holds {} and, with a subset of S, every subset larger by one
\* element, holds every subset of S.
LEMMA Subsets ==
    ASSUME NEW S, IsFiniteSet(S), NEW P, {} \in P,
           \A s \in SUBSET S, x \in S : x \notin s /\ s \in P => s \cup {x} \in P
    PROVE  \A s \in SUBSET S : s \in P
<1> DEFINE N == Cardinality(S)
           K == {k \in 0 .. N : \A s \in SUBSET S : Cardinality(s) <= k => s \in P}
<1>1. \A s \in SUBSET S : IsFiniteSet(s) /\ Cardinality(s) \in 0 .. N
  BY FS_Subset, FS_CardinalityType
<1>2. N \in Nat
  BY FS_CardinalityType
<1>3. 0 \in K
  <2> SUFFICES ASSUME NEW s \in SUBSET S, Cardinality(s) <= 0 PROVE s \in P
    BY <1>2
  <2>1. Cardinality(s) = 0
    BY <1>1
  <2>2. s = {}
    BY <1>1, <2>1, FS_EmptySet
  <2> QED
    BY <2>2
<1>4. ASSUME NEW k \in 0 .. N - 1, k \in K PROVE k + 1 \in K
  <2> SUFFICES ASSUME NEW s \in SUBSET S, Cardinality(s) <= k + 1 PROVE s \in P
    BY <1>2
  <2>1. CASE s = {}
    BY <2>1
  <2>2. CASE s # {}
    <3>1. PICK x \in s : TRUE
      BY <2>2
    <3>2. Cardinality(s \ {x}) = Cardinality(s) - 1 /\ Cardinality(s) \in Nat
      BY <1>1, OneLess
    <3>3. s \ {x} \in P
      BY <1>4, <3>2
    <3>4. s = (s \ {x}) \cup {x} /\ x \notin s \ {x} /\ s \ {x} \in SUBSET S /\ x \in S
      BY <3>1
    <3> QED
      BY <3>3, <3>4
  <2> QED
    BY <2>1, <2>2
<1>5. \A k \in 0 .. N : k \in K
  <2> HIDE DEF K, N
  <2> QED
    BY <1>2, <1>3, <1>4, UpTo
<1>6. N \in K
  BY <1>2, <1>5
<1> QED
  BY <1>1, <1>6

\* Such a function exists.
LEMMA FoldsExist ==
    ASSUME NEW S, IsFiniteSet(S), NEW f, \A x \in S : f[x] \in Int
    PROVE  \E g \in [SUBSET S -> Int] : Computes(g, f, S)
<1> DEFINE N == Cardinality(S)
           Rest(g, s) == IF s = {} THEN 0 ELSE f[Taken(s)] + g[s \ {Taken(s)}]
           K == {k \in 0 .. N : \E g \in [SUBSET S -> Int] :
                   \A s \in SUBSET S : Cardinality(s) <= k => g[s] = Rest(g, s)}
<1>1. N \in Nat /\ \A s \in SUBSET S : IsFiniteSet(s) /\ Cardinality(s) \in 0 .. N
  BY FS_Subset, FS_CardinalityType
<1>2. ASSUME NEW g \in [SUBSET S -> Int], NEW s \in SUBSET S PROVE Rest(g, s) \in Int
  <2>1. CASE s = {}
    BY <2>1
  <2>2. CASE s # {}
    <3>1. Taken(s) \in S /\ s \ {Taken(s)} \in SUBSET S
      BY <2>2, TakesOne
    <3>2. f[Taken(s)] \in Int /\ g[s \ {Taken(s)}] \in Int
      BY <3>1
    <3> QED
      BY <2>2, <3>2
  <2> QED
    BY <2>1, <2>2
<1>3. 0 \in K
  <2> DEFINE g == [s \in SUBSET S |-> 0]
  <2>1. g \in [SUBSET S -> Int]
    OBVIOUS
  <2>2. ASSUME NEW s \in SUBSET S, Cardinality(s) <= 0 PROVE g[s] = Rest(g, s)
    <3>1. Cardinality(s) = 0
      BY <1>1, <2>2
    <3>2. s = {}
      BY <1>1, <3>1, FS_EmptySet
    <3> QED
      BY <3>2
  <2> HIDE DEF g, Rest
  <2> QED
    BY <1>1, <2>1, <2>2
<1>4. ASSUME NEW k \in 0 .. N - 1, k \in K PROVE k + 1 \in K
  <2>1. PICK g \in [SUBSET S -> Int] :
               \A s \in SUBSET S : Cardinality(s) <= k => g[s] = Rest(g, s)
    BY <1>4
  <2> DEFINE h == [s \in SUBSET S |-> Rest(g, s)]
  <2>2. h \in [SUBSET S -> Int] /\ \A s \in SUBSET S : h[s] = Rest(g, s)
    BY <1>2
  <2> HIDE DEF h
  <2>3. ASSUME NEW s \in SUBSET S, Cardinality(s) <= k + 1 PROVE h[s] = Rest(h, s)
    <3>1. CASE s = {}
      BY <2>2, <3>1
    <3>2. CASE s # {}
      <4>1. /\ Taken(s) \in s /\ s \ {Taken(s)} \in SUBSET S
            /\ Cardinality(s \ {Taken(s)}) = Cardinality(s) - 1 /\ Cardinality(s) \in Nat
        BY <1>1, <3>2, TakesOne, OneLess
      <4>2. Cardinality(s \ {Taken(s)}) <= k
        BY <1>1, <2>3, <4>1
      <4>3. h[s \ {Taken(s)}] = g[s \ {Taken(s)}]
        <5> HIDE DEF Rest
        <5> QED
          BY <2>1, <2>2, <4>1, <4>2
      <4> QED
        BY <2>2, <3>2, <4>3
    <3> QED
      BY <3>1, <3>2
  <2> HIDE DEF Rest
  <2>4. k + 1 \in 0 .. N
    BY <1>1
  <2> QED
    BY <2>2, <2>3, <2>4
<1>5. \A k \in 0 .. N : k \in K
  <2> HIDE DEF K, N
  <2> QED
    BY <1>1, <1>3, <1>4, UpTo
<1>6. PICK g \in [SUBSET S -> Int] :
             \A s \in SUBSET S : Cardinality(s) <= N => g[s] = Rest(g, s)
  BY <1>1, <1>5
<1>7. \A s \in SUBSET S : g[s] = Rest(g, s)
  <2> HIDE DEF Rest, N
  <2> QED
    BY <1>1, <1>6
<1>8. g = [s \in SUBSET S |-> Rest(g, s)]
  <2> HIDE DEF Rest
  <2> QED
    BY <1>7
<1> QED
  BY <1>8 DEF Computes

\* Two such functions, even of different functions and sets, agree where those do.
LEMMA FoldsAgree ==
    ASSUME NEW S, IsFiniteSet(S), NEW T, NEW R, NEW U, S \subseteq R, S \subseteq U,
           NEW f, NEW e, \A x \in S : f[x] = e[x],
           NEW g, NEW h, Computes(g, f, R), Computes(h, e, U)
    PROVE  g[S] = h[S]
<1> DEFINE N == Cardinality(S)
           K == {k \in 0 .. N : \A s \in SUBSET S : Cardinality(s) <= k => g[s] = h[s]}
<1>1. N \in Nat /\ \A s \in SUBSET S : IsFiniteSet(s) /\ Cardinality(s) \in 0 .. N
  BY FS_Subset, FS_CardinalityType
<1>2. \A s \in SUBSET S :
         /\ g[s] = IF s = {} THEN 0 ELSE f[Taken(s)] + g[s \ {Taken(s)}]
         /\ h[s] = IF s = {} THEN 0 ELSE e[Taken(s)] + h[s \ {Taken(s)}]
  BY DEF Computes
<1>3. 0 \in K
  <2> SUFFICES ASSUME NEW s \in SUBSET S, Cardinality(s) <= 0 PROVE g[s] = h[s]
    BY <1>1
  <2>1. Cardinality(s) = 0
    BY <1>1
  <2>2. s = {}
    BY <1>1, <2>1, FS_EmptySet
  <2> QED
    BY <1>2, <2>2
<1>4. ASSUME NEW k \in 0 .. N - 1, k \in K PROVE k + 1 \in K
  <2> SUFFICES ASSUME NEW s \in SUBSET S, Cardinality(s) <= k + 1 PROVE g[s] = h[s]
    BY <1>1
  <2>1. CASE s = {}
    BY <1>2, <2>1
  <2>2. CASE s # {}
    <3>1. /\ Taken(s) \in s /\ s \ {Taken(s)} \in SUBSET S
          /\ Cardinality(s \ {Taken(s)}) = Cardinality(s) - 1 /\ Cardinality(s) \in Nat
      BY <1>1, <2>2, TakesOne, OneLess
    <3>2. Cardinality(s \ {Taken(s)}) <= k
      BY <1>1, <3>1
    <3>3. g[s \ {Taken(s)}] = h[s \ {Taken(s)}]
      BY <1>4, <3>1, <3>2
    <3>4. f[Taken(s)] = e[Taken(s)]
      BY <3>1
    <3> QED
      BY <1>2, <2>2, <3>3, <3>4
  <2> QED
    BY <2>1, <2>2
<1>5. \A k \in 0 .. N : k \in K
  <2> HIDE DEF K, N
  <2> QED
    BY <1>1, <1>3, <1>4, UpTo
<1> QED
  BY <1>1, <1>5

\* So the sum of a set is what such a function says of it.
LEMMA SumFolds ==
    ASSUME NEW S, IsFiniteSet(S), NEW f, \A x \in S : f[x] \in Int
    PROVE  \E g \in [SUBSET S -> Int] : Computes(g, f, S) /\ SumFunctionOnSet(f, S) = g[S]
<1> DEFINE g == CHOOSE g : Computes(g, f, S)
<1>1. PICK h \in [SUBSET S -> Int] : Computes(h, f, S)
  BY FoldsExist
<1>2. Computes(g, f, S)
  BY <1>1
<1>3. SumFunctionOnSet(f, S) = g[S]
  BY SumUnfolds
<1> HIDE DEF g
<1>4. h[S] = g[S]
  BY <1>1, <1>2, FoldsAgree
<1> QED
  BY <1>1, <1>3, <1>4

\* A sum of integers is one, and that of nothing is 0.
LEMMA SumType ==
    ASSUME NEW S, IsFiniteSet(S), NEW f, \A x \in S : f[x] \in Int
    PROVE  SumFunctionOnSet(f, S) \in Int
<1>1. PICK g \in [SUBSET S -> Int] : SumFunctionOnSet(f, S) = g[S]
  BY SumFolds
<1>2. S \in SUBSET S
  OBVIOUS
<1> QED
  BY <1>1, <1>2

LEMMA SumEmpty == ASSUME NEW f PROVE SumFunctionOnSet(f, {}) = 0
<1>1. IsFiniteSet({}) /\ \A x \in {} : f[x] \in Int
  BY FS_EmptySet
<1>2. PICK g \in [SUBSET {} -> Int] : Computes(g, f, {}) /\ SumFunctionOnSet(f, {}) = g[{}]
  BY <1>1, SumFolds
<1>3. g[{}] = 0
  BY <1>2 DEF Computes
<1> QED
  BY <1>2, <1>3

\* A sum depends on the values of the set only.
LEMMA SumSame ==
    ASSUME NEW S, IsFiniteSet(S), NEW f, NEW e, \A x \in S : f[x] \in Int /\ e[x] = f[x]
    PROVE  SumFunctionOnSet(f, S) = SumFunctionOnSet(e, S)
<1>1. PICK g \in [SUBSET S -> Int] : Computes(g, f, S) /\ SumFunctionOnSet(f, S) = g[S]
  BY SumFolds
<1>2. PICK h \in [SUBSET S -> Int] : Computes(h, e, S) /\ SumFunctionOnSet(e, S) = h[S]
  <2>1. \A x \in S : e[x] \in Int
    OBVIOUS
  <2> QED
    BY <2>1, SumFolds
<1>3. g[S] = h[S]
  BY <1>1, <1>2, FoldsAgree
<1> QED
  BY <1>1, <1>2, <1>3

\* Any element may be taken out of a sum.
LEMMA SumTake ==
    ASSUME NEW S, IsFiniteSet(S), NEW f, \A x \in S : f[x] \in Int, NEW x \in S
    PROVE  SumFunctionOnSet(f, S) = f[x] + SumFunctionOnSet(f, S \ {x})
<1> DEFINE N == Cardinality(S)
           Sum(s) == SumFunctionOnSet(f, s)
           Takes(s) == \A y \in s : Sum(s) = f[y] + Sum(s \ {y})
           K == {k \in 0 .. N : \A s \in SUBSET S : Cardinality(s) <= k => Takes(s)}
<1>1. N \in Nat /\ \A s \in SUBSET S : IsFiniteSet(s) /\ Cardinality(s) \in 0 .. N
  BY FS_Subset, FS_CardinalityType
<1>2. \A s \in SUBSET S : Sum(s) \in Int
  BY <1>1, SumType
<1>3. ASSUME NEW s \in SUBSET S, s # {} PROVE Sum(s) = f[Taken(s)] + Sum(s \ {Taken(s)})
  <2> DEFINE r == s \ {Taken(s)}
  <2>1. /\ IsFiniteSet(s) /\ IsFiniteSet(r) /\ r \subseteq s
        /\ \A y \in s : f[y] \in Int
        /\ \A y \in r : f[y] \in Int
    BY <1>1
  <2>2. PICK g \in [SUBSET s -> Int] : Computes(g, f, s) /\ Sum(s) = g[s]
    BY <2>1, SumFolds
  <2>3. PICK h \in [SUBSET r -> Int] : Computes(h, f, r) /\ Sum(r) = h[r]
    <3> HIDE DEF r
    <3> QED
      BY <2>1, SumFolds
  <2>4. g[s] = f[Taken(s)] + g[r]
    BY <1>3, <2>2 DEF Computes
  <2>5. g[r] = h[r]
    <3> HIDE DEF r
    <3> QED
      BY <2>1, <2>2, <2>3, FoldsAgree
  <2> QED
    BY <2>2, <2>3, <2>4, <2>5
<1> HIDE DEF Sum
<1>4. 0 \in K
  <2> SUFFICES ASSUME NEW s \in SUBSET S, Cardinality(s) <= 0, NEW y \in s PROVE FALSE
    BY <1>1
  <2> QED
    BY <1>1, FS_EmptySet
<1>5. ASSUME NEW k \in 0 .. N - 1, k \in K PROVE k + 1 \in K
  <2> SUFFICES ASSUME NEW s \in SUBSET S, Cardinality(s) <= k + 1, NEW y \in s
               PROVE  Sum(s) = f[y] + Sum(s \ {y})
    BY <1>1
  <2> DEFINE p == Taken(s)
  <2>1. p \in s /\ Sum(s) = f[p] + Sum(s \ {p})
    BY <1>3, TakesOne
  <2> HIDE DEF p
  <2>2. CASE y = p
    BY <2>1, <2>2
  <2>3. CASE y # p
    <3>1. /\ Cardinality(s \ {p}) = Cardinality(s) - 1 /\ Cardinality(s \ {y}) = Cardinality(s) - 1
          /\ Cardinality(s) \in Nat
      BY <1>1, <2>1, OneLess
    <3>2. Takes(s \ {p}) /\ Takes(s \ {y})
      BY <1>5, <3>1
    <3>3. (s \ {p}) \ {y} = (s \ {y}) \ {p} /\ y \in s \ {p} /\ p \in s \ {y}
      BY <2>1, <2>3
    <3>4. /\ Sum(s \ {p}) = f[y] + Sum((s \ {p}) \ {y})
          /\ Sum(s \ {y}) = f[p] + Sum((s \ {p}) \ {y})
      BY <3>2, <3>3
    <3>5. f[y] \in Int /\ f[p] \in Int /\ Sum((s \ {p}) \ {y}) \in Int
      BY <1>2, <2>1
    <3> QED
      BY <2>1, <3>4, <3>5
  <2> QED
    BY <2>2, <2>3
<1>6. \A k \in 0 .. N : k \in K
  <2> HIDE DEF K, N
  <2> QED
    BY <1>1, <1>4, <1>5, UpTo
<1>7. Takes(S)
  BY <1>1, <1>6
<1> QED
  BY <1>7 DEF Sum

\* A sum gains what an element brings.
LEMMA SumAdd ==
    ASSUME NEW S, IsFiniteSet(S), NEW f, NEW x, x \notin S, \A y \in S \cup {x} : f[y] \in Int
    PROVE  SumFunctionOnSet(f, S \cup {x}) = f[x] + SumFunctionOnSet(f, S)
<1>1. IsFiniteSet(S \cup {x}) /\ (S \cup {x}) \ {x} = S
  BY FS_AddElement
<1> QED
  BY <1>1, SumTake

\* Sums of what is less, element by element, are.
LEMMA SumAtMost ==
    ASSUME NEW S, IsFiniteSet(S), NEW f, NEW g,
           \A x \in S : f[x] \in Int /\ g[x] \in Int /\ f[x] <= g[x]
    PROVE  SumFunctionOnSet(f, S) <= SumFunctionOnSet(g, S)
<1> DEFINE P == {s \in SUBSET S : SumFunctionOnSet(f, s) <= SumFunctionOnSet(g, s)}
<1>1. {} \in P
  BY SumEmpty
<1>2. ASSUME NEW s \in SUBSET S, NEW x \in S, x \notin s, s \in P PROVE s \cup {x} \in P
  <2> DEFINE F == SumFunctionOnSet(f, s)
             G == SumFunctionOnSet(g, s)
  <2>1. IsFiniteSet(s) /\ \A y \in s \cup {x} : f[y] \in Int /\ g[y] \in Int
    BY FS_Subset
  <2>2. /\ SumFunctionOnSet(f, s \cup {x}) = f[x] + F
        /\ SumFunctionOnSet(g, s \cup {x}) = g[x] + G
    BY <1>2, <2>1, SumAdd
  <2>3. F \in Int /\ G \in Int
    BY <2>1, SumType
  <2>4. F <= G
    BY <1>2
  <2> HIDE DEF F, G
  <2> QED
    BY <2>2, <2>3, <2>4
<1>3. \A s \in SUBSET S : s \in P
  <2> HIDE DEF P
  <2> QED
    BY <1>1, <1>2, Subsets
<1> QED
  BY <1>3

\* The sum of c * f[x] + d.
LEMMA SumLinear ==
    ASSUME NEW S, IsFiniteSet(S), NEW f, NEW g, NEW c \in Int, NEW d \in Int,
           \A x \in S : f[x] \in Int /\ g[x] = c * f[x] + d
    PROVE  SumFunctionOnSet(g, S) = c * SumFunctionOnSet(f, S) + d * Cardinality(S)
<1> DEFINE P == {s \in SUBSET S : SumFunctionOnSet(g, s)
                                    = c * SumFunctionOnSet(f, s) + d * Cardinality(s)}
<1>1. {} \in P
  BY SumEmpty, FS_EmptySet
<1>2. ASSUME NEW s \in SUBSET S, NEW x \in S, x \notin s, s \in P PROVE s \cup {x} \in P
  <2> DEFINE F == SumFunctionOnSet(f, s)
             G == SumFunctionOnSet(g, s)
             n == Cardinality(s)
  <2>1. IsFiniteSet(s) /\ \A y \in s \cup {x} : f[y] \in Int /\ g[y] \in Int
    BY FS_Subset
  <2>2. /\ SumFunctionOnSet(f, s \cup {x}) = f[x] + F
        /\ SumFunctionOnSet(g, s \cup {x}) = g[x] + G
    BY <1>2, <2>1, SumAdd
  <2>3. F \in Int /\ G \in Int /\ n \in Nat /\ Cardinality(s \cup {x}) = n + 1
    BY <1>2, <2>1, SumType, FS_CardinalityType, FS_AddElement
  <2>4. G = c * F + d * n /\ g[x] = c * f[x] + d /\ f[x] \in Int
    BY <1>2
  <2> HIDE DEF F, G, n
  <2>5. c * (f[x] + F) = c * f[x] + c * F /\ d * (n + 1) = d * n + d
    <3>1. \A u, v, w \in Int : w * (u + v) = w * u + w * v
      OBVIOUS
    <3>2. d * (n + 1) = d * n + d * 1 /\ d * 1 = d
      BY <2>3, <3>1
    <3> QED
      BY <2>3, <2>4, <3>1, <3>2
  <2>6. g[x] + G = c * (f[x] + F) + d * (n + 1)
    BY <2>3, <2>4, <2>5
  <2> QED
    BY <2>2, <2>3, <2>6
<1>3. \A s \in SUBSET S : s \in P
  <2> HIDE DEF P
  <2> QED
    BY <1>1, <1>2, Subsets
<1> QED
  BY <1>3
=============================================================================
