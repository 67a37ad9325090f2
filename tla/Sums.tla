--------------------------------- MODULE Sums ---------------------------------
(***************************************************************************)
(* Facts about MapThenSumSet, with which Network, CpuWindow and            *)
(* OverviewSample add counters up.  It is a recursion over the subsets of  *)
(* a finite set; what is said of it for every set is proved by taking a    *)
(* smallest subset without it.                                             *)
(***************************************************************************)
EXTENDS Integers, FiniteSetsExt, FiniteSetTheorems, TLAPS

Chosen(s) == CHOOSE x \in s : TRUE

\* g is the recursion of MapThenSumSet: g[s] is the sum of f over s.
IsSum(g, f, S) ==
    g = [s \in SUBSET S |-> IF s = {} THEN 0 ELSE f[Chosen(s)] + g[s \ {Chosen(s)}]]

SumOver(f, S) == (CHOOSE g : IsSum(g, f, S))[S]

\* What holds of a subset when it holds of its proper subsets, holds of all.
LEMMA SubsetInduction ==
    ASSUME NEW S, IsFiniteSet(S), NEW Good,
           \A T \in SUBSET S : (\A U \in SUBSET T : U # T => U \in Good) => T \in Good
    PROVE  SUBSET S \subseteq Good
<1> DEFINE Bad == (SUBSET S) \ Good
<1>1. SUBSET S = FiniteSubsetsOf(S)
  BY FS_FiniteSubsetsOfFinite
<1>2. SUFFICES ASSUME Bad # {} PROVE FALSE
  OBVIOUS
<1>3. PICK T \in Bad : \A U \in Bad : ~(<<U, T>> \in StrictSubsetOrdering(S))
  <2> HIDE DEF Bad
  <2>1. IsWellFoundedOn(StrictSubsetOrdering(S), FiniteSubsetsOf(S))
    BY FS_StrictSubsetOrderingWellFounded
  <2>2. Bad \subseteq FiniteSubsetsOf(S)
    BY <1>1 DEF Bad
  <2> QED
    BY <2>1, <2>2, <1>2, WFMin
<1>4. \A U \in SUBSET T : U # T => U \in Good
  BY <1>3 DEF StrictSubsetOrdering
<1> QED
  BY <1>3, <1>4

\* What CHOOSE takes from a set that has an element.
LEMMA ChosenIn == ASSUME NEW s, s # {} PROVE Chosen(s) \in s
BY DEF Chosen

\* The recursion has at most one solution: two agree where both are defined.
LEMMA SumUnique ==
    ASSUME NEW f, NEW A, NEW B, NEW g, IsSum(g, f, A), NEW h, IsSum(h, f, B),
           NEW C \in SUBSET (A \cap B), IsFiniteSet(C)
    PROVE  g[C] = h[C]
<1> DEFINE Good == {T \in SUBSET C : g[T] = h[T]}
<1>1. ASSUME NEW T \in SUBSET C, \A U \in SUBSET T : U # T => U \in Good
      PROVE  T \in Good
  <2>1. CASE T = {}
    <3>1. g[T] = 0 /\ h[T] = 0
      BY <2>1 DEF IsSum
    <3> QED
      BY <3>1
  <2>2. CASE T # {}
    <3> DEFINE c == Chosen(T)
    <3>1. c \in T
      BY <2>2, ChosenIn
    <3>2. g[T \ {c}] = h[T \ {c}]
      <4>1. T \ {c} \in SUBSET T /\ T \ {c} # T
        BY <3>1
      <4> QED
        BY <1>1, <4>1
    <3>3. g[T] = f[c] + g[T \ {c}] /\ h[T] = f[c] + h[T \ {c}]
      BY <2>2 DEF IsSum
    <3> QED
      BY <3>2, <3>3
  <2> QED
    BY <2>1, <2>2
<1> HIDE DEF Good
<1>2. SUBSET C \subseteq Good
  BY <1>1, SubsetInduction
<1> QED
  BY <1>2 DEF Good

\* On a finite set it has one.
LEMMA SumExists ==
    ASSUME NEW f, NEW S, IsFiniteSet(S)
    PROVE  \E g : IsSum(g, f, S)
<1> DEFINE Good == {T \in SUBSET S : \E g : IsSum(g, f, T)}
<1>1. ASSUME NEW T \in SUBSET S, \A U \in SUBSET T : U # T => U \in Good
      PROVE  T \in Good
  <2> DEFINE of(s) == CHOOSE g : IsSum(g, f, s)
             rest(s) == s \ {Chosen(s)}
             G == [s \in SUBSET T |-> IF s = {} THEN 0 ELSE f[Chosen(s)] + of(rest(s))[rest(s)]]
  <2>1. ASSUME NEW s \in SUBSET T, s # {}
        PROVE  /\ rest(s) \in SUBSET T /\ rest(s) # T /\ rest(s) \in SUBSET S
               /\ IsSum(of(rest(s)), f, rest(s))
    <3>1. Chosen(s) \in s
      BY <2>1, ChosenIn
    <3>2. rest(s) \in SUBSET T /\ rest(s) # T
      BY <3>1
    <3>3. \E g : IsSum(g, f, rest(s))
      BY <3>2, <1>1
    <3> HIDE DEF rest
    <3> QED
      BY <3>2, <3>3
  <2> HIDE DEF of
  <2>2. ASSUME NEW s \in SUBSET T, s # {}
        PROVE  G[rest(s)] = of(rest(s))[rest(s)]
    <3> DEFINE r == rest(s)
    <3>1. r \in SUBSET T /\ r \in SUBSET S /\ IsSum(of(r), f, r)
      BY <2>1, <2>2
    <3> HIDE DEF r
    <3>2. CASE r = {}
      <4>1. of(r)[r] = 0
        BY <3>1, <3>2 DEF IsSum
      <4>2. G[r] = 0
        BY <3>1, <3>2
      <4> QED
        BY <4>1, <4>2 DEF r
    <3>3. CASE r # {}
      <4>1. /\ rest(r) \in SUBSET S
            /\ IsSum(of(rest(r)), f, rest(r))
        BY <2>1, <3>1, <3>3
      <4>2. rest(r) \in SUBSET (rest(r) \cap r)
        OBVIOUS
      <4>3. of(r)[r] = f[Chosen(r)] + of(r)[rest(r)]
        BY <3>1, <3>3 DEF IsSum
      <4>4. G[r] = f[Chosen(r)] + of(rest(r))[rest(r)]
        BY <3>1, <3>3
      <4>0. IsFiniteSet(rest(r))
        BY <4>1, FS_Subset
      <4> HIDE DEF rest, G
      <4>5. of(rest(r))[rest(r)] = of(r)[rest(r)]
        BY <3>1, <4>0, <4>1, <4>2, SumUnique
      <4>6. G[r] = of(r)[r]
        BY <4>3, <4>4, <4>5
      <4> QED
        BY <4>6 DEF r
    <3> QED
      BY <3>2, <3>3
  <2>3. G = [s \in SUBSET T |-> IF s = {} THEN 0 ELSE f[Chosen(s)] + G[s \ {Chosen(s)}]]
    <3>1. \A s \in SUBSET T : s # {} => of(rest(s))[rest(s)] = G[s \ {Chosen(s)}]
      BY <2>2
    <3> QED
      BY <3>1
  <2>4. IsSum(G, f, T)
    <3> HIDE DEF G
    <3> QED
      BY <2>3 DEF IsSum
  <2> HIDE DEF G
  <2> QED
    BY <2>4
<1> HIDE DEF Good
<1>2. SUBSET S \subseteq Good
  BY <1>1, SubsetInduction
<1> QED
  BY <1>2 DEF Good

\* What the recursion says of a sum.
LEMMA SumRecursion ==
    ASSUME NEW f, NEW S, IsFiniteSet(S)
    PROVE  /\ SumOver(f, {}) = 0
           /\ S # {} => SumOver(f, S) = f[Chosen(S)] + SumOver(f, S \ {Chosen(S)})
<1> DEFINE of(s) == CHOOSE g : IsSum(g, f, s)
<1>1. ASSUME NEW T, IsFiniteSet(T) PROVE IsSum(of(T), f, T)
  BY <1>1, SumExists
<1>2. SumOver(f, {}) = 0
  <2>1. IsSum(of({}), f, {})
    BY <1>1, FS_EmptySet
  <2> QED
    BY <2>1 DEF SumOver, IsSum
<1>3. ASSUME S # {} PROVE SumOver(f, S) = f[Chosen(S)] + SumOver(f, S \ {Chosen(S)})
  <2> DEFINE r == S \ {Chosen(S)}
  <2>1. IsFiniteSet(r)
    BY FS_RemoveElement
  <2>2. of(S)[S] = f[Chosen(S)] + of(S)[r]
    <3>1. IsSum(of(S), f, S)
      BY <1>1
    <3> HIDE DEF of
    <3> QED
      BY <1>3, <3>1 DEF IsSum
  <2>3. of(S)[r] = of(r)[r]
    <3>1. IsSum(of(S), f, S) /\ IsSum(of(r), f, r)
      BY <1>1, <2>1
    <3>2. r \in SUBSET (S \cap r)
      OBVIOUS
    <3> HIDE DEF of, r
    <3> QED
      BY <2>1, <3>1, <3>2, SumUnique
  <2> QED
    BY <2>2, <2>3 DEF SumOver
<1> QED
  BY <1>2, <1>3

\* A sum of integers is one, and of natural numbers.
LEMMA SumType ==
    ASSUME NEW f, NEW S, IsFiniteSet(S), \A x \in S : f[x] \in Int
    PROVE  /\ SumOver(f, S) \in Int
           /\ (\A x \in S : f[x] >= 0) => SumOver(f, S) >= 0
<1> DEFINE Good == {T \in SUBSET S : /\ SumOver(f, T) \in Int
                                     /\ (\A x \in T : f[x] >= 0) => SumOver(f, T) >= 0}
<1>1. ASSUME NEW T \in SUBSET S, \A U \in SUBSET T : U # T => U \in Good
      PROVE  T \in Good
  <2>1. CASE T = {}
    <3>1. SumOver(f, {}) = 0
      BY SumRecursion
    <3> QED
      BY <2>1, <3>1
  <2>2. CASE T # {}
    <3> DEFINE c == Chosen(T)
               r == T \ {c}
    <3>1. c \in T /\ IsFiniteSet(T)
      BY <2>2, ChosenIn, FS_Subset
    <3>2. SumOver(f, T) = f[c] + SumOver(f, r)
      BY <2>2, <3>1, SumRecursion
    <3>3. r \in Good
      <4>1. r \in SUBSET T /\ r # T
        BY <3>1
      <4> HIDE DEF r, Good
      <4> QED
        BY <1>1, <4>1
    <3>4. r \subseteq T /\ f[c] \in Int
      BY <3>1
    <3> HIDE DEF c, r
    <3> QED
      BY <3>1, <3>2, <3>3, <3>4
  <2> QED
    BY <2>1, <2>2
<1> HIDE DEF Good
<1>2. SUBSET S \subseteq Good
  BY <1>1, SubsetInduction
<1> QED
  BY <1>2 DEF Good

\* Any element may be taken out first.
LEMMA SumRemove ==
    ASSUME NEW f, NEW S, IsFiniteSet(S), \A x \in S : f[x] \in Int, NEW e \in S
    PROVE  SumOver(f, S) = f[e] + SumOver(f, S \ {e})
<1> DEFINE Good == {T \in SUBSET S : \A x \in T : SumOver(f, T) = f[x] + SumOver(f, T \ {x})}
<1>1. ASSUME NEW T \in SUBSET S, \A U \in SUBSET T : U # T => U \in Good
      PROVE  T \in Good
  <2> SUFFICES ASSUME NEW x \in T PROVE SumOver(f, T) = f[x] + SumOver(f, T \ {x})
      OBVIOUS
  <2> DEFINE c == Chosen(T)
             both == T \ {c, x}
  <2>1. c \in T /\ IsFiniteSet(T)
    BY ChosenIn, FS_Subset
  <2>2. SumOver(f, T) = f[c] + SumOver(f, T \ {c})
    BY <2>1, SumRecursion
  <2>3. CASE x = c
    BY <2>2, <2>3
  <2>4. CASE x # c
    <3>1. T \ {c} \in Good /\ T \ {x} \in Good
      <4>1. /\ T \ {c} \in SUBSET T /\ T \ {c} # T
            /\ T \ {x} \in SUBSET T /\ T \ {x} # T
        BY <2>1
      <4> HIDE DEF c, Good
      <4> QED
        BY <1>1, <4>1
    <3>2. x \in T \ {c} /\ c \in T \ {x} /\ (T \ {c}) \ {x} = both /\ (T \ {x}) \ {c} = both
      BY <2>1, <2>4
    <3>3. /\ SumOver(f, T \ {c}) = f[x] + SumOver(f, both)
          /\ SumOver(f, T \ {x}) = f[c] + SumOver(f, both)
      <4> HIDE DEF c, both
      <4> QED
        BY <3>1, <3>2
    <3>4. f[x] \in Int /\ f[c] \in Int /\ SumOver(f, both) \in Int
      <4>1. both \in SUBSET S /\ IsFiniteSet(both)
        BY FS_Subset
      <4>2. \A y \in both : f[y] \in Int
        BY <4>1
      <4> HIDE DEF both
      <4>3. SumOver(f, both) \in Int
        BY <4>1, <4>2, SumType
      <4> HIDE DEF c
      <4> QED
        BY <2>1, <4>3
    <3> HIDE DEF c, both
    <3> QED
      BY <2>2, <3>3, <3>4
  <2> QED
    BY <2>3, <2>4
<1> HIDE DEF Good
<1>2. SUBSET S \subseteq Good
  BY <1>1, SubsetInduction
<1>3. S \in Good
  BY <1>2
<1> QED
  BY <1>3 DEF Good

\* What is summed counts on the set only.
LEMMA SumSame ==
    ASSUME NEW f, NEW h, NEW S, IsFiniteSet(S), \A x \in S : f[x] = h[x]
    PROVE  SumOver(f, S) = SumOver(h, S)
<1> DEFINE Good == {T \in SUBSET S : SumOver(f, T) = SumOver(h, T)}
<1>1. ASSUME NEW T \in SUBSET S, \A U \in SUBSET T : U # T => U \in Good
      PROVE  T \in Good
  <2>1. CASE T = {}
    <3>1. SumOver(f, {}) = 0 /\ SumOver(h, {}) = 0
      BY SumRecursion
    <3> QED
      BY <2>1, <3>1
  <2>2. CASE T # {}
    <3> DEFINE c == Chosen(T)
    <3>1. c \in T /\ IsFiniteSet(T)
      BY <2>2, ChosenIn, FS_Subset
    <3>2. /\ SumOver(f, T) = f[c] + SumOver(f, T \ {c})
          /\ SumOver(h, T) = h[c] + SumOver(h, T \ {c})
      BY <2>2, <3>1, SumRecursion
    <3>3. T \ {c} \in SUBSET T /\ T \ {c} # T /\ f[c] = h[c]
      BY <3>1
    <3> HIDE DEF c
    <3> QED
      BY <1>1, <3>2, <3>3
  <2> QED
    BY <2>1, <2>2
<1> HIDE DEF Good
<1>2. SUBSET S \subseteq Good
  BY <1>1, SubsetInduction
<1> QED
  BY <1>2 DEF Good

\* If every summand of one sum has a summand of the other of its own, at least as big,
\* and the rest of the other is not negative, then the one sum is not the bigger.
LEMMA SumInject ==
    ASSUME NEW f, NEW S, IsFiniteSet(S), \A x \in S : f[x] \in Int,
           NEW h, NEW R, IsFiniteSet(R), \A y \in R : h[y] \in Nat,
           NEW m, \A x \in S : m[x] \in R /\ f[x] <= h[m[x]],
           \A x, z \in S : m[x] = m[z] => x = z
    PROVE  SumOver(f, S) <= SumOver(h, R)
<1> DEFINE Into(T) == {Q \in SUBSET R : \A x \in T : m[x] \in Q}
           Good == {T \in SUBSET S : \A Q \in Into(T) : SumOver(f, T) <= SumOver(h, Q)}
<1>1. ASSUME NEW T \in SUBSET S, \A U \in SUBSET T : U # T => U \in Good
      PROVE  T \in Good
  <2> SUFFICES ASSUME NEW Q \in Into(T) PROVE SumOver(f, T) <= SumOver(h, Q)
      OBVIOUS
  <2>1. /\ IsFiniteSet(T) /\ IsFiniteSet(Q)
        /\ \A x \in T : f[x] \in Int
        /\ \A y \in Q : h[y] \in Int /\ h[y] >= 0
    BY FS_Subset
  <2>2. CASE T = {}
    <3>1. SumOver(f, T) = 0
      BY <2>2, SumRecursion
    <3>2. SumOver(h, Q) >= 0
      BY <2>1, SumType
    <3> QED
      BY <3>1, <3>2
  <2>3. CASE T # {}
    <3> DEFINE c == Chosen(T)
               d == m[c]
    <3>1. c \in T /\ d \in Q /\ f[c] <= h[d]
      BY <2>3, ChosenIn
    <3>2. SumOver(f, T) = f[c] + SumOver(f, T \ {c})
      BY <2>1, <2>3, SumRecursion
    <3>3. SumOver(h, Q) = h[d] + SumOver(h, Q \ {d})
      <4> HIDE DEF d
      <4> QED
        BY <2>1, <3>1, SumRemove
    <3>4. SumOver(f, T \ {c}) <= SumOver(h, Q \ {d})
      <4>1. T \ {c} \in SUBSET T /\ T \ {c} # T
        BY <3>1
      <4>2. T \ {c} \in Good
        <5> HIDE DEF c, Good
        <5> QED
          BY <1>1, <4>1
      <4>3. Q \ {d} \in Into(T \ {c})
        <5>1. \A x \in T \ {c} : m[x] \in Q /\ m[x] # d
          BY <3>1
        <5> QED
          BY <5>1
      <4> HIDE DEF c, d, Into
      <4> QED
        BY <4>2, <4>3
    <3>5. SumOver(f, T \ {c}) \in Int /\ SumOver(h, Q \ {d}) \in Int
      <4>1. IsFiniteSet(T \ {c}) /\ IsFiniteSet(Q \ {d})
        BY <2>1, FS_RemoveElement
      <4> HIDE DEF c, d
      <4> QED
        BY <2>1, <4>1, SumType
    <3>6. f[c] \in Int /\ h[d] \in Int
      BY <2>1, <3>1
    <3> HIDE DEF c, d
    <3> QED
      BY <3>1, <3>2, <3>3, <3>4, <3>5, <3>6
  <2> QED
    BY <2>2, <2>3
<1> HIDE DEF Good
<1>2. SUBSET S \subseteq Good
  BY <1>1, SubsetInduction
<1>3. S \in Good /\ R \in Into(S)
  BY <1>2
<1> QED
  BY <1>3 DEF Good

\* One summand changes.
LEMMA SumUpdate ==
    ASSUME NEW f, NEW h, NEW S, IsFiniteSet(S), NEW e \in S,
           \A x \in S : f[x] \in Int, h[e] \in Int, \A x \in S \ {e} : h[x] = f[x]
    PROVE  SumOver(h, S) = SumOver(f, S) - f[e] + h[e]
<1>1. IsFiniteSet(S \ {e})
  BY FS_RemoveElement
<1>2. /\ SumOver(f, S) = f[e] + SumOver(f, S \ {e})
      /\ SumOver(h, S) = h[e] + SumOver(h, S \ {e})
  <2>1. \A x \in S : h[x] \in Int
    OBVIOUS
  <2> QED
    BY <2>1, SumRemove
<1>3. SumOver(h, S \ {e}) = SumOver(f, S \ {e})
  BY <1>1, SumSame
<1>4. SumOver(f, S \ {e}) \in Int /\ f[e] \in Int
  <2>1. \A x \in S \ {e} : f[x] \in Int
    OBVIOUS
  <2> QED
    BY <1>1, <2>1, SumType
<1> QED
  BY <1>2, <1>3, <1>4

\* Summands that are bounded have a bounded sum.
LEMMA SumBound ==
    ASSUME NEW f, NEW b \in Nat, NEW S, IsFiniteSet(S), \A x \in S : f[x] \in Int /\ f[x] <= b
    PROVE  SumOver(f, S) <= Cardinality(S) * b
<1> DEFINE Good == {T \in SUBSET S : SumOver(f, T) <= Cardinality(T) * b}
<1>1. ASSUME NEW T \in SUBSET S, \A U \in SUBSET T : U # T => U \in Good
      PROVE  T \in Good
  <2>1. CASE T = {}
    <3>1. SumOver(f, {}) = 0 /\ Cardinality({}) = 0
      BY SumRecursion, FS_EmptySet
    <3> QED
      BY <2>1, <3>1
  <2>2. CASE T # {}
    <3> DEFINE c == Chosen(T)
               r == T \ {c}
    <3>1. c \in T /\ IsFiniteSet(T)
      BY <2>2, ChosenIn, FS_Subset
    <3>2. SumOver(f, T) = f[c] + SumOver(f, r)
      BY <2>2, <3>1, SumRecursion
    <3>3. /\ IsFiniteSet(r) /\ Cardinality(r) = Cardinality(T) - 1
          /\ Cardinality(r) \in Nat /\ Cardinality(T) \in Nat
      <4>1. IsFiniteSet(r) /\ Cardinality(r) = Cardinality(T) - 1
        BY <3>1, FS_RemoveElement
      <4> QED
        BY <3>1, <4>1, FS_CardinalityType
    <3>4. r \in SUBSET T /\ r # T
      BY <3>1
    <3>5. f[c] \in Int /\ f[c] <= b /\ \A x \in r : f[x] \in Int
      BY <3>1
    <3> HIDE DEF c, r
    <3>6. SumOver(f, r) <= Cardinality(r) * b
      BY <1>1, <3>4
    <3>7. SumOver(f, r) \in Int
      BY <3>3, <3>5, SumType
    <3>8. Cardinality(T) * b = Cardinality(r) * b + b /\ Cardinality(r) * b \in Int
      <4> DEFINE k == Cardinality(r)
      <4>1. k \in Nat /\ Cardinality(T) = k + 1
        BY <3>3
      <4> HIDE DEF k
      <4>2. (k + 1) * b = k * b + b /\ k * b \in Int
        BY <4>1
      <4> QED
        BY <4>1, <4>2 DEF k
    <3> QED
      BY <3>2, <3>5, <3>6, <3>7, <3>8
  <2> QED
    BY <2>1, <2>2
<1> HIDE DEF Good
<1>2. SUBSET S \subseteq Good
  BY <1>1, SubsetInduction
<1> QED
  BY <1>2 DEF Good

-----------------------------------------------------------------------------
(* MapThenSumSet as the specifications write it: unfolded, a sum over a    *)
(* function is SumOver as it stands; this is a sum over one field of its   *)
(* values.                                                                 *)

IsFieldSum(g, f, field, S) ==
    g = [s \in SUBSET S |-> IF s = {} THEN 0 ELSE f[Chosen(s)][field] + g[s \ {Chosen(s)}]]

FieldSum(f, field, S) == (CHOOSE g : IsFieldSum(g, f, field, S))[S]

LEMMA FieldSumIsSum ==
    ASSUME NEW f, NEW field, NEW S, IsFiniteSet(S)
    PROVE  FieldSum(f, field, S) = SumOver([x \in S |-> f[x][field]], S)
<1> DEFINE h == [x \in S |-> f[x][field]]
           Rec(g) == IsFieldSum(g, f, field, S)
<1>1. \A s \in SUBSET S : s # {} => f[Chosen(s)][field] = h[Chosen(s)]
  BY ChosenIn
<1>2. \A g : Rec(g) <=> IsSum(g, h, S)
  BY <1>1 DEF IsSum, IsFieldSum
<1>3. PICK g : IsSum(g, h, S)
  BY SumExists
<1> HIDE DEF Rec, h
<1>4. Rec(CHOOSE x : Rec(x)) /\ IsSum(CHOOSE x : IsSum(x, h, S), h, S)
  BY <1>2, <1>3
<1>5. IsSum(CHOOSE x : Rec(x), h, S)
  BY <1>2, <1>4
<1>6. S \in SUBSET (S \cap S)
  OBVIOUS
<1>7. (CHOOSE x : Rec(x))[S] = (CHOOSE x : IsSum(x, h, S))[S]
  BY <1>4, <1>5, <1>6, SumUnique
<1> QED
  BY <1>7 DEF SumOver, FieldSum, Rec, h
=============================================================================
