------------------------------ MODULE FiniteSums ------------------------------
(***************************************************************************)
(* Facts about sums over finite sets, for the proofs about budgets and     *)
(* byte counts.  Sums are SumFunctionOnSet of the community module         *)
(* Functions, a fold by a recursive function over the subsets of the index *)
(* set.  Induction over finite sets and over numbers is stated for sets    *)
(* (of sets, of numbers) instead of predicates: no lemma has an operator   *)
(* parameter, so that the provers can apply them.                          *)
(***************************************************************************)
EXTENDS Integers, FiniteSets, Functions, FiniteSetTheorems, TLAPS

\* The equation behind the fold: what is summed first, and the rest.
FoldFirst(s) == CHOOSE x \in s : TRUE
FoldRest(s) == s \ {FoldFirst(s)}
FoldStep(f, g, s) == IF s = {} THEN 0 ELSE f[FoldFirst(s)] + g[FoldRest(s)]
FoldSolves(f, g, D) == g = [s \in D |-> FoldStep(f, g, s)]
FoldSolution(f, S) == CHOOSE g : FoldSolves(f, g, SUBSET S)

\* Induction over the subsets of a finite set, for a set C of subsets: whatever
\* holds of a set as soon as it holds of its proper subsets holds of them all.
LEMMA SetInduction ==
    ASSUME NEW S, IsFiniteSet(S), NEW C,
           \A T \in SUBSET S : (\A U \in SUBSET T : U # T => U \in C) => T \in C
    PROVE  SUBSET S \subseteq C
  <1> DEFINE Bad == {T \in SUBSET S : T \notin C}
  <1> SUFFICES ASSUME Bad # {} PROVE FALSE
    OBVIOUS
  <1>1. IsWellFoundedOn(StrictSubsetOrdering(S), FiniteSubsetsOf(S))
    BY FS_StrictSubsetOrderingWellFounded
  <1>2. Bad \subseteq FiniteSubsetsOf(S)
    BY FS_FiniteSubsetsOfFinite
  <1>3. \E T \in Bad : \A U \in Bad : <<U, T>> \notin StrictSubsetOrdering(S)
    <2> HIDE DEF Bad
    <2> QED BY <1>1, <1>2, WFMin
  <1>4. PICK T \in Bad : \A U \in Bad : <<U, T>> \notin StrictSubsetOrdering(S)
    BY <1>3
  <1>5. \A U \in SUBSET T : U # T => <<U, T>> \in StrictSubsetOrdering(S)
    BY DEF StrictSubsetOrdering
  <1>6. \A U \in SUBSET T : U # T => U \in C
    <2> SUFFICES ASSUME NEW U \in SUBSET T, U # T, U \notin C
                 PROVE  FALSE
      OBVIOUS
    <2>1. U \in Bad
      OBVIOUS
    <2> QED BY <1>4, <1>5, <2>1
  <1>7. T \in SUBSET S /\ T \notin C
    OBVIOUS
  <1> QED BY <1>6, <1>7

-------------------------------------------------------------------------------
(* The recursive function exists and is unique.                            *)

\* A non-empty set of natural numbers has a least element.
LEMMA NatSetLeast ==
    ASSUME NEW S, S \subseteq Nat, S # {}
    PROVE  \E n \in S : \A m \in S : n <= m
  <1>1. PICK n \in S : \A m \in S : <<m, n>> \notin OpToRel(<, Nat)
    BY WFMin, NatLessThanWellFounded
  <1>2. \A m \in S : <<m, n>> \in Nat \X Nat
    BY <1>1
  <1>3. \A m \in S : ~(m < n)
    BY <1>1, <1>2 DEF OpToRel
  <1>4. \A m \in S : m \in Nat /\ n \in Nat
    BY <1>1
  <1>5. \A m \in S : n <= m
    BY <1>3, <1>4
  <1> QED BY <1>5

\* Induction over the naturals, for a set of numbers.
LEMMA NatSetInduction ==
    ASSUME NEW C, C \subseteq Nat, 0 \in C, \A n \in C : n + 1 \in C
    PROVE  C = Nat
  <1> DEFINE Bad == Nat \ C
  <1> SUFFICES ASSUME Bad # {} PROVE FALSE
    OBVIOUS
  <1>1. PICK n \in Bad : \A m \in Bad : n <= m
    <2> HIDE DEF Bad
    <2>1. Bad \subseteq Nat
      BY DEF Bad
    <2> QED BY <2>1, NatSetLeast
  <1>2. n \in Nat \ {0}
    OBVIOUS
  <1>3. n - 1 \in C
    BY <1>1, <1>2
  <1> QED BY <1>2, <1>3

\* The subsets of S with at most n elements.
SubsetsUpTo(S, n) == {s \in SUBSET S : Cardinality(s) <= n}

\* A non-empty finite set has its first element, and the rest is smaller.
LEMMA FirstFacts ==
    ASSUME NEW s, IsFiniteSet(s), s # {}
    PROVE  /\ FoldFirst(s) \in s
           /\ FoldRest(s) \in SUBSET s
           /\ FoldRest(s) # s
           /\ IsFiniteSet(FoldRest(s))
           /\ Cardinality(s) \in Nat
           /\ Cardinality(FoldRest(s)) = Cardinality(s) - 1
  <1>1. FoldFirst(s) \in s
    BY DEF FoldFirst
  <1>2. FoldRest(s) \in SUBSET s /\ FoldRest(s) # s
    BY <1>1 DEF FoldRest
  <1>3. /\ IsFiniteSet(FoldRest(s))
        /\ Cardinality(FoldRest(s)) = Cardinality(s) - 1
    BY <1>1, FS_RemoveElement DEF FoldRest
  <1> QED BY <1>1, <1>2, <1>3, FS_CardinalityType

\* A solution for the sets of at most n elements extends to n + 1.
LEMMA SolutionStep ==
    ASSUME NEW S, IsFiniteSet(S), NEW f, NEW n \in Nat, NEW g,
           FoldSolves(f, g, SubsetsUpTo(S, n))
    PROVE  \E h : FoldSolves(f, h, SubsetsUpTo(S, n + 1))
  <1> DEFINE h == [s \in SubsetsUpTo(S, n + 1) |-> FoldStep(f, g, s)]
  <1>1. ASSUME NEW s \in SubsetsUpTo(S, n + 1), s # {}
        PROVE  FoldRest(s) \in SubsetsUpTo(S, n)
    <2>1. s \in SUBSET S /\ Cardinality(s) <= n + 1
      BY DEF SubsetsUpTo
    <2>2. IsFiniteSet(s)
      BY <2>1, FS_Subset
    <2>3. /\ FoldRest(s) \in SUBSET s
          /\ Cardinality(s) \in Nat
          /\ Cardinality(FoldRest(s)) = Cardinality(s) - 1
      BY <1>1, <2>2, FirstFacts
    <2>4. FoldRest(s) \in SUBSET S
      BY <2>1, <2>3
    <2>5. Cardinality(FoldRest(s)) <= n
      BY <2>1, <2>3
    <2> QED BY <2>4, <2>5 DEF SubsetsUpTo
  <1>2. \A s \in SubsetsUpTo(S, n) : /\ s \in SubsetsUpTo(S, n + 1)
                                     /\ g[s] = FoldStep(f, g, s)
    <2>1. \A s \in SubsetsUpTo(S, n) : s \in SubsetsUpTo(S, n + 1)
      BY FS_Subset, FS_CardinalityType DEF SubsetsUpTo
    <2> QED BY <2>1 DEF FoldSolves
  <1>3. \A s \in SubsetsUpTo(S, n + 1) : FoldStep(f, h, s) = FoldStep(f, g, s)
    <2> SUFFICES ASSUME NEW s \in SubsetsUpTo(S, n + 1)
                 PROVE  FoldStep(f, h, s) = FoldStep(f, g, s)
      OBVIOUS
    <2>1. CASE s = {}
      BY <2>1 DEF FoldStep
    <2>2. CASE s # {}
      <3>1. FoldRest(s) \in SubsetsUpTo(S, n)
        BY <1>1, <2>2
      <3>2. h[FoldRest(s)] = g[FoldRest(s)]
        BY <3>1, <1>2
      <3> HIDE DEF h
      <3> QED BY <3>2, <2>2 DEF FoldStep
    <2> QED BY <2>1, <2>2
  <1>4. FoldSolves(f, h, SubsetsUpTo(S, n + 1))
    BY <1>3 DEF FoldSolves
  <1> QED BY <1>4

\* The fold of SumFunctionOnSet is well defined on a finite set.
LEMMA SolutionExists ==
    ASSUME NEW S, IsFiniteSet(S), NEW f
    PROVE  FoldSolves(f, FoldSolution(f, S), SUBSET S)
  <1> DEFINE Good == {n \in Nat : \E g : FoldSolves(f, g, SubsetsUpTo(S, n))}
  <1>1. 0 \in Good
    <2>1. \A s \in SubsetsUpTo(S, 0) : s = {}
      BY FS_Subset, FS_EmptySet, FS_CardinalityType DEF SubsetsUpTo
    <2> DEFINE z == [s \in SubsetsUpTo(S, 0) |-> 0]
    <2>2. FoldSolves(f, z, SubsetsUpTo(S, 0))
      BY <2>1 DEF FoldSolves, FoldStep
    <2> QED BY <2>2
  <1>2. \A n \in Good : n + 1 \in Good
    <2> SUFFICES ASSUME NEW n \in Nat, NEW g, FoldSolves(f, g, SubsetsUpTo(S, n))
                 PROVE  \E h : FoldSolves(f, h, SubsetsUpTo(S, n + 1))
      OBVIOUS
    <2> QED BY SolutionStep
  <1>3. Good = Nat
    <2> HIDE DEF Good
    <2>1. Good \subseteq Nat
      BY DEF Good
    <2> QED BY <1>1, <1>2, <2>1, NatSetInduction
  <1>4. SubsetsUpTo(S, Cardinality(S)) = SUBSET S /\ Cardinality(S) \in Nat
    BY FS_Subset, FS_CardinalityType DEF SubsetsUpTo
  <1>5. \E g : FoldSolves(f, g, SUBSET S)
    <2>1. Cardinality(S) \in Good
      BY <1>3, <1>4
    <2> QED BY <2>1, <1>4
  <1> QED BY <1>5 DEF FoldSolution

\* Two solutions agree on every set that both have in their domain.
LEMMA SolutionsAgree ==
    ASSUME NEW S, IsFiniteSet(S), NEW T \in SUBSET S, NEW f, NEW g, NEW h,
           FoldSolves(f, g, SUBSET S), FoldSolves(f, h, SUBSET T)
    PROVE  g[T] = h[T]
  <1> DEFINE Same == {s \in SUBSET T : g[s] = h[s]}
  <1>1. \A s \in SUBSET T : /\ IsFiniteSet(s)
                            /\ g[s] = FoldStep(f, g, s)
                            /\ h[s] = FoldStep(f, h, s)
    BY FS_Subset DEF FoldSolves
  <1>2. ASSUME NEW s \in SUBSET T, \A u \in SUBSET s : u # s => u \in Same
        PROVE  s \in Same
    <2>1. CASE s = {}
      BY <1>1, <2>1 DEF FoldStep
    <2>2. CASE s # {}
      <3>1. FoldRest(s) \in SUBSET s /\ FoldRest(s) # s
        BY <1>1, <2>2, FirstFacts
      <3>2. g[FoldRest(s)] = h[FoldRest(s)]
        BY <1>2, <3>1
      <3> QED BY <1>1, <2>2, <3>2 DEF FoldStep
    <2> QED BY <2>1, <2>2
  <1>3. SUBSET T \subseteq Same
    <2> HIDE DEF Same
    <2> QED BY <1>1, <1>2, SetInduction
  <1> QED BY <1>3

-------------------------------------------------------------------------------
(* What sums compute.                                                      *)

\* Sums, as the library defines them, are what the equation says.
LEMMA SumIsSolution ==
    ASSUME NEW S, NEW f
    PROVE  SumFunctionOnSet(f, S) = FoldSolution(f, S)[S]
  BY DEF SumFunctionOnSet, FoldFunctionOnSet, MapThenFoldSet,
         FoldSolution, FoldSolves, FoldStep, FoldRest, FoldFirst

\* The sum over the empty set.
LEMMA SumEmpty == ASSUME NEW f PROVE SumFunctionOnSet(f, {}) = 0
  <1>1. FoldSolves(f, FoldSolution(f, {}), SUBSET {})
    BY SolutionExists, FS_EmptySet
  <1>2. FoldSolution(f, {})[{}] = 0
    BY <1>1 DEF FoldSolves, FoldStep
  <1> QED BY <1>2, SumIsSolution

\* The first element and the rest.
LEMMA SumFirst ==
    ASSUME NEW S, IsFiniteSet(S), S # {}, NEW f
    PROVE  /\ FoldFirst(S) \in S
           /\ SumFunctionOnSet(f, S)
                = f[FoldFirst(S)] + SumFunctionOnSet(f, FoldRest(S))
  <1> DEFINE T == FoldRest(S)
  <1>1. FoldFirst(S) \in S /\ IsFiniteSet(T) /\ T \in SUBSET S
    BY FirstFacts
  <1>2. /\ FoldSolves(f, FoldSolution(f, S), SUBSET S)
        /\ FoldSolves(f, FoldSolution(f, T), SUBSET T)
    <2> HIDE DEF T
    <2> QED BY <1>1, SolutionExists
  <1>3. FoldSolution(f, S)[T] = FoldSolution(f, T)[T]
    <2> HIDE DEF T
    <2> QED BY <1>1, <1>2, SolutionsAgree
  <1>4. FoldSolution(f, S)[S] = f[FoldFirst(S)] + FoldSolution(f, S)[T]
    BY <1>2 DEF FoldSolves, FoldStep
  <1> QED BY <1>1, <1>3, <1>4, SumIsSolution

\* A sum of integers is an integer.
LEMMA SumInt ==
    ASSUME NEW S, IsFiniteSet(S), NEW f, \A x \in S : f[x] \in Int
    PROVE  SumFunctionOnSet(f, S) \in Int
  <1> DEFINE Good == {T \in SUBSET S : SumFunctionOnSet(f, T) \in Int}
  <1>1. ASSUME NEW T \in SUBSET S, \A U \in SUBSET T : U # T => U \in Good
        PROVE  T \in Good
    <2>1. CASE T = {}
      BY <2>1, SumEmpty
    <2>2. CASE T # {}
      <3>1. /\ FoldFirst(T) \in T
            /\ SumFunctionOnSet(f, T)
                 = f[FoldFirst(T)] + SumFunctionOnSet(f, FoldRest(T))
        BY <2>2, FS_Subset, SumFirst
      <3>2. FoldRest(T) \in SUBSET T /\ FoldRest(T) # T
        BY <2>2, FS_Subset, FirstFacts
      <3>3. SumFunctionOnSet(f, FoldRest(T)) \in Int
        BY <1>1, <3>2
      <3> QED BY <3>1, <3>3
    <2> QED BY <2>1, <2>2
  <1>2. SUBSET S \subseteq Good
    <2> HIDE DEF Good
    <2> QED BY <1>1, SetInduction
  <1> QED BY <1>2

\* Any element and the rest: the order of summation does not matter.
LEMMA SumOneOut ==
    ASSUME NEW S, IsFiniteSet(S), NEW f, \A x \in S : f[x] \in Int,
           NEW x \in S
    PROVE  SumFunctionOnSet(f, S) = f[x] + SumFunctionOnSet(f, S \ {x})
  <1> DEFINE Sum(T) == SumFunctionOnSet(f, T)
             Good == {T \in SUBSET S : \A y \in T : Sum(T) = f[y] + Sum(T \ {y})}
  <1>0. \A T \in SUBSET S : IsFiniteSet(T) /\ Sum(T) \in Int
    BY FS_Subset, SumInt
  <1>1. ASSUME NEW T \in SUBSET S, \A U \in SUBSET T : U # T => U \in Good,
               NEW y \in T
        PROVE  Sum(T) = f[y] + Sum(T \ {y})
    <2> DEFINE z == FoldFirst(T)
    <2>1. z \in T /\ Sum(T) = f[z] + Sum(T \ {z})
      BY <1>0, SumFirst DEF FoldRest
    <2> HIDE DEF z, Sum
    <2>2. CASE y = z
      BY <2>1, <2>2
    <2>3. CASE y # z
      <3>1. Sum(T \ {z}) = f[y] + Sum((T \ {z}) \ {y})
        BY <1>1, <2>1, <2>3
      <3>2. Sum(T \ {y}) = f[z] + Sum((T \ {y}) \ {z})
        BY <1>1, <2>1, <2>3
      <3>3. (T \ {z}) \ {y} = (T \ {y}) \ {z}
        OBVIOUS
      <3>4. f[y] \in Int /\ f[z] \in Int /\ Sum((T \ {y}) \ {z}) \in Int
        BY <1>0, <2>1
      <3>5. Sum(T) = f[z] + (f[y] + Sum((T \ {y}) \ {z}))
        BY <2>1, <3>1, <3>3
      <3> QED BY <3>2, <3>4, <3>5
    <2> QED BY <2>2, <2>3
  <1>2. SUBSET S \subseteq Good
    <2>1. \A T \in SUBSET S : (\A U \in SUBSET T : U # T => U \in Good) => T \in Good
      <3> HIDE DEF Sum
      <3> QED BY <1>1
    <2> HIDE DEF Good
    <2> QED BY <2>1, SetInduction
  <1> QED BY <1>2

\* A relation between two sums that every element preserves: f and g related by
\* an inequality everywhere are so in their sums.
LEMMA SumMonotone ==
    ASSUME NEW S, IsFiniteSet(S), NEW f, NEW g,
           \A x \in S : f[x] \in Int /\ g[x] \in Int /\ f[x] <= g[x]
    PROVE  SumFunctionOnSet(f, S) <= SumFunctionOnSet(g, S)
  <1> DEFINE F(T) == SumFunctionOnSet(f, T)
             G(T) == SumFunctionOnSet(g, T)
             Good == {T \in SUBSET S : F(T) <= G(T)}
  <1>0. \A T \in SUBSET S : IsFiniteSet(T) /\ F(T) \in Int /\ G(T) \in Int
    BY FS_Subset, SumInt
  <1>1. ASSUME NEW T \in SUBSET S, \A U \in SUBSET T : U # T => U \in Good
        PROVE  T \in Good
    <2>1. CASE T = {}
      BY <2>1, SumEmpty
    <2>2. CASE T # {}
      <3>1. PICK x \in T : TRUE
        BY <2>2
      <3>2. F(T) = f[x] + F(T \ {x}) /\ G(T) = g[x] + G(T \ {x})
        BY <1>0, <3>1, SumOneOut
      <3> HIDE DEF F, G
      <3>3. F(T \ {x}) <= G(T \ {x})
        BY <1>1, <3>1
      <3>4. F(T \ {x}) \in Int /\ G(T \ {x}) \in Int
        BY <1>0
      <3> QED BY <3>1, <3>2, <3>3, <3>4
    <2> QED BY <2>1, <2>2
  <1>2. SUBSET S \subseteq Good
    <2> HIDE DEF Good
    <2> QED BY <1>1, SetInduction
  <1> QED BY <1>2

\* Fewer natural numbers have no larger sum.
LEMMA SumSubset ==
    ASSUME NEW S, IsFiniteSet(S), NEW f, \A x \in S : f[x] \in Nat, NEW R \in SUBSET S
    PROVE  SumFunctionOnSet(f, R) <= SumFunctionOnSet(f, S)
  <1> DEFINE F(T) == SumFunctionOnSet(f, T)
             Good == {T \in SUBSET S : F(R \cap T) <= F(T)}
  <1>0. \A T \in SUBSET S : IsFiniteSet(T) /\ F(T) \in Int
    BY FS_Subset, SumInt
  <1>1. ASSUME NEW T \in SUBSET S, \A U \in SUBSET T : U # T => U \in Good
        PROVE  T \in Good
    <2>1. CASE T = {}
      <3>1. R \cap T = {}
        BY <2>1
      <3> QED BY <2>1, <3>1, SumEmpty
    <2>2. CASE T # {}
      <3>1. PICK x \in T : TRUE
        BY <2>2
      <3>2. \A y \in S : f[y] \in Int
        OBVIOUS
      <3>3. F(T) = f[x] + F(T \ {x})
        BY <1>0, <3>1, <3>2, SumOneOut
      <3>4. x \in R => F(R \cap T) = f[x] + F((R \cap T) \ {x})
        <4>1. R \cap T \in SUBSET S
          OBVIOUS
        <4> QED BY <1>0, <3>1, <3>2, <4>1, SumOneOut
      <3>5. (R \cap T) \ {x} = R \cap (T \ {x}) /\ (x \notin R => R \cap T = R \cap (T \ {x}))
        OBVIOUS
      <3> HIDE DEF F
      <3>6. F(R \cap (T \ {x})) <= F(T \ {x})
        BY <1>1, <3>1
      <3>7. F(R \cap (T \ {x})) \in Int /\ F(T \ {x}) \in Int /\ f[x] \in Nat
        BY <1>0, <3>1
      <3>8. x \in R => F(R \cap T) = f[x] + F(R \cap (T \ {x}))
        BY <3>4, <3>5
      <3>9. x \notin R => F(R \cap T) = F(R \cap (T \ {x}))
        BY <3>5
      <3>10. F(R \cap T) <= F(T)
        BY <3>3, <3>6, <3>7, <3>8, <3>9
      <3> QED BY <3>10
    <2> QED BY <2>1, <2>2
  <1>2. SUBSET S \subseteq Good
    <2> HIDE DEF Good
    <2> QED BY <1>1, SetInduction
  <1>3. R \cap S = R
    OBVIOUS
  <1> QED BY <1>2, <1>3

\* Sums only depend on the values on the index set.
LEMMA SumSame ==
    ASSUME NEW S, IsFiniteSet(S), NEW f, NEW g,
           \A x \in S : f[x] \in Int /\ f[x] = g[x]
    PROVE  SumFunctionOnSet(f, S) = SumFunctionOnSet(g, S)
  <1>1. \A x \in S : f[x] \in Int /\ g[x] \in Int /\ f[x] <= g[x] /\ g[x] <= f[x]
    OBVIOUS
  <1>2. /\ SumFunctionOnSet(f, S) <= SumFunctionOnSet(g, S)
        /\ SumFunctionOnSet(g, S) <= SumFunctionOnSet(f, S)
    BY <1>1, SumMonotone
  <1>3. SumFunctionOnSet(f, S) \in Int /\ SumFunctionOnSet(g, S) \in Int
    BY <1>1, SumInt
  <1> QED BY <1>2, <1>3

\* The sum of the differences is the difference of the sums.
LEMMA SumDifference ==
    ASSUME NEW S, IsFiniteSet(S), NEW f, NEW g, NEW d,
           \A x \in S : f[x] \in Int /\ g[x] \in Int /\ d[x] = g[x] - f[x]
    PROVE  SumFunctionOnSet(d, S) = SumFunctionOnSet(g, S) - SumFunctionOnSet(f, S)
  <1> DEFINE D(T) == SumFunctionOnSet(d, T)
             F(T) == SumFunctionOnSet(f, T)
             G(T) == SumFunctionOnSet(g, T)
             Good == {T \in SUBSET S : D(T) = G(T) - F(T)}
  <1>0. \A T \in SUBSET S : /\ IsFiniteSet(T)
                            /\ D(T) \in Int /\ F(T) \in Int /\ G(T) \in Int
    <2>1. \A x \in S : d[x] \in Int
      OBVIOUS
    <2>2. \A T \in SUBSET S : IsFiniteSet(T)
      BY FS_Subset
    <2> QED BY <2>1, <2>2, SumInt
  <1>1. ASSUME NEW T \in SUBSET S, \A U \in SUBSET T : U # T => U \in Good
        PROVE  T \in Good
    <2>1. CASE T = {}
      BY <2>1, SumEmpty
    <2>2. CASE T # {}
      <3>1. PICK x \in T : TRUE
        BY <2>2
      <3>2. \A y \in S : d[y] \in Int
        OBVIOUS
      <3>3. /\ D(T) = d[x] + D(T \ {x})
            /\ F(T) = f[x] + F(T \ {x})
            /\ G(T) = g[x] + G(T \ {x})
        BY <1>0, <3>1, <3>2, SumOneOut
      <3> HIDE DEF D, F, G
      <3>4. D(T \ {x}) = G(T \ {x}) - F(T \ {x})
        BY <1>1, <3>1
      <3>5. D(T \ {x}) \in Int /\ F(T \ {x}) \in Int /\ G(T \ {x}) \in Int
        BY <1>0
      <3> QED BY <3>1, <3>3, <3>4, <3>5
    <2> QED BY <2>1, <2>2
  <1>2. SUBSET S \subseteq Good
    <2> HIDE DEF Good
    <2> QED BY <1>1, SetInduction
  <1> QED BY <1>2

\* A sum of zeros.
LEMMA SumZero ==
    ASSUME NEW S, IsFiniteSet(S), NEW f, \A x \in S : f[x] = 0
    PROVE  SumFunctionOnSet(f, S) = 0
  <1> DEFINE Good == {T \in SUBSET S : SumFunctionOnSet(f, T) = 0}
  <1>1. ASSUME NEW T \in SUBSET S, \A U \in SUBSET T : U # T => U \in Good
        PROVE  T \in Good
    <2>1. CASE T = {}
      BY <2>1, SumEmpty
    <2>2. CASE T # {}
      <3>1. /\ FoldFirst(T) \in T
            /\ SumFunctionOnSet(f, T)
                 = f[FoldFirst(T)] + SumFunctionOnSet(f, FoldRest(T))
        BY <2>2, FS_Subset, SumFirst
      <3>2. FoldRest(T) \in SUBSET T /\ FoldRest(T) # T
        BY <2>2, FS_Subset, FirstFacts
      <3>3. SumFunctionOnSet(f, FoldRest(T)) = 0
        BY <1>1, <3>2
      <3> QED BY <3>1, <3>3
    <2> QED BY <2>1, <2>2
  <1>2. SUBSET S \subseteq Good
    <2> HIDE DEF Good
    <2> QED BY <1>1, SetInduction
  <1> QED BY <1>2

\* A sum of naturals is one, and at least as large as each of its terms.
LEMMA SumNat ==
    ASSUME NEW S, IsFiniteSet(S), NEW f, \A x \in S : f[x] \in Nat
    PROVE  /\ SumFunctionOnSet(f, S) \in Nat
           /\ \A x \in S : f[x] <= SumFunctionOnSet(f, S)
  <1> DEFINE zero == [x \in S |-> 0]
  <1>1. \A T \in SUBSET S : SumFunctionOnSet(f, T) \in Nat
    <2> SUFFICES ASSUME NEW T \in SUBSET S
                 PROVE  SumFunctionOnSet(f, T) \in Nat
      OBVIOUS
    <2>1. IsFiniteSet(T)
      BY FS_Subset
    <2>2. SumFunctionOnSet(zero, T) = 0
      BY <2>1, SumZero
    <2>3. SumFunctionOnSet(zero, T) <= SumFunctionOnSet(f, T)
      BY <2>1, SumMonotone
    <2>4. SumFunctionOnSet(f, T) \in Int
      BY <2>1, SumInt
    <2> QED BY <2>2, <2>3, <2>4
  <1>2. \A x \in S : f[x] \in Nat /\ S \ {x} \in SUBSET S
    OBVIOUS
  <1>3. \A x \in S : f[x] <= SumFunctionOnSet(f, S)
    <2> SUFFICES ASSUME NEW x \in S
                 PROVE  f[x] <= SumFunctionOnSet(f, S)
      OBVIOUS
    <2>1. SumFunctionOnSet(f, S) = f[x] + SumFunctionOnSet(f, S \ {x})
      BY SumOneOut
    <2> QED BY <1>1, <1>2, <2>1
  <1> QED BY <1>1, <1>3

\* One term changes.
LEMMA SumUpdate ==
    ASSUME NEW S, IsFiniteSet(S), NEW f, NEW g, NEW x \in S,
           \A y \in S : f[y] \in Int /\ g[y] \in Int /\ (y # x => f[y] = g[y])
    PROVE  SumFunctionOnSet(g, S) = SumFunctionOnSet(f, S) - f[x] + g[x]
  <1>1. /\ SumFunctionOnSet(f, S) = f[x] + SumFunctionOnSet(f, S \ {x})
        /\ SumFunctionOnSet(g, S) = g[x] + SumFunctionOnSet(g, S \ {x})
    BY SumOneOut
  <1>2. IsFiniteSet(S \ {x})
    BY FS_RemoveElement
  <1>3. SumFunctionOnSet(f, S \ {x}) = SumFunctionOnSet(g, S \ {x})
    BY <1>2, SumSame
  <1>4. SumFunctionOnSet(f, S \ {x}) \in Int
    BY <1>2, SumInt
  <1> QED BY <1>1, <1>3, <1>4
===============================================================================
