------------------------------- MODULE SetSums -------------------------------
(***************************************************************************)
(* Sums over finite sets: what SumFunction of the community modules is,    *)
(* for every finite domain.  Its definition unfolds along CHOOSE; here any *)
(* element can be taken out first.  The inductions are over the subsets of *)
(* a finite set: a smallest set without the property would lose an element *)
(* and have it.                                                            *)
(***************************************************************************)
EXTENDS Integers, Functions, FiniteSetTheorems, TLAPS

First(s) == CHOOSE x \in s : TRUE

\* g has, for every subset of S, the sum of f over it, as the library computes it.
Sums(g, f, S) ==
  g = [s \in SUBSET S |-> IF s = {} THEN 0 ELSE f[First(s)] + g[s \ {First(s)}]]

\* SumFunctionOnSet of the community modules, as one function's value.
LEMMA Unfold ==
  ASSUME NEW f, NEW S
  PROVE  SumFunctionOnSet(f, S) = (CHOOSE g : Sums(g, f, S))[S]
  BY DEF SumFunctionOnSet, FoldFunctionOnSet, MapThenFoldSet, Sums, First

\* The element a sum takes first.
LEMMA FirstIsIn == ASSUME NEW s, s # {} PROVE First(s) \in s
  BY DEF First

\* Every non-empty set of subsets of a finite set has a smallest one.
LEMMA SmallestSubset ==
  ASSUME NEW S, IsFiniteSet(S), NEW F, F \subseteq SUBSET S, F # {}
  PROVE  \E A \in F : \A B \in F : B \subseteq A => B = A
  <1>1. IsWellFoundedOn(StrictSubsetOrdering(S), SUBSET S)
    BY FS_FiniteSubsetsOfFinite, FS_StrictSubsetOrderingWellFounded
  <1>2. PICK A \in F : \A B \in F : ~ (<< B, A >> \in StrictSubsetOrdering(S))
    BY <1>1, WFMin
  <1> QED
    BY <1>2 DEF StrictSubsetOrdering

\* Two such functions agree on the finite sets both are defined for.
LEMMA SumsAgree ==
  ASSUME NEW f, NEW S, NEW T, IsFiniteSet(S), IsFiniteSet(T),
         NEW g, Sums(g, f, S), NEW h, Sums(h, f, T)
  PROVE  \A s \in SUBSET (S \cap T) : g[s] = h[s]
  <1> DEFINE F == { s \in SUBSET (S \cap T) : g[s] # h[s] }
  <1> SUFFICES ASSUME F # {} PROVE FALSE
    OBVIOUS
  <1>1. IsFiniteSet(S \cap T)
    BY FS_Intersection
  <1>2. PICK A \in F : \A B \in F : B \subseteq A => B = A
    <2> HIDE DEF F
    <2>1. F \subseteq SUBSET (S \cap T)
      BY DEF F
    <2> QED
      BY <1>1, <2>1, SmallestSubset
  <1>3. A \in SUBSET S /\ A \in SUBSET T /\ g[A] # h[A]
    OBVIOUS
  <1>4. /\ g[A] = IF A = {} THEN 0 ELSE f[First(A)] + g[A \ {First(A)}]
        /\ h[A] = IF A = {} THEN 0 ELSE f[First(A)] + h[A \ {First(A)}]
    BY <1>3 DEF Sums
  <1>5. A # {}
    BY <1>3, <1>4
  <1>6. First(A) \in A
    BY <1>5, FirstIsIn
  <1>7. g[A \ {First(A)}] # h[A \ {First(A)}]
    BY <1>3, <1>4, <1>5
  <1>8. A \ {First(A)} \in F
    BY <1>3, <1>7
  <1> QED
    BY <1>2, <1>6, <1>8

\* There is one for every finite set.
LEMMA SumsExist ==
  ASSUME NEW f, NEW S, IsFiniteSet(S)
  PROVE  \E g : Sums(g, f, S)
  <1> DEFINE F == { T \in SUBSET S : ~ \E g : Sums(g, f, T) }
  <1> SUFFICES ASSUME F # {} PROVE FALSE
    OBVIOUS
  <1>1. PICK A \in F : \A B \in F : B \subseteq A => B = A
    <2> HIDE DEF F
    <2>1. F \subseteq SUBSET S
      BY DEF F
    <2> QED
      BY <2>1, SmallestSubset
  <1> DEFINE H(s) == CHOOSE g : Sums(g, f, s)
  <1>2. ASSUME NEW s \in SUBSET A, s # A PROVE Sums(H(s), f, s) /\ IsFiniteSet(s)
    <2>1. s \in SUBSET S /\ s \notin F
      BY <1>1, <1>2
    <2>2. \E g : Sums(g, f, s)
      BY <2>1
    <2> QED
      BY <2>1, <2>2, FS_Subset
  <1> HIDE DEF H, F
  <1> DEFINE G == [s \in SUBSET A |->
                     IF s = {} THEN 0
                     ELSE IF s = A THEN f[First(A)] + H(A \ {First(A)})[A \ {First(A)}]
                     ELSE H(s)[s]]
  <1>3. ASSUME NEW s \in SUBSET A
        PROVE  G[s] = IF s = {} THEN 0 ELSE f[First(s)] + G[s \ {First(s)}]
    <2>1. CASE s = {}
      BY <2>1
    <2>2. CASE s # {}
      <3> DEFINE r == s \ {First(s)}
      <3>1. First(s) \in s /\ r \in SUBSET A /\ r # A /\ r \subseteq s
        BY <2>2, FirstIsIn
      <3>2. Sums(H(r), f, r) /\ IsFiniteSet(r)
        BY <3>1, <1>2
      <3>3. G[r] = H(r)[r]
        <4>1. r = {} => H(r)[r] = 0
          BY <3>2 DEF Sums
        <4> QED
          BY <3>1, <4>1 DEF G
      <3>4. CASE s = A
        BY <3>3, <3>4, <2>2
      <3>5. CASE s # A
        <4>1. Sums(H(s), f, s) /\ IsFiniteSet(s)
          BY <3>5, <1>2
        <4>2. H(s)[s] = f[First(s)] + H(s)[r]
          BY <4>1, <2>2 DEF Sums
        <4>3. r \in SUBSET (s \cap r)
          BY <3>1
        <4>4. H(s)[r] = H(r)[r]
          BY <4>1, <3>2, <4>3, SumsAgree
        <4>5. G[s] = H(s)[s]
          BY <2>2, <3>5
        <4> QED
          BY <2>2, <3>3, <4>2, <4>4, <4>5
      <3> QED
        BY <3>4, <3>5
    <2> QED
      BY <2>1, <2>2
  <1>4. Sums(G, f, A)
    <2>1. G = [s \in SUBSET A |-> G[s]]
      OBVIOUS
    <2> HIDE DEF G
    <2> QED
      BY <1>3, <2>1 DEF Sums
  <1> HIDE DEF G
  <1> QED
    BY <1>1, <1>4 DEF F

\* The sum of a set is the value of its first element and the sum of the others.
LEMMA SumOfFirst ==
  ASSUME NEW f, NEW S, IsFiniteSet(S)
  PROVE  SumFunctionOnSet(f, S) =
           IF S = {} THEN 0 ELSE f[First(S)] + SumFunctionOnSet(f, S \ {First(S)})
  <1> DEFINE H(s) == CHOOSE g : Sums(g, f, s)
             r == S \ {First(S)}
  <1>1. Sums(H(S), f, S)
    BY SumsExist
  <1>2. IsFiniteSet(r)
    BY FS_RemoveElement
  <1>3. Sums(H(r), f, r)
    BY <1>2, SumsExist
  <1>4. SumFunctionOnSet(f, S) = H(S)[S] /\ SumFunctionOnSet(f, r) = H(r)[r]
    BY Unfold
  <1> HIDE DEF H
  <1>5. H(S)[r] = H(r)[r]
    <2>1. r \in SUBSET (S \cap r)
      OBVIOUS
    <2> QED
      BY <1>1, <1>2, <1>3, <2>1, SumsAgree
  <1>6. H(S)[S] = IF S = {} THEN 0 ELSE f[First(S)] + H(S)[r]
    BY <1>1 DEF Sums
  <1> QED
    BY <1>4, <1>5, <1>6

\* Nothing sums to zero.
LEMMA SumOfEmpty == \A f : SumFunctionOnSet(f, {}) = 0
  BY SumOfFirst, FS_EmptySet

\* What holds of the empty set, and of a finite set whenever it holds of all its proper
\* subsets, is proved below by a smallest subset for which it fails.

\* The sum of integers is one.
LEMMA SumIsInt ==
  ASSUME NEW S, IsFiniteSet(S), NEW f, \A x \in S : f[x] \in Int
  PROVE  SumFunctionOnSet(f, S) \in Int
  <1> DEFINE F == { T \in SUBSET S : SumFunctionOnSet(f, T) \notin Int }
  <1> SUFFICES ASSUME F # {} PROVE FALSE
    OBVIOUS
  <1>1. PICK A \in F : \A B \in F : B \subseteq A => B = A
    <2> HIDE DEF F
    <2>1. F \subseteq SUBSET S
      BY DEF F
    <2> QED
      BY <2>1, SmallestSubset
  <1>2. IsFiniteSet(A)
    BY FS_Subset
  <1>3. SumFunctionOnSet(f, A) =
          IF A = {} THEN 0 ELSE f[First(A)] + SumFunctionOnSet(f, A \ {First(A)})
    BY <1>2, SumOfFirst
  <1>4. A # {}
    BY <1>3
  <1>5. First(A) \in A
    BY <1>4, FirstIsIn
  <1>6. SumFunctionOnSet(f, A \ {First(A)}) \in Int
    BY <1>1, <1>5
  <1> QED
    BY <1>3, <1>4, <1>5, <1>6

\* Any element can be taken out of a sum.
LEMMA SumOfOthers ==
  ASSUME NEW S, IsFiniteSet(S), NEW f, \A x \in S : f[x] \in Int, NEW y \in S
  PROVE  SumFunctionOnSet(f, S) = f[y] + SumFunctionOnSet(f, S \ {y})
  <1> DEFINE Splits(T, z) == SumFunctionOnSet(f, T) = f[z] + SumFunctionOnSet(f, T \ {z})
             F == { T \in SUBSET S : \E z \in T : ~ Splits(T, z) }
  <1> SUFFICES ASSUME F # {} PROVE FALSE
    OBVIOUS
  <1>1. PICK A \in F : \A B \in F : B \subseteq A => B = A
    <2> HIDE DEF F
    <2>1. F \subseteq SUBSET S
      BY DEF F
    <2> QED
      BY <2>1, SmallestSubset
  <1>2. PICK z \in A : ~ Splits(A, z)
    BY <1>1
  <1> DEFINE x == First(A)
             R == (A \ {x}) \ {z}
  <1>3. A \in SUBSET S /\ x \in A /\ A # {} /\ IsFiniteSet(A) /\ IsFiniteSet(R)
    BY FirstIsIn, FS_Subset
  <1>4. Splits(A, x)
    BY <1>3, SumOfFirst
  <1>5. x # z
    BY <1>2, <1>4
  <1>6. Splits(A \ {x}, z) /\ Splits(A \ {z}, x)
    <2>1. ASSUME NEW T \in SUBSET A, T # A PROVE \A v \in T : Splits(T, v)
      <3>1. T \notin F
        BY <1>1, <2>1
      <3>2. T \in SUBSET S
        BY <1>3
      <3> QED
        BY <3>1, <3>2
    <2>2. /\ A \ {x} \in SUBSET A /\ A \ {x} # A /\ z \in A \ {x}
          /\ A \ {z} \in SUBSET A /\ A \ {z} # A /\ x \in A \ {z}
      BY <1>2, <1>3, <1>5
    <2> HIDE DEF Splits, x
    <2> QED
      BY <2>1, <2>2
  <1>7. (A \ {z}) \ {x} = R
    OBVIOUS
  <1>8. f[x] \in Int /\ f[z] \in Int /\ SumFunctionOnSet(f, R) \in Int
    BY <1>2, <1>3, SumIsInt
  <1> HIDE DEF R, x
  <1>9. /\ SumFunctionOnSet(f, A) = f[x] + (f[z] + SumFunctionOnSet(f, R))
        /\ SumFunctionOnSet(f, A \ {z}) = f[x] + SumFunctionOnSet(f, R)
    BY <1>4, <1>6, <1>7 DEF R
  <1> QED
    BY <1>2, <1>8, <1>9

-----------------------------------------------------------------------------
(* The sum of a function with integer values over its domain.              *)

\* The total of a function of integers is one.
LEMMA TotalIsInt ==
  ASSUME NEW S, IsFiniteSet(S), NEW f \in [S -> Int]
  PROVE  SumFunction(f) \in Int /\ SumFunction(f) = SumFunctionOnSet(f, S)
  BY SumIsInt DEF SumFunction

\* A function that is nowhere lower has a total that is not lower.
LEMMA TotalGrows ==
  ASSUME NEW S, IsFiniteSet(S), NEW f \in [S -> Int], NEW g \in [S -> Int],
         \A x \in S : f[x] <= g[x]
  PROVE  SumFunction(f) <= SumFunction(g)
  <1> DEFINE F == { T \in SUBSET S : ~ (SumFunctionOnSet(f, T) <= SumFunctionOnSet(g, T)) }
  <1> SUFFICES ASSUME F # {} PROVE FALSE
    BY TotalIsInt
  <1>1. PICK A \in F : \A B \in F : B \subseteq A => B = A
    <2> HIDE DEF F
    <2>1. F \subseteq SUBSET S
      BY DEF F
    <2> QED
      BY <2>1, SmallestSubset
  <1>2. IsFiniteSet(A) /\ A \in SUBSET S
    BY FS_Subset
  <1>3. A # {}
    <2>1. SumFunctionOnSet(f, {}) = 0 /\ SumFunctionOnSet(g, {}) = 0
      BY SumOfEmpty
    <2>2. ASSUME A = {} PROVE FALSE
      <3>1. SumFunctionOnSet(f, A) = 0 /\ SumFunctionOnSet(g, A) = 0
        BY <2>1, <2>2
      <3>2. ~ (SumFunctionOnSet(f, A) <= SumFunctionOnSet(g, A))
        BY <1>1
      <3> QED
        BY ONLY <3>1, <3>2
    <2> QED
      BY <2>2
  <1>4. PICK x \in A : TRUE
    BY <1>3
  <1>5. SumFunctionOnSet(f, A) = f[x] + SumFunctionOnSet(f, A \ {x})
    BY <1>2, SumOfOthers
  <1>6. SumFunctionOnSet(g, A) = g[x] + SumFunctionOnSet(g, A \ {x})
    BY <1>2, SumOfOthers
  <1>7. IsFiniteSet(A \ {x})
    BY <1>2, FS_RemoveElement
  <1>8. SumFunctionOnSet(f, A \ {x}) \in Int /\ SumFunctionOnSet(g, A \ {x}) \in Int
    BY <1>2, <1>7, SumIsInt
  <1>9. SumFunctionOnSet(f, A \ {x}) <= SumFunctionOnSet(g, A \ {x})
    BY <1>1, <1>2
  <1>10. f[x] \in Int /\ g[x] \in Int /\ f[x] <= g[x]
    BY <1>2
  <1>11. ~ (SumFunctionOnSet(f, A) <= SumFunctionOnSet(g, A))
    BY <1>1
  <1> HIDE DEF F
  <1> QED
    BY <1>5, <1>6, <1>8, <1>9, <1>10, <1>11

\* Only the value at y changes.
LEMMA TotalChanges ==
  ASSUME NEW S, IsFiniteSet(S), NEW f \in [S -> Int], NEW g \in [S -> Int],
         NEW y \in S, \A x \in S \ {y} : g[x] = f[x]
  PROVE  SumFunction(g) = SumFunction(f) + (g[y] - f[y])
  <1> DEFINE R == S \ {y}
             fr == [x \in R |-> f[x]]
             gr == [x \in R |-> g[x]]
  <1>1. IsFiniteSet(R)
    BY FS_RemoveElement
  <1>2. /\ SumFunctionOnSet(f, S) = f[y] + SumFunctionOnSet(f, R)
        /\ SumFunctionOnSet(g, S) = g[y] + SumFunctionOnSet(g, R)
    BY SumOfOthers
  <1>3. /\ SumFunctionOnSet(f, R) \in Int /\ SumFunctionOnSet(g, R) \in Int
    BY <1>1, SumIsInt
  <1>4. SumFunctionOnSet(f, R) = SumFunctionOnSet(g, R)
    <2>1. ASSUME NEW h, NEW k, NEW T, IsFiniteSet(T), \A x \in T : h[x] = k[x]
          PROVE  SumFunctionOnSet(h, T) = SumFunctionOnSet(k, T)
      <3> DEFINE F == { U \in SUBSET T : SumFunctionOnSet(h, U) # SumFunctionOnSet(k, U) }
      <3> SUFFICES ASSUME F # {} PROVE FALSE
        OBVIOUS
      <3>1. PICK A \in F : \A B \in F : B \subseteq A => B = A
        <4> HIDE DEF F
        <4>1. F \subseteq SUBSET T
          BY DEF F
        <4> QED
          BY <2>1, <4>1, SmallestSubset
      <3>2. IsFiniteSet(A)
        BY <2>1, FS_Subset
      <3>3. A # {}
        BY SumOfEmpty, <3>1
      <3>4. /\ SumFunctionOnSet(h, A) = h[First(A)] + SumFunctionOnSet(h, A \ {First(A)})
            /\ SumFunctionOnSet(k, A) = k[First(A)] + SumFunctionOnSet(k, A \ {First(A)})
        BY <3>2, <3>3, SumOfFirst
      <3>5. First(A) \in A
        BY <3>3, FirstIsIn
      <3>6. SumFunctionOnSet(h, A \ {First(A)}) = SumFunctionOnSet(k, A \ {First(A)})
        BY <3>1, <3>5
      <3>7. h[First(A)] = k[First(A)]
        BY <2>1, <3>5
      <3> QED
        BY <3>1, <3>4, <3>6, <3>7
    <2> QED
      BY <1>1, <2>1
  <1>5. f[y] \in Int /\ g[y] \in Int
    OBVIOUS
  <1>6. SumFunction(f) = SumFunctionOnSet(f, S) /\ SumFunction(g) = SumFunctionOnSet(g, S)
    BY TotalIsInt
  <1> HIDE DEF R
  <1> QED
    BY <1>2, <1>3, <1>4, <1>5, <1>6

\* The total of zeros.
LEMMA TotalOfZeros ==
  ASSUME NEW S, IsFiniteSet(S), NEW f \in [S -> {0}]
  PROVE  SumFunction(f) = 0
  <1> DEFINE F == { T \in SUBSET S : SumFunctionOnSet(f, T) # 0 }
  <1>0. f \in [S -> Int] /\ \A x \in S : f[x] = 0
    OBVIOUS
  <1> SUFFICES ASSUME F # {} PROVE FALSE
    BY <1>0, TotalIsInt
  <1>1. PICK A \in F : \A B \in F : B \subseteq A => B = A
    <2> HIDE DEF F
    <2>1. F \subseteq SUBSET S
      BY DEF F
    <2> QED
      BY <2>1, SmallestSubset
  <1>2. IsFiniteSet(A) /\ A \in SUBSET S
    BY FS_Subset
  <1>3. SumFunctionOnSet(f, A) =
          IF A = {} THEN 0 ELSE f[First(A)] + SumFunctionOnSet(f, A \ {First(A)})
    BY <1>2, SumOfFirst
  <1>4. A # {} /\ SumFunctionOnSet(f, A) # 0
    BY <1>1, <1>3
  <1>5. First(A) \in A
    BY <1>4, FirstIsIn
  <1>6. SumFunctionOnSet(f, A \ {First(A)}) = 0
    BY <1>1, <1>5
  <1>7. f[First(A)] = 0
    BY <1>0, <1>2, <1>5
  <1> HIDE DEF F
  <1> QED
    BY <1>3, <1>4, <1>6, <1>7
=============================================================================
