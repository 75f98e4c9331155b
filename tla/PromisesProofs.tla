---------------------------- MODULE PromisesProofs ----------------------------
(***************************************************************************)
(* Theorems about Promises: that it only watches Rewards, that more        *)
(* reputation never brings fewer points, and that what a phone showed with *)
(* a task is kept when requests come one at a time.                        *)
(***************************************************************************)
EXTENDS Promises, RewardsProofs

-----------------------------------------------------------------------------
(* The strategies, as functions of the reputations.                        *)

\* A higher reputation has no lower level, and a level no fewer points.
LEMMA LevelsRise ==
  ASSUME NEW v \in Int, NEW w \in Int, v <= w
  PROVE  /\ Level(v) \in 1 .. 4 /\ Level(w) \in 1 .. 4 /\ Level(v) <= Level(w)
         /\ LevelPoints[Level(v)] \in Int
         /\ LevelPoints[Level(v)] <= LevelPoints[Level(w)]
  <1>1. /\ Level(v) = IF v >= 76 THEN 4 ELSE IF v >= 51 THEN 3 ELSE IF v >= 26 THEN 2 ELSE 1
        /\ Level(w) = IF w >= 76 THEN 4 ELSE IF w >= 51 THEN 3 ELSE IF w >= 26 THEN 2 ELSE 1
    BY DEF Level
  <1>2. Level(v) \in 1 .. 4 /\ Level(w) \in 1 .. 4 /\ Level(v) <= Level(w)
    BY <1>1
  <1>3. \A k \in 1 .. 4, l \in 1 .. 4 :
          k <= l => LevelPoints[k] \in Int /\ LevelPoints[k] <= LevelPoints[l]
    BY DEF LevelPoints
  <1> QED
    BY <1>2, <1>3

\* 0.6 of a higher reputation, cut to an integer, is no less.
LEMMA ReputationPointsRise ==
  ASSUME NEW v \in Int, NEW w \in Int, v <= w
  PROVE  ReputationPoints(v) \in Int /\ ReputationPoints(v) <= ReputationPoints(w)
  BY DEF ReputationPoints

\* The average of a higher sum, cut to an integer, is no lower.
LEMMA QuotientsRise ==
  ASSUME NEW a \in Int, NEW b \in Int, a <= b, NEW n \in Nat, n > 0
  PROVE  a \div n \in Int /\ b \div n \in Int /\ a \div n <= b \div n
  OBVIOUS

\* BySumLevel.
LEMMA SumsOfLevelsRise ==
  ASSUME NEW A, IsFiniteSet(A), NEW f \in [A -> Int], NEW g \in [A -> Int],
         \A a \in A : f[a] <= g[a]
  PROVE  BySumLevel(f) <= BySumLevel(g)
  <1>1. PICK F, G : /\ F = [a \in A |-> LevelPoints[Level(f[a])]]
                    /\ G = [a \in A |-> LevelPoints[Level(g[a])]]
    OBVIOUS
  <1>2. /\ F \in [A -> Int] /\ G \in [A -> Int] /\ \A a \in A : F[a] <= G[a]
    BY <1>1, LevelsRise
  <1> QED
    BY <1>1, <1>2, TotalGrows DEF BySumLevel

\* BySumReputation.
LEMMA SumsOfReputationsRise ==
  ASSUME NEW A, IsFiniteSet(A), NEW f \in [A -> Int], NEW g \in [A -> Int],
         \A a \in A : f[a] <= g[a]
  PROVE  BySumReputation(f) <= BySumReputation(g)
  <1>1. PICK F, G : /\ F = [a \in A |-> ReputationPoints(f[a])]
                    /\ G = [a \in A |-> ReputationPoints(g[a])]
    OBVIOUS
  <1>2. /\ F \in [A -> Int] /\ G \in [A -> Int] /\ \A a \in A : F[a] <= G[a]
    BY <1>1, ReputationPointsRise
  <1> QED
    BY <1>1, <1>2, TotalGrows DEF BySumReputation

\* ByAverageReputation, rounded twice.
LEMMA AveragesRise ==
  ASSUME NEW A, IsFiniteSet(A), NEW f \in [A -> Int], NEW g \in [A -> Int],
         \A a \in A : f[a] <= g[a]
  PROVE  ByAverageReputation(f) <= ByAverageReputation(g)
  <1>1. DOMAIN f = A /\ DOMAIN g = A
    OBVIOUS
  <1>2. CASE A = {}
    BY <1>1, <1>2 DEF ByAverageReputation
  <1>3. CASE A # {}
    <2>1. PICK n : n = Cardinality(A)
      OBVIOUS
    <2>2. n \in Nat /\ n > 0
      BY <1>3, <2>1, FS_CardinalityType, FS_EmptySet
    <2>3. SumFunction(f) \in Int /\ SumFunction(g) \in Int /\ SumFunction(f) <= SumFunction(g)
      BY TotalIsInt, TotalGrows
    <2>4. /\ SumFunction(f) \div n \in Int /\ SumFunction(g) \div n \in Int
          /\ SumFunction(f) \div n <= SumFunction(g) \div n
      BY <2>2, <2>3, QuotientsRise
    <2>5. ReputationPoints(SumFunction(f) \div n) <= ReputationPoints(SumFunction(g) \div n)
      BY <2>4, ReputationPointsRise
    <2> QED
      BY <1>1, <1>3, <2>1, <2>5 DEF ByAverageReputation
  <1> QED
    BY <1>2, <1>3

\* The level that most of one or two reputations have is the lower of them.
LEMMA LevelOfTwo ==
  ASSUME NEW a, NEW b, NEW f \in [{a, b} -> Int]
  PROVE  ByAverageLevel(f) = IF Level(f[a]) <= Level(f[b]) THEN LevelPoints[Level(f[a])]
                                                           ELSE LevelPoints[Level(f[b])]
  <1> DEFINE having(l) == Cardinality({ x \in DOMAIN f : Level(f[x]) = l })
             most == Max({ having(l) : l \in 1 .. 4 })
  <1>1. PICK k \in 1 .. 4, m \in 1 .. 4 : k = Level(f[a]) /\ m = Level(f[b])
    BY LevelsRise
  <1>2. \A l \in 1 .. 4 :
          having(l) = IF k = l /\ m = l THEN (IF a = b THEN 1 ELSE 2)
                      ELSE IF k = l \/ m = l THEN 1 ELSE 0
    <2> SUFFICES ASSUME NEW l \in 1 .. 4
                 PROVE  having(l) = IF k = l /\ m = l THEN (IF a = b THEN 1 ELSE 2)
                                    ELSE IF k = l \/ m = l THEN 1 ELSE 0
      OBVIOUS
    <2>1. CASE k = l /\ m = l
      <3>1. { x \in DOMAIN f : Level(f[x]) = l } = {a, b}
        BY <1>1, <2>1
      <3>2. a = b => Cardinality({a, b}) = 1
        BY FS_Singleton
      <3>3. a # b => Cardinality({a, b}) = 2
        <4>1. {a, b} = {a} \cup {b}
          OBVIOUS
        <4>2. IsFiniteSet({a}) /\ Cardinality({a}) = 1
          BY FS_Singleton
        <4>3. a # b => Cardinality({a} \cup {b}) = Cardinality({a}) + 1
          BY <4>2, FS_AddElement
        <4> QED
          BY <4>1, <4>2, <4>3
      <3> QED
        BY <2>1, <3>1, <3>2, <3>3
    <2>2. CASE k = l /\ m # l
      <3>1. { x \in DOMAIN f : Level(f[x]) = l } = {a}
        BY <1>1, <2>2
      <3> QED
        BY <2>2, <3>1, FS_Singleton
    <2>3. CASE k # l /\ m = l
      <3>1. { x \in DOMAIN f : Level(f[x]) = l } = {b}
        BY <1>1, <2>3
      <3> QED
        BY <2>3, <3>1, FS_Singleton
    <2>4. CASE k # l /\ m # l
      <3>1. { x \in DOMAIN f : Level(f[x]) = l } = {}
        BY <1>1, <2>4
      <3> QED
        BY <2>4, <3>1, FS_EmptySet
    <2> QED
      BY <2>1, <2>2, <2>3, <2>4
  <1>3. a = b => k = m
    BY <1>1
  <1> HIDE DEF having
  <1>4. most = IF k = m /\ a # b THEN 2 ELSE 1
    <2>1. PICK M : M = { having(l) : l \in 1 .. 4 }
      OBVIOUS
    <2>2. \A x \in M : x \in Int
      BY <1>2, <2>1
    <2>3. PICK z : z = IF k = m /\ a # b THEN 2 ELSE 1
      OBVIOUS
    <2>4. z \in M /\ \A x \in M : z >= x
      <3>1. having(k) = z
        BY <1>2, <1>3, <2>3
      <3>2. \A l \in 1 .. 4 : z >= having(l)
        BY <1>2, <1>3, <2>3
      <3> QED
        BY <2>1, <3>1, <3>2
    <2>5. Max(M) = z
      <3>1. z \in Int
        BY <2>2, <2>4
      <3>2. Max(M) \in M /\ \A x \in M : Max(M) >= x
        BY <2>4 DEF Max
      <3>3. Max(M) \in Int
        BY <2>2, <3>2
      <3> QED
        BY <2>4, <3>1, <3>2, <3>3
    <2> QED
      BY <2>1, <2>3, <2>5
  <1>5. { l \in 1 .. 4 : having(l) = most } = {k, m}
    BY <1>2, <1>3, <1>4
  <1>6. Min({k, m}) = IF k <= m THEN k ELSE m
    <2>1. /\ Min({k, m}) \in {k, m}
          /\ \A x \in {k, m} : Min({k, m}) <= x
      BY DEF Min
    <2> QED
      BY <2>1
  <1>7. ByAverageLevel(f) = LevelPoints[Min({ l \in 1 .. 4 : having(l) = most })]
    BY DEF ByAverageLevel, having
  <1> QED
    BY <1>1, <1>5, <1>6, <1>7

\* ByAverageLevel, of one or two actions.
LEMMA LevelsOfTwoRise ==
  ASSUME NEW A, IsFiniteSet(A), A # {}, Cardinality(A) <= 2,
         NEW f \in [A -> Int], NEW g \in [A -> Int],
         \A a \in A : f[a] <= g[a]
  PROVE  ByAverageLevel(f) <= ByAverageLevel(g)
  <1>1. PICK a, b : A = {a, b}
    <2>1. PICK a \in A : TRUE
      OBVIOUS
    <2>2. CASE A = {a}
      BY <2>2
    <2>3. CASE A # {a}
      <3>1. PICK b \in A : b # a
        BY <2>1, <2>3
      <3>2. {a, b} \subseteq A /\ IsFiniteSet({a}) /\ Cardinality({a}) = 1
        BY FS_Singleton
      <3>3. {a, b} = {a} \cup {b} /\ b \notin {a}
        BY <3>1
      <3>4. IsFiniteSet({a, b}) /\ Cardinality({a, b}) = 2
        <4>1. /\ IsFiniteSet({a} \cup {b})
              /\ Cardinality({a} \cup {b}) = Cardinality({a}) + 1
          BY <3>2, <3>3, FS_AddElement
        <4> QED
          BY <3>2, <3>3, <4>1
      <3>5. Cardinality(A) \in Nat
        BY FS_CardinalityType
      <3>6. Cardinality(A) = Cardinality({a, b})
        <4>1. Cardinality({a, b}) <= Cardinality(A)
          BY <3>2, FS_Subset
        <4> QED
          BY <3>4, <3>5, <4>1
      <3>7. A = {a, b}
        BY <3>2, <3>6, FS_Subset
      <3> QED
        BY <3>7
    <2> QED
      BY <2>2, <2>3
  <1>2. /\ f[a] \in Int /\ f[b] \in Int /\ g[a] \in Int /\ g[b] \in Int
        /\ f[a] <= g[a] /\ f[b] <= g[b]
    BY <1>1
  <1>3. /\ Level(f[a]) <= Level(g[a]) /\ Level(f[b]) <= Level(g[b])
        /\ Level(f[a]) \in 1 .. 4 /\ Level(f[b]) \in 1 .. 4
        /\ Level(g[a]) \in 1 .. 4 /\ Level(g[b]) \in 1 .. 4
    BY <1>2, LevelsRise
  <1>4. \A k \in 1 .. 4, l \in 1 .. 4 : k <= l => LevelPoints[k] <= LevelPoints[l]
    BY DEF LevelPoints
  <1>5. /\ ByAverageLevel(f) = IF Level(f[a]) <= Level(f[b]) THEN LevelPoints[Level(f[a])]
                                                           ELSE LevelPoints[Level(f[b])]
        /\ ByAverageLevel(g) = IF Level(g[a]) <= Level(g[b]) THEN LevelPoints[Level(g[a])]
                                                           ELSE LevelPoints[Level(g[b])]
    BY <1>1, LevelOfTwo
  <1> QED
    BY <1>3, <1>4, <1>5

\* The strategies administrators choose from: no fewer points for reputations none of which is
\* lower, but for the level most of three or more reputations have.
THEOREM PointsRise ==
  ASSUME NEW A, IsFiniteSet(A), A # {}, NEW f \in [A -> Int], NEW g \in [A -> Int],
         \A a \in A : f[a] <= g[a],
         NEW id \in 1 .. 5, id = 1 => Cardinality(A) <= 2
  PROVE  PointsBy(id, f) <= PointsBy(id, g)
  <1>1. CASE id = 1
    BY <1>1, LevelsOfTwoRise DEF PointsBy
  <1>2. CASE id = 2
    BY <1>2, AveragesRise DEF PointsBy
  <1>3. CASE id = 3
    BY <1>3, SumsOfLevelsRise DEF PointsBy
  <1>4. CASE id = 4
    BY <1>4, SumsOfReputationsRise DEF PointsBy
  <1>5. CASE id = 5
    BY <1>5 DEF PointsBy, OfGroup
  <1> QED
    BY <1>1, <1>2, <1>3, <1>4, <1>5

\* The level that most reputations have, and more than each lower one.
LEMMA MostCommon ==
  ASSUME NEW f, NEW n \in [1 .. 4 -> Nat],
         \A l \in 1 .. 4 : Cardinality({ x \in DOMAIN f : Level(f[x]) = l }) = n[l],
         NEW m \in 1 .. 4,
         \A l \in 1 .. 4 : n[l] <= n[m] /\ (l < m => n[l] < n[m])
  PROVE  ByAverageLevel(f) = LevelPoints[m]
  <1> DEFINE having(l) == Cardinality({ x \in DOMAIN f : Level(f[x]) = l })
  <1>0. \A l \in 1 .. 4 : having(l) = n[l] /\ n[l] \in Nat
    OBVIOUS
  <1> HIDE DEF having
  <1>1. PICK M, B : M = { having(l) : l \in 1 .. 4 } /\ B = { l \in 1 .. 4 : having(l) = Max(M) }
    OBVIOUS
  <1>2. n[m] \in M /\ \A x \in M : x \in Nat /\ x <= n[m]
    BY <1>0, <1>1
  <1>3. Max(M) = n[m]
    <2>1. Max(M) \in M /\ \A x \in M : Max(M) >= x
      BY <1>2 DEF Max
    <2> QED
      BY <1>2, <2>1
  <1>4. m \in B /\ \A l \in B : l \in 1 .. 4 /\ m <= l
    <2>1. ASSUME NEW l \in 1 .. 4, n[l] = n[m] PROVE m <= l
      BY <1>0, <2>1
    <2> QED
      BY <1>0, <1>1, <1>3, <2>1
  <1>5. Min(B) = m
    <2>1. PICK z : z = Min(B)
      OBVIOUS
    <2>2. z \in B /\ \A l \in B : z <= l
      BY <1>4, <2>1 DEF Min
    <2>3. z \in 1 .. 4 /\ m <= z /\ z <= m
      BY <1>4, <2>2
    <2> QED
      BY <2>1, <2>3
  <1>6. ByAverageLevel(f) = LevelPoints[Min(B)]
    BY <1>1 DEF ByAverageLevel, having
  <1> QED
    BY <1>5, <1>6

\* The exception is one: with three actions ByAverageLevel pays less for a higher
\* reputation, 80 points for levels 2, 2 and 1, and 60 for 3, 2 and 1.
THEOREM AverageLevelMayFall ==
  ASSUME NEW a, NEW b, NEW c, a # b, b # c, a # c
  PROVE  \E f, g \in [{a, b, c} -> 0 .. 100] :
           (\A x \in {a, b, c} : f[x] <= g[x]) /\ PointsBy(1, g) < PointsBy(1, f)
  <1>1. PICK f : f = [x \in {a, b, c} |-> IF x = c THEN 0 ELSE 30]
    OBVIOUS
  <1>2. PICK g : g = [x \in {a, b, c} |-> IF x = c THEN 0 ELSE IF x = b THEN 30 ELSE 60]
    OBVIOUS
  <1>3. Level(0) = 1 /\ Level(30) = 2 /\ Level(60) = 3
    <2>1. \A v \in 0 .. 100 :
            Level(v) = IF v >= 76 THEN 4 ELSE IF v >= 51 THEN 3 ELSE IF v >= 26 THEN 2 ELSE 1
      BY DEF Level
    <2> QED
      BY <2>1
  <1>4. /\ f \in [{a, b, c} -> 0 .. 100] /\ g \in [{a, b, c} -> 0 .. 100]
        /\ \A x \in {a, b, c} : f[x] <= g[x]
    BY <1>1, <1>2
  <1>5. f[a] = 30 /\ f[b] = 30 /\ f[c] = 0 /\ g[a] = 60 /\ g[b] = 30 /\ g[c] = 0
    BY <1>1, <1>2
  <1>6. Cardinality({}) = 0 /\ Cardinality({a}) = 1 /\ Cardinality({b}) = 1 /\ Cardinality({c}) = 1
    BY FS_EmptySet, FS_Singleton
  <1>7. Cardinality({a, b}) = 2
    <2>1. {a, b} = {a} \cup {b} /\ b \notin {a} /\ IsFiniteSet({a})
      BY FS_Singleton
    <2>2. Cardinality({a} \cup {b}) = Cardinality({a}) + 1
      BY <2>1, FS_AddElement
    <2> QED
      BY <1>6, <2>1, <2>2
  <1>8. ByAverageLevel(f) = LevelPoints[2]
    <2>1. PICK n : n = [l \in 1 .. 4 |-> IF l = 1 THEN 1 ELSE IF l = 2 THEN 2 ELSE 0]
      OBVIOUS
    <2>2. ASSUME NEW l \in 1 .. 4
          PROVE  Cardinality({ x \in DOMAIN f : Level(f[x]) = l }) = n[l]
      <3>1. DOMAIN f = {a, b, c}
        BY <1>4
      <3>2. CASE l = 1
        <4>1. { x \in DOMAIN f : Level(f[x]) = l } = {c}
          BY <1>3, <1>5, <3>1, <3>2
        <4> QED
          BY <1>6, <2>1, <3>2, <4>1
      <3>3. CASE l = 2
        <4>1. { x \in DOMAIN f : Level(f[x]) = l } = {a, b}
          BY <1>3, <1>5, <3>1, <3>3
        <4> QED
          BY <1>7, <2>1, <3>3, <4>1
      <3>4. CASE l \in {3, 4}
        <4>1. { x \in DOMAIN f : Level(f[x]) = l } = {}
          BY <1>3, <1>5, <3>1, <3>4
        <4> QED
          BY <1>6, <2>1, <3>4, <4>1
      <3> QED
        BY <3>2, <3>3, <3>4
    <2>3. n \in [1 .. 4 -> Nat]
      BY <2>1
    <2>4. \A l \in 1 .. 4 : n[l] <= n[2] /\ (l < 2 => n[l] < n[2])
      BY <2>1
    <2> QED
      BY <2>2, <2>3, <2>4, MostCommon
  <1>9. ByAverageLevel(g) = LevelPoints[1]
    <2>1. PICK n : n = [l \in 1 .. 4 |-> IF l = 4 THEN 0 ELSE 1]
      OBVIOUS
    <2>2. ASSUME NEW l \in 1 .. 4
          PROVE  Cardinality({ x \in DOMAIN g : Level(g[x]) = l }) = n[l]
      <3>1. DOMAIN g = {a, b, c}
        BY <1>4
      <3>2. CASE l = 1
        <4>1. { x \in DOMAIN g : Level(g[x]) = l } = {c}
          BY <1>3, <1>5, <3>1, <3>2
        <4> QED
          BY <1>6, <2>1, <3>2, <4>1
      <3>3. CASE l = 2
        <4>1. { x \in DOMAIN g : Level(g[x]) = l } = {b}
          BY <1>3, <1>5, <3>1, <3>3
        <4> QED
          BY <1>6, <2>1, <3>3, <4>1
      <3>4. CASE l = 3
        <4>1. { x \in DOMAIN g : Level(g[x]) = l } = {a}
          BY <1>3, <1>5, <3>1, <3>4
        <4> QED
          BY <1>6, <2>1, <3>4, <4>1
      <3>5. CASE l = 4
        <4>1. { x \in DOMAIN g : Level(g[x]) = l } = {}
          BY <1>3, <1>5, <3>1, <3>5
        <4> QED
          BY <1>6, <2>1, <3>5, <4>1
      <3> QED
        BY <3>2, <3>3, <3>4, <3>5
    <2>3. n \in [1 .. 4 -> Nat]
      BY <2>1
    <2>4. \A l \in 1 .. 4 : n[l] <= n[1] /\ (l < 1 => n[l] < n[1])
      BY <2>1
    <2> QED
      BY <2>2, <2>3, <2>4, MostCommon
  <1>10. PointsBy(1, f) = 80 /\ PointsBy(1, g) = 60
    <2>1. PointsBy(1, f) = ByAverageLevel(f) /\ PointsBy(1, g) = ByAverageLevel(g)
      BY DEF PointsBy
    <2>2. LevelPoints[1] = 60 /\ LevelPoints[2] = 80
      BY DEF LevelPoints
    <2> QED
      BY <1>8, <1>9, <2>1, <2>2
  <1> QED
    BY <1>4, <1>10

-----------------------------------------------------------------------------
(* The steps are those of Rewards.                                         *)

USE RewardsAssumption, PromisesAssumption DEF beside

\* Answer, Compute and Save are steps of Rewards with a note taken.
LEMMA StepsAreRewards == [PNext]_promisesVars => [Next]_vars
  <1> SUFFICES ASSUME [PNext]_promisesVars PROVE [Next]_vars
    OBVIOUS
  <1>1. CASE UNCHANGED promisesVars
    BY <1>1 DEF promisesVars
  <1>2. ASSUME NEW i \in Request, Answer(i) PROVE Step(i)
    BY <1>2 DEF Answer, Step
  <1>3. ASSUME NEW i \in Request, Compute(i) PROVE Step(i)
    BY <1>3 DEF Compute, Step
  <1>4. ASSUME NEW i \in Request, Save(i) PROVE Step(i)
    BY <1>4 DEF Save, Step
  <1>5. CASE Restart
    BY <1>5 DEF Restart, Next
  <1>6. ASSUME NEW i \in Request, Other(i) PROVE Next
    <2>1. CASE \E u \in User : ListTasks(i, u)
      BY <2>1 DEF Next
    <2>2. CASE \E op \in Op, u \in User, t \in Task : GetUser(i, op, u, t)
      BY <2>2 DEF Next
    <2>3. CASE ~ (\/ \E u \in User : ListTasks(i, u)
                  \/ \E op \in Op, u \in User, t \in Task : GetUser(i, op, u, t))
      <3>1. Step(i)
        BY <1>6, <2>3 DEF Other, Step
      <3> QED
        BY <3>1 DEF Next
    <2> QED
      BY <2>1, <2>2, <2>3
  <1>7. CASE \E i \in Request : Step(i)
    BY <1>7 DEF Next
  <1>8. CASE (\E t \in Task : Choose(t)) \/ Flows
    BY <1>8 DEF Choose, Flows, Beside, Next
  <1> QED
    BY <1>1, <1>2, <1>3, <1>4, <1>5, <1>6, <1>7, <1>8 DEF PNext

\* What the phone is shown and what a completion brings are only recorded: every behaviour
\* with promises is one of Rewards, and all that is proved of Rewards holds of it.
THEOREM PromisesAddNothing == PSpec => Spec
  <1>1. PInit => Init
    BY DEF PInit
  <1> QED
    BY <1>1, StepsAreRewards, PTL DEF PSpec, Spec

-----------------------------------------------------------------------------
(* What a promise is backed by, with one worker.                           *)

InRange == MinReputation .. MaxReputation

\* The worker still has to write, for a report op on r, the reputation of the type of a.
InHand(op, r, a) ==
  \E i \in Request :
    /\ req[i].pc \in Moving /\ req[i].call.op = op /\ ReportOf(req[i].call) = r
    /\ \E b \in req[i].todo : TypeOf[b] = TypeOf[a]

\* The completion of r has been stored, and its points not yet been computed.
Completes(r) ==
  \E i \in Request :
    req[i].pc \in Moving /\ req[i].call.op = "complete" /\ ReportOf(req[i].call) = r

Settled(r) == outcome[r]["complete"] > 0 /\ ~ Completes(r)

\* The least the reputation for a may be by now, when it was x as the list was answered.
Least(r, a, x) ==
  IF outcome[r]["complete"] > 0
  THEN IF InHand("complete", r, a) THEN Clamp(x + Delta["accept"]) ELSE Expected(x)
  ELSE IF outcome[r]["accept"] > 0 /\ ~ InHand("accept", r, a)
       THEN Clamp(x + Delta["accept"]) ELSE x

Has(r, a, x) ==
  /\ RowsOf(r[1], TypeOf[a]) # {}
  /\ \A q \in RowsOf(r[1], TypeOf[a]) : reputation[q] >= Least(r, a, x)

Backed(r) ==
  \E v \in [ActionsOf[r[2]] -> InRange] :
    /\ promise[r] = PointsBy(Asked(r[2]), [a \in ActionsOf[r[2]] |-> Expected(v[a])])
    /\ \A a \in ActionsOf[r[2]] : Has(r, a, v[a])

\* ... but for a completion whose handler died before it paid.
Honoured(r) ==
  promise[r] > 0 /\ unpaid[r] = 0 =>
    IF Settled(r) THEN Rises(r[2]) => earned[r] >= promise[r] ELSE Backed(r)

Promised == \A r \in Reports : Honoured(r)

PTypes ==
  /\ strategy \in [Task -> 0 .. 5]
  /\ \A t \in Task : strategies[t] > 0 => strategy[t] \in StrategiesOf[t]
  /\ DOMAIN promise = Reports /\ DOMAIN earned = Reports

\* While reputations are lowered nothing is promised.
Spoiled ==
  \A i \in Request :
    req[i].pc \in Moving /\ req[i].call.op \in Losses =>
      \A t \in Task : promise[<< req[i].call.user, t >>] = 0

\* The value to be written back is still there.
Reads ==
  \A i \in Request :
    req[i].pc = "updating" =>
      req[i].row.id \in DOMAIN reputation /\ req[i].row.value = reputation[req[i].row.id]

\* A list misses no action of a task, and what it has seen is still so.
Covers(l, t, a) == << t, a >> \in l.todo \/ \E s \in l.seen : s[1] = t /\ s[2] = a

Listed(l, t) == (\E p \in l.todo : p[1] = t) \/ (\E s \in l.seen : s[1] = t)

ListStands(l) ==
  /\ \A t \in Task :
       Listed(l, t) => \A a \in ActionsOf[t] : Covers(l, t, a)
  /\ \A s \in l.seen : \E q \in RowsOf(l.user, TypeOf[s[2]]) : reputation[q] = s[3]

Lists ==
  \A i \in Request :
    /\ req[i].pc \in {"listing", "adding"} => ListStands(req[i].list)
    /\ req[i].pc = "adding" => << req[i].task, req[i].action >> \in req[i].list.todo

PromiseInv == PTypes /\ Promised /\ Spoiled /\ Reads /\ Lists

-----------------------------------------------------------------------------
(* One worker.                                                             *)

\* At most one row for a user and a type, and none while one is created.
LEMMA OneRow ==
  ASSUME IInv, NEW w, Request = {w}, NEW u \in User, NEW y \in Type
  PROVE  /\ \A q, r \in RowsOf(u, y) : q = r
         /\ ~ Cardinality(RowsOf(u, y)) > 1
         /\ Creates(w, u, y) => RowsOf(u, y) = {}
  <1>1. Cardinality(Request) = 1
    BY FS_Singleton
  <1>2. PICK n, m : n = Cardinality(RowsOf(u, y)) /\ m = Cardinality(Creators(u, y))
    OBVIOUS
  <1>3. IsFiniteSet(RowsOf(u, y)) /\ n \in Nat /\ (RowsOf(u, y) # {} => n > 0)
    BY <1>2, RowsAreCounted DEF IInv
  <1>4. Creators(u, y) \in SUBSET Request
    BY DEF Creators
  <1>5. m \in Nat /\ IsFiniteSet(Creators(u, y))
    BY <1>2, <1>4, WorkersAreFinite
  <1>6. n > 0 => n + m <= 1
    <2>1. RowsInFlight
      BY DEF IInv
    <2>2. Cardinality(RowsOf(u, y)) > 0 =>
            Cardinality(RowsOf(u, y)) + Cardinality(Creators(u, y)) <= Cardinality(Request)
      BY <2>1 DEF RowsInFlight
    <2> QED
      BY <1>1, <1>2, <2>2
  <1>7. ASSUME NEW q \in RowsOf(u, y), NEW r \in RowsOf(u, y) PROVE q = r
    <2>1. n = 1
      BY <1>3, <1>5, <1>6
    <2>2. PICK x : RowsOf(u, y) = {x}
      BY <1>2, <1>3, <2>1, FS_Singleton
    <2> QED
      BY <2>2
  <1>8. ASSUME Creates(w, u, y), RowsOf(u, y) # {} PROVE FALSE
    <2>1. Creators(u, y) = {w}
      BY <1>8 DEF Creators
    <2>2. m = 1
      BY <1>2, <2>1, FS_Singleton
    <2> QED
      BY <1>3, <1>6, <1>8, <2>2
  <1> QED
    BY <1>2, <1>3, <1>5, <1>6, <1>7, <1>8

\* At most one completion, of which the points are computed before they are paid.
LEMMA OneCompletion ==
  ASSUME IInv, NEW w, Request = {w}, NEW r \in Reports
  PROVE  /\ Completes(r) => outcome[r]["complete"] > 0
         /\ paid[r] > 0 => Settled(r) /\ unpaid[r] = 0
         /\ req[w].pc = "loaded" /\ req[w].call.op = "complete" /\ ReportOf(req[w].call) = r
              => outcome[r]["complete"] = 0
  <1>1. Cardinality(Request) = 1
    BY FS_Singleton
  <1>2. PICK c, n, m : /\ c = outcome[r]["complete"] /\ n = Cardinality(Owing(r))
                       /\ m = Cardinality(Completing(r))
    OBVIOUS
  <1>3. c \in Nat /\ paid[r] \in Nat /\ unpaid[r] \in Nat
    BY <1>2 DEF IInv, TypeOK, Op
  <1>4. Owing(r) \in SUBSET Request /\ Completing(r) \in SUBSET Request
    BY DEF Owing, Completing
  <1>5. n \in Nat /\ m \in Nat
    BY <1>2, <1>4, WorkersAreFinite
  <1>6. paid[r] + unpaid[r] + n = c
    BY <1>2 DEF IInv, PaymentAccounts, Owing
  <1>7. c > 0 => c + m <= 1
    BY <1>1, <1>2 DEF IInv, CompletionsBounded
  <1>8. ASSUME Completes(r) PROVE n = 1
    <2>1. Owes(w, r)
      BY <1>8 DEF Completes, Owes, Moving
    <2>2. Owing(r) = {w}
      BY <2>1 DEF Owing
    <2> QED
      BY <1>2, <2>2, FS_Singleton
  <1>9. ASSUME req[w].pc = "loaded", req[w].call.op = "complete", ReportOf(req[w].call) = r
        PROVE  m = 1
    <2>1. Completing(r) = {w}
      BY <1>9 DEF Completing
    <2> QED
      BY <1>2, <2>1, FS_Singleton
  <1>10. paid[r] > 0 => c = 1 /\ n = 0 /\ unpaid[r] = 0
    BY <1>3, <1>5, <1>6, <1>7
  <1>11. Completes(r) => c > 0
    BY <1>3, <1>5, <1>6, <1>8
  <1>12. m = 1 => c = 0
    BY <1>3, <1>5, <1>7
  <1> QED
    BY <1>2, <1>8, <1>9, <1>10, <1>11, <1>12 DEF Settled

\* Clamping keeps the order, and what is in the range.
LEMMA Clamps ==
  ASSUME NEW x \in Int, NEW y \in Int
  PROVE  /\ x <= y => Clamp(x) <= Clamp(y)
         /\ x \in InRange /\ x <= y => x <= Clamp(y)
         /\ Clamp(x) \in InRange
  BY DEF Clamp, InRange

\* The rows that are there stay as they are.
RowsStay ==
  \A u \in User, y \in Type :
    RowsOf(u, y) # {} =>
      RowsOf(u, y)' = RowsOf(u, y) /\ \A q \in RowsOf(u, y) : reputation'[q] = reputation[q]

\* The row that a query missed disturbs no other.
LEMMA MissingRows ==
  ASSUME NEW u \in User, NEW y \in Type, Adds(u, y), RowsOf(u, y) = {}
  PROVE  RowsStay
  <1>1. PICK new : /\ new = << u, y, Cardinality(RowsOf(u, y)) + 1 >>
                   /\ reputation' = [r \in DOMAIN reputation \cup {new} |->
                                       IF r = new THEN InitReputation ELSE reputation[r]]
    BY DEF Adds
  <1>2. new[1] = u /\ new[2] = y
    BY <1>1
  <1>3. new \notin DOMAIN reputation
    BY <1>2 DEF RowsOf
  <1>4. ASSUME NEW v \in User, NEW z \in Type, RowsOf(v, z) # {}
        PROVE  /\ RowsOf(v, z)' = RowsOf(v, z)
               /\ \A q \in RowsOf(v, z) : reputation'[q] = reputation[q]
    <2>1. ~ (v = u /\ z = y)
      BY <1>4
    <2>2. DOMAIN reputation' = DOMAIN reputation \cup {new}
      BY <1>1
    <2>3. RowsOf(v, z)' = RowsOf(v, z)
      BY <1>2, <2>1, <2>2 DEF RowsOf
    <2>4. \A q \in DOMAIN reputation : reputation'[q] = reputation[q]
      BY <1>1, <1>3
    <2> QED
      BY <2>3, <2>4 DEF RowsOf
  <1> QED
    BY <1>4 DEF RowsStay

\* ... nor do steps that write no reputation.
LEMMA SameRows == ASSUME UNCHANGED reputation PROVE RowsStay
  BY DEF RowsStay, RowsOf

\* Nothing that the promise for r depends on moves.
Rests(r) ==
  /\ outcome'[r] = outcome[r] /\ promise'[r] = promise[r] /\ earned'[r] = earned[r]
  /\ Asked(r[2])' = Asked(r[2])
  /\ unpaid'[r] = 0 => unpaid[r] = 0
  /\ Completes(r)' <=> Completes(r)
  /\ \A op \in {"accept", "complete"} : \A a \in ActionsOf[r[2]] :
       InHand(op, r, a)' <=> InHand(op, r, a)

\* The parts of a report.
LEMMA ReportParts ==
  ASSUME NEW r \in Reports
  PROVE  /\ r[1] \in User /\ r[2] \in Task /\ r = << r[1], r[2] >>
         /\ ActionsOf[r[2]] \subseteq Action /\ ActionsOf[r[2]] # {}
         /\ \A a \in ActionsOf[r[2]] : TypeOf[a] \in Type
  BY DEF Reports

\* A promise is backed again when each reputation is.
LEMMA BackedAgain ==
  ASSUME NEW r \in Reports, Backed(r), promise'[r] = promise[r],
         Asked(r[2])' = Asked(r[2]),
         \A a \in ActionsOf[r[2]] : \A x \in InRange : Has(r, a, x) => Has(r, a, x)'
  PROVE  Backed(r)'
  <1>1. PICK v \in [ActionsOf[r[2]] -> InRange] :
          /\ promise[r] = PointsBy(Asked(r[2]), [a \in ActionsOf[r[2]] |-> Expected(v[a])])
          /\ \A a \in ActionsOf[r[2]] : Has(r, a, v[a])
    BY DEF Backed
  <1>2. \A a \in ActionsOf[r[2]] : Has(r, a, v[a])'
    BY <1>1
  <1>3. promise'[r] = PointsBy(Asked(r[2])', [a \in ActionsOf[r[2]] |-> Expected(v[a])])
    BY <1>1
  <1> QED
    BY <1>2, <1>3 DEF Backed

\* A promise that nothing moves.
LEMMA HonouredRests ==
  ASSUME NEW r \in Reports, Honoured(r), Rests(r), RowsStay
  PROVE  Honoured(r)'
  <1>1. ASSUME NEW a \in ActionsOf[r[2]], NEW x \in InRange, Has(r, a, x)
        PROVE  Has(r, a, x)'
    <2>1. Least(r, a, x)' = Least(r, a, x)
      <3>1. /\ InHand("accept", r, a)' <=> InHand("accept", r, a)
            /\ InHand("complete", r, a)' <=> InHand("complete", r, a)
            /\ outcome'[r] = outcome[r]
        BY DEF Rests
      <3> QED
        BY <3>1 DEF Least
    <2>2. /\ RowsOf(r[1], TypeOf[a])' = RowsOf(r[1], TypeOf[a])
          /\ \A q \in RowsOf(r[1], TypeOf[a]) : reputation'[q] = reputation[q]
      BY <1>1, ReportParts DEF RowsStay, Has
    <2> QED
      BY <1>1, <2>1, <2>2 DEF Has
  <1>2. /\ promise'[r] = promise[r] /\ Asked(r[2])' = Asked(r[2]) /\ earned'[r] = earned[r]
        /\ unpaid'[r] = 0 => unpaid[r] = 0
    BY DEF Rests
  <1>3. Settled(r)' <=> Settled(r)
    BY DEF Settled, Rests
  <1>4. Rises(r[2])' <=> Rises(r[2])
    BY <1>2 DEF Rises
  <1>5. Backed(r) => Backed(r)'
    BY <1>1, <1>2, BackedAgain
  <1> QED
    BY <1>2, <1>3, <1>4, <1>5 DEF Honoured

\* The worker is, and goes, where it has nothing to write, or what it has to write stays
\* the same, or there was nothing left of it and it was no completion.
Elsewhere(w) ==
  \/ req[w].pc \notin Moving /\ req'[w].pc \notin Moving
  \/ /\ req[w].pc \in Moving /\ req'[w].pc \in Moving
     /\ req'[w].call = req[w].call /\ req'[w].todo = req[w].todo
  \/ /\ req[w].call.op # "complete" /\ req[w].todo = {}
     /\ req'[w].pc \notin Moving

\* All of them, where the worker does something else.
LEMMA PromisesRest ==
  ASSUME NEW w, Request = {w}, Elsewhere(w), RowsStay, Promised,
         UNCHANGED << outcome, strategies, strategy, promise, earned >>,
         \A r \in Reports : unpaid'[r] = 0 => unpaid[r] = 0
  PROVE  Promised'
  <1>1. ASSUME NEW r \in Reports PROVE Rests(r)
    <2>1. Completes(r)' <=> Completes(r)
      BY DEF Completes, Elsewhere
    <2>2. ASSUME NEW op \in {"accept", "complete"}, NEW a \in ActionsOf[r[2]]
          PROVE  InHand(op, r, a)' <=> InHand(op, r, a)
      BY DEF InHand, Elsewhere
    <2> QED
      BY <2>1, <2>2 DEF Rests, Asked
  <1> QED
    BY <1>1, HonouredRests DEF Promised

\* A strategy, whether or not there is a row for it.
LEMMA AskedType ==
  ASSUME TypeOK, PTypes, NEW t \in Task
  PROVE  Asked(t) \in 1 .. 5
  <1>1. CASE strategies[t] = 0
    BY <1>1 DEF Asked, Default
  <1>2. CASE strategies[t] # 0
    <2>1. strategies[t] \in Nat
      BY DEF TypeOK
    <2>2. strategy[t] \in StrategiesOf[t]
      BY <1>2, <2>1 DEF PTypes
    <2>3. StrategiesOf[t] \in (SUBSET (1 .. 5)) \ {{}}
      OBVIOUS
    <2> QED
      BY <1>2, <2>2, <2>3 DEF Asked
  <1> QED
    BY <1>1, <1>2

\* What a handler that died has not paid, nobody pays later.
LEMMA UnpaidStays ==
  ASSUME TypeOK, [Next]_vars, NEW r \in Reports, unpaid'[r] = 0
  PROVE  unpaid[r] = 0
  <1>0. unpaid[r] \in Nat
    BY DEF TypeOK
  <1>1. CASE UNCHANGED unpaid
    BY <1>1
  <1>2. ASSUME NEW i \in Request, Fails(i) PROVE unpaid[r] = 0
    <2>1. unpaid'[r] = IF Owes(i, r) THEN unpaid[r] + 1 ELSE unpaid[r]
      BY <1>2 DEF Fails
    <2> QED
      BY <1>0, <2>1
  <1>3. CASE Crash
    <2>1. PICK S : S = { i \in Request : Owes(i, r) }
      OBVIOUS
    <2>2. S \in SUBSET Request
      BY <2>1
    <2>3. Cardinality(S) \in Nat
      BY <2>2, WorkersAreFinite
    <2>4. unpaid'[r] = unpaid[r] + Cardinality(S)
      BY <1>3, <2>1 DEF Crash
    <2> QED
      BY <1>0, <2>3, <2>4
  <1>4. ASSUME NEW i \in Request, Step(i) PROVE unpaid[r] = 0
    <2>1. CASE FindReputation(i)
      BY <1>1, <1>2, <2>1 DEF FindReputation
    <2>2. CASE ComputePoints(i)
      BY <1>1, <1>2, <2>2, ComputeMoves
    <2>3. CASE FindStrategy(i)
      BY <1>1, <2>3, LookMoves
    <2>4. CASE ~ FindReputation(i) /\ ~ ComputePoints(i) /\ ~ FindStrategy(i)
      BY <1>1, <1>4, <2>4
        DEF Step, AlreadyCompleted, LoadReport, SaveReport, CreateReputation, UpdateReputation,
            Return, PayShare, PayOwn, CountReports, SaveBadges, ReadForList, AddForList,
            AnswerList
    <2> QED
      BY <2>1, <2>2, <2>3, <2>4
  <1>5. CASE \/ \E i \in Request, op \in Op, u \in User, t \in Task : GetUser(i, op, u, t)
             \/ \E i \in Request, u \in User : ListTasks(i, u)
             \/ Beside \/ UNCHANGED vars
    <2>1. UNCHANGED unpaid
      BY <1>5, BesideStands DEF GetUser, ListTasks, vars
    <2> QED
      BY <1>1, <2>1
  <1> QED
    BY <1>3, <1>4, <1>5 DEF Next

\* Rows of strategies are created by the administrator only.
LEMMA StepsChooseNothing ==
  ASSUME \/ \E i \in Request : Step(i)
         \/ \E i \in Request, op \in Op, u \in User, t \in Task : GetUser(i, op, u, t)
         \/ \E i \in Request, u \in User : ListTasks(i, u)
         \/ Flows \/ Crash \/ UNCHANGED vars
  PROVE  UNCHANGED strategies
  <1>1. ASSUME NEW i \in Request, Step(i) PROVE UNCHANGED strategies
    <2>1. CASE ComputePoints(i) \/ FindStrategy(i)
      BY <2>1, ComputeMoves, LookMoves
    <2>2. CASE ~ ComputePoints(i) /\ ~ FindStrategy(i)
      BY <1>1, <2>2
        DEF Step, AlreadyCompleted, LoadReport, SaveReport, FindReputation, CreateReputation,
            UpdateReputation, Return, PayShare, PayOwn, CountReports, SaveBadges, ReadForList,
            AddForList, AnswerList
    <2> QED
      BY <2>1, <2>2
  <1>2. CASE \/ \E i \in Request, op \in Op, u \in User, t \in Task : GetUser(i, op, u, t)
             \/ \E i \in Request, u \in User : ListTasks(i, u)
    BY <1>2 DEF GetUser, ListTasks
  <1>3. CASE Flows
    BY <1>3 DEF Flows, HoldUser, MergeUser
  <1>4. CASE Crash \/ UNCHANGED vars
    BY <1>4 DEF Crash, vars
  <1> QED
    BY <1>1, <1>2, <1>3, <1>4

\* A row has a strategy that may be chosen, and the notes are of reports.
LEMMA PTypesNext ==
  ASSUME TypeOK, PTypes, [PNext]_promisesVars
  PROVE  PTypes'
  <1>1. UNCHANGED promise \/ DOMAIN promise' = Reports
    BY DEF promisesVars, PNext, Answer, Compute, Save, Choose, Restart
  <1>2. DOMAIN earned' = DOMAIN earned
    BY DEF promisesVars, PNext, Answer, Compute, Save, Choose, Restart
  <1>3. CASE \E t \in Task : Choose(t)
    <2>1. PICK t \in Task : Choose(t)
      BY <1>3
    <2>2. PICK s \in StrategiesOf[t] :
            strategy' = [strategy EXCEPT ![t] = IF strategies[t] = 0 THEN s ELSE @]
      BY <2>1 DEF Choose
    <2>3. strategies' = [strategies EXCEPT ![t] = @ + 1] /\ strategies \in [Task -> Nat]
      BY <2>1 DEF Choose, AddStrategy, TypeOK
    <2>4. s \in 0 .. 5 /\ strategy[t] \in 0 .. 5 /\ strategy \in [Task -> 0 .. 5]
      <3>1. StrategiesOf[t] \in (SUBSET (1 .. 5)) \ {{}}
        OBVIOUS
      <3> QED
        BY <2>2, <3>1 DEF PTypes
    <2>5. strategy' \in [Task -> 0 .. 5]
      BY <2>2, <2>4
    <2>6. ASSUME NEW z \in Task, strategies'[z] > 0 PROVE strategy'[z] \in StrategiesOf[z]
      <3>1. CASE z # t
        BY <2>2, <2>3, <2>4, <2>6, <3>1 DEF PTypes
      <3>2. CASE z = t /\ strategies[t] = 0
        BY <2>2, <2>4, <3>2
      <3>3. CASE z = t /\ strategies[t] # 0
        <4>1. strategies[t] > 0
          BY <2>3, <3>3
        <4> QED
          BY <2>2, <2>4, <3>3, <4>1 DEF PTypes
      <3> QED
        BY <3>1, <3>2, <3>3
    <2> QED
      BY <1>1, <1>2, <2>5, <2>6 DEF PTypes
  <1>4. CASE ~ \E t \in Task : Choose(t)
    <2>1. UNCHANGED strategy
      BY <1>4 DEF promisesVars, PNext, Answer, Compute, Save, Restart
    <2>2. UNCHANGED strategies
      <3>1. ASSUME NEW i \in Request, Answer(i) \/ Compute(i) \/ Save(i) \/ Other(i)
            PROVE  \/ Step(i) \/ \E u \in User : ListTasks(i, u)
                   \/ \E op \in Op, u \in User, t \in Task : GetUser(i, op, u, t)
        BY <3>1 DEF Answer, Compute, Save, Other, Step
      <3> QED
        BY <1>4, <3>1, StepsChooseNothing DEF promisesVars, PNext, Restart
    <2> QED
      BY <1>1, <1>2, <2>1, <2>2 DEF PTypes
  <1> QED
    BY <1>3, <1>4

-----------------------------------------------------------------------------
(* Lists.                                                                  *)

\* The parts of a list.
LEMMA ListParts ==
  ASSUME NEW l \in List
  PROVE  /\ l.user \in User
         /\ \A s \in l.seen : s[2] \in Action /\ TypeOf[s[2]] \in Type /\ s[3] \in Int
  BY DEF List

\* A list that is as it was.
LEMMA ListRests ==
  ASSUME NEW l \in List, ListStands(l), RowsStay
  PROVE  ListStands(l)'
  <1>1. ASSUME NEW s \in l.seen
        PROVE  \E q \in RowsOf(l.user, TypeOf[s[2]])' : reputation'[q] = s[3]
    <2>1. PICK q \in RowsOf(l.user, TypeOf[s[2]]) : reputation[q] = s[3]
      BY DEF ListStands
    <2>2. /\ RowsOf(l.user, TypeOf[s[2]])' = RowsOf(l.user, TypeOf[s[2]])
          /\ reputation'[q] = reputation[q]
      BY <2>1, ListParts DEF RowsStay
    <2> QED
      BY <2>1, <2>2
  <1> QED
    BY <1>1 DEF ListStands

\* One more reputation has been seen.
LEMMA ListSees ==
  ASSUME NEW l \in List, ListStands(l), RowsStay,
         NEW t, NEW a, NEW v, << t, a >> \in l.todo,
         \E q \in RowsOf(l.user, TypeOf[a])' : reputation'[q] = v,
         NEW k, k = [user |-> l.user, todo |-> l.todo \ { << t, a >> },
                     seen |-> l.seen \cup { << t, a, v >> },
                     ask |-> l.ask, found |-> l.found]
  PROVE  ListStands(k)'
  <1>1. ListStands(l)'
    BY ListRests
  <1>2. k.user = l.user
    OBVIOUS
  <1>3. ASSUME NEW z, Listed(k, z) PROVE Listed(l, z)
    <2>1. CASE \E p \in k.todo : p[1] = z
      BY <2>1 DEF Listed
    <2>2. CASE \E s \in k.seen : s[1] = z
      <3>1. PICK s \in k.seen : s[1] = z
        BY <2>2
      <3>2. CASE s = << t, a, v >>
        <4>1. << t, a >>[1] = z
          BY <3>1, <3>2
        <4> QED
          BY <4>1 DEF Listed
      <3>3. CASE s \in l.seen
        BY <3>1, <3>3 DEF Listed
      <3> QED
        BY <3>1, <3>2, <3>3
    <2> QED
      BY <1>3, <2>1, <2>2 DEF Listed
  <1>4. ASSUME NEW z, NEW b, Covers(l, z, b) PROVE Covers(k, z, b)
    <2>1. CASE << z, b >> = << t, a >>
      <3>1. << t, a, v >> \in k.seen /\ << t, a, v >>[1] = z /\ << t, a, v >>[2] = b
        BY <2>1
      <3> QED
        BY <3>1 DEF Covers
    <2>2. CASE << z, b >> # << t, a >>
      BY <1>4, <2>2 DEF Covers
    <2> QED
      BY <2>1, <2>2
  <1>5. ASSUME NEW s \in k.seen
        PROVE  \E q \in RowsOf(l.user, TypeOf[s[2]])' : reputation'[q] = s[3]
    <2>1. CASE s = << t, a, v >>
      <3>1. s[2] = a /\ s[3] = v
        BY <2>1
      <3> QED
        BY <3>1
    <2>2. CASE s \in l.seen
      BY <1>1, <2>2 DEF ListStands
    <2> QED
      BY <2>1, <2>2
  <1>6. ASSUME NEW z \in Task, Listed(k, z)
        PROVE  \A b \in ActionsOf[z] : Covers(k, z, b)
    BY <1>1, <1>3, <1>4, <1>6 DEF ListStands
  <1> QED
    BY <1>2, <1>5, <1>6 DEF ListStands

Listing == {"listing", "adding"}

\* The handlers of reports do not list.
LEMMA HandlersListNothing ==
  ASSUME TypeOK, NEW i \in Request,
         \/ \E op \in Op, u \in User, t \in Task : GetUser(i, op, u, t)
         \/ Step(i) /\ ~ ReadForList(i) /\ ~ AddForList(i) /\ ~ FindStrategy(i)
         \/ Crash
  PROVE  req'[i].pc \notin Listing
  <1>1. ASSUME NEW x, Goes(i, x), x.pc \notin Listing PROVE req'[i].pc \notin Listing
    BY <1>1 DEF Goes, TypeOK
  <1>2. CASE Goes(i, Idle)
    BY <1>1, <1>2 DEF Idle, Listing
  <1>3. CASE \E op \in Op, u \in User, t \in Task : GetUser(i, op, u, t)
    <2>1. \E c : Goes(i, [pc |-> "called", call |-> c])
      BY <1>3 DEF GetUser
    <2> QED
      BY <1>1, <2>1 DEF Listing
  <1>4. CASE LoadReport(i) \/ PayOwn(i)
    BY <1>1, <1>4 DEF LoadReport, PayOwn, Listing
  <1>5. CASE ComputePoints(i) /\ ~ Goes(i, Idle)
    <2>1. \E g : Goes(i, [pc |-> "paying", call |-> req[i].call, group |-> g])
      BY <1>5, ComputeMoves DEF Fails
    <2> QED
      BY <1>1, <2>1 DEF Listing
  <1>6. CASE CountReports(i) /\ ~ Goes(i, Idle)
    <2>1. \E n : Goes(i, [pc |-> "unlocking", call |-> req[i].call, new |-> n])
      BY <1>6 DEF CountReports
    <2> QED
      BY <1>1, <2>1 DEF Listing
  <1>7. CASE SaveReport(i) \/ CreateReputation(i) \/ UpdateReputation(i)
    BY <1>7, SaveMoves, CreateMoves, UpdateMoves DEF Listing
  <1>8. CASE FindReputation(i)
    <2>1. CASE Fails(i)
      BY <1>8, <2>1, FailsMoves DEF Listing
    <2>2. CASE ~ Fails(i)
      BY <1>8, <2>2, FindMoves DEF Listing
    <2> QED
      BY <2>1, <2>2
  <1>9. CASE PayShare(i)
    <2>1. req[i].pc = "paying"
      BY <1>9 DEF PayShare
    <2>2. PICK g : req' = [req EXCEPT ![i].group = g]
      BY <1>9 DEF PayShare
    <2>3. req'[i] = [req[i] EXCEPT !.group = g]
      BY <2>2 DEF TypeOK
    <2>4. req[i] \in Working
      BY <2>1, Shapes DEF TypeOK, Idle
    <2>5. req'[i].pc = "paying"
      BY <2>1, <2>3, <2>4 DEF Working
    <2> QED
      BY <2>5 DEF Listing
  <1>10. AlreadyCompleted(i) \/ Return(i) \/ SaveBadges(i) \/ AnswerList(i) => Goes(i, Idle)
    BY DEF AlreadyCompleted, Return, SaveBadges, AnswerList
  <1>11. CASE Crash
    BY <1>11 DEF Crash, Idle, Listing
  <1> QED
    BY <1>2, <1>3, <1>4, <1>5, <1>6, <1>7, <1>8, <1>9, <1>10, <1>11 DEF Step

\* Lists, over every step of the one worker.
LEMMA ListsNext ==
  ASSUME IInv, Lists, NEW w, Request = {w}, [Next]_vars
  PROVE  Lists'
  <1>0. TypeOK /\ w \in Request
    BY DEF IInv
  <1>1. ASSUME req'[w].pc \notin Listing PROVE Lists'
    BY <1>1 DEF Lists, Listing
  <1>2. ASSUME NEW l, ListStands(l)', req'[w].pc = "listing", req'[w].list = l PROVE Lists'
    BY <1>2 DEF Lists
  <1>3. CASE UNCHANGED vars \/ Beside
    <2>1. UNCHANGED << req, reputation >>
      BY <1>3, BesideStands DEF vars
    <2> QED
      BY <2>1 DEF Lists, ListStands, RowsOf
  <1>4. CASE Crash \/ \E op \in Op, u \in User, t \in Task : GetUser(w, op, u, t)
    BY <1>0, <1>1, <1>4, HandlersListNothing
  <1>5. ASSUME NEW u \in User, ListTasks(w, u) PROVE Lists'
    <2>1. PICK l : l = [user |-> u,
                        todo |-> { p \in Available(u) \X Action : p[2] \in ActionsOf[p[1]] },
                        seen |-> {}, ask |-> Available(u), found |-> {}]
      OBVIOUS
    <2>2. Goes(w, [pc |-> "listing", list |-> l])
      BY <1>5, <2>1 DEF ListTasks
    <2>3. req'[w] = [pc |-> "listing", list |-> l]
      BY <1>0, <2>2 DEF Goes, TypeOK
    <2>4. ASSUME NEW t \in Task, Listed(l, t)
          PROVE  \A a \in ActionsOf[t] : Covers(l, t, a)
      <3>1. PICK p \in l.todo : p[1] = t
        BY <2>1, <2>4 DEF Listed
      <3>2. t \in Available(u)
        BY <2>1, <3>1
      <3>3. ASSUME NEW a \in ActionsOf[t] PROVE << t, a >> \in l.todo
        <4>1. << t, a >> \in Available(u) \X Action
          BY <3>2
        <4> QED
          BY <2>1, <4>1
      <3> QED
        BY <3>3 DEF Covers
    <2>5. l.user = u /\ l.seen = {}
      BY <2>1
    <2>6. ListStands(l)'
      BY <2>2, <2>4, <2>5 DEF ListStands
    <2> QED
      BY <1>2, <2>3, <2>6
  <1>6. ASSUME req[w].pc \in Listing
        PROVE  /\ req[w].list \in List /\ ListStands(req[w].list)
               /\ req[w].pc = "adding" =>
                    /\ req[w].action \in Action
                    /\ << req[w].task, req[w].action >> \in req[w].list.todo
    <2>1. req[w] \in {Idle} \cup Working
      BY <1>0 DEF TypeOK
    <2> QED
      BY <1>0, <1>6, <2>1, Shapes DEF Lists, Listing
  <1>7. ASSUME NEW t, NEW a \in Action, NEW v, Sees(w, t, a, v), req[w].pc \in Listing,
               << t, a >> \in req[w].list.todo, RowsStay,
               NEW u, u = req[w].list.user, \E q \in RowsOf(u, TypeOf[a])' : reputation'[q] = v
        PROVE  Lists'
    <2>1. PICK l, k : /\ l = req[w].list
                      /\ k = [user |-> l.user, todo |-> l.todo \ { << t, a >> },
                              seen |-> l.seen \cup { << t, a, v >> },
                              ask |-> l.ask, found |-> l.found]
      OBVIOUS
    <2>2. l \in List /\ ListStands(l) /\ l.user = u /\ << t, a >> \in l.todo
      BY <1>6, <1>7, <2>1
    <2>3. ListStands(k)'
      BY <1>7, <2>1, <2>2, ListSees
    <2>4. Goes(w, [pc |-> "listing", list |-> k])
      BY <1>7, <2>1 DEF Sees
    <2>5. req'[w] = [pc |-> "listing", list |-> k]
      BY <1>0, <2>4 DEF Goes, TypeOK
    <2> QED
      BY <1>2, <2>3, <2>5
  <1>8. CASE ReadForList(w)
    <2>1. UNCHANGED reputation /\ req[w].pc = "listing"
      BY <1>8 DEF ReadForList
    <2>2. PICK t \in Task, a \in Action :
            /\ << t, a >> \in req[w].list.todo
            /\ \/ Goes(w, [pc |-> "adding", list |-> req[w].list, task |-> t, action |-> a])
               \/ \E r \in RowsOf(req[w].list.user, TypeOf[a]) : Sees(w, t, a, reputation[r])
               \/ Goes(w, Idle)
      BY <1>8 DEF ReadForList
    <2>3. CASE Goes(w, [pc |-> "adding", list |-> req[w].list, task |-> t, action |-> a])
      <3>1. req'[w] = [pc |-> "adding", list |-> req[w].list, task |-> t, action |-> a]
        BY <1>0, <2>3 DEF Goes, TypeOK
      <3>2. PICK l : l = req[w].list
        OBVIOUS
      <3>3. l \in List /\ ListStands(l)
        BY <1>6, <2>1, <3>2 DEF Listing
      <3>4. ListStands(l)'
        BY <2>1, <3>3, SameRows, ListRests
      <3> QED
        BY <2>2, <3>1, <3>2, <3>4 DEF Lists
    <2>4. ASSUME NEW r \in RowsOf(req[w].list.user, TypeOf[a]), Sees(w, t, a, reputation[r])
          PROVE  Lists'
      <3>1. PICK u : u = req[w].list.user
        OBVIOUS
      <3>2. RowsOf(u, TypeOf[a])' = RowsOf(u, TypeOf[a]) /\ r \in RowsOf(u, TypeOf[a])
        BY <2>1, <2>4, <3>1 DEF RowsOf
      <3>3. \E q \in RowsOf(u, TypeOf[a])' : reputation'[q] = reputation[r]
        BY <2>1, <3>2
      <3>4. RowsStay
        BY <2>1, SameRows
      <3> QED
        BY <1>7, <2>1, <2>2, <2>4, <3>1, <3>3, <3>4 DEF Listing
    <2>5. CASE Goes(w, Idle)
      <3>1. req'[w] = Idle
        BY <1>0, <2>5 DEF Goes, TypeOK
      <3> QED
        BY <1>1, <3>1 DEF Idle, Listing
    <2> QED
      BY <2>2, <2>3, <2>4, <2>5
  <1>9. CASE AddForList(w)
    <2>1. /\ req[w].pc = "adding"
          /\ Adds(req[w].list.user, TypeOf[req[w].action])
          /\ Sees(w, req[w].task, req[w].action, InitReputation)
      BY <1>9 DEF AddForList, Adds
    <2>2. PICK u \in User, a \in Action : u = req[w].list.user /\ a = req[w].action
      BY <1>6, <2>1, ListParts DEF Listing
    <2>3. RowsOf(u, TypeOf[a]) = {}
      BY <2>1, <2>2, OneRow DEF Creates
    <2>4. RowsStay
      BY <2>1, <2>2, <2>3, MissingRows
    <2>5. \E q \in RowsOf(u, TypeOf[a])' : reputation'[q] = InitReputation
      BY <2>1, <2>2 DEF Adds, RowsOf
    <2>6. req[w].pc \in Listing /\ << req[w].task, a >> \in req[w].list.todo
      BY <1>6, <2>1, <2>2 DEF Listing
    <2>7. Sees(w, req[w].task, a, InitReputation)
      BY <2>1, <2>2
    <2> QED
      BY <1>7, <2>2, <2>4, <2>5, <2>6, <2>7
  <1>10. CASE Step(w) /\ ~ ReadForList(w) /\ ~ AddForList(w) /\ ~ FindStrategy(w)
    BY <1>0, <1>1, <1>10, HandlersListNothing
  <1>11. CASE FindStrategy(w)
    <2>1. req[w].pc = "listing" /\ UNCHANGED reputation
      BY <1>11, LookMoves
    <2>2. PICK l : l = req[w].list /\ l \in List /\ ListStands(l)
      BY <1>6, <2>1 DEF Listing
    <2>3. \/ Goes(w, Idle)
          \/ \E ask, found :
               Goes(w, [pc |-> "listing",
                        list |-> [user |-> l.user, todo |-> l.todo, seen |-> l.seen,
                                  ask |-> ask, found |-> found]])
      BY <1>11, <2>2 DEF FindStrategy
    <2>4. CASE Goes(w, Idle)
      <3>1. req'[w] = Idle
        BY <1>0, <2>4 DEF Goes, TypeOK
      <3> QED
        BY <1>1, <3>1 DEF Idle, Listing
    <2>5. ASSUME NEW ask, NEW found,
                 Goes(w, [pc |-> "listing",
                          list |-> [user |-> l.user, todo |-> l.todo, seen |-> l.seen,
                                    ask |-> ask, found |-> found]])
          PROVE  Lists'
      <3>1. PICK k : k = [user |-> l.user, todo |-> l.todo, seen |-> l.seen,
                          ask |-> ask, found |-> found]
        OBVIOUS
      <3>2. req'[w] = [pc |-> "listing", list |-> k]
        BY <1>0, <2>5, <3>1 DEF Goes, TypeOK
      <3>3. ListStands(l)'
        BY <2>1, <2>2, SameRows, ListRests
      <3>4. k.user = l.user /\ k.todo = l.todo /\ k.seen = l.seen
        BY <3>1
      <3>5. ListStands(k)'
        BY <3>3, <3>4 DEF ListStands, Listed, Covers
      <3> QED
        BY <1>2, <3>2, <3>5
    <2> QED
      BY <2>3, <2>4, <2>5
  <1> QED
    BY <1>0, <1>3, <1>4, <1>5, <1>8, <1>9, <1>10, <1>11 DEF Next

\* With one worker no query finds two reputations.
LEMMA NothingFails ==
  ASSUME IInv, HandlersFollow, NEW w, Request = {w}
  PROVE  FindReputation(w) => ~ Fails(w)
  <1>0. TypeOK /\ w \in Request
    BY DEF IInv
  <1>1. ASSUME req[w].pc = "saved"
        PROVE  /\ req[w].call \in Call /\ req[w].todo \subseteq Action
               /\ req[w].call.user \in User /\ req[w].call.task \in Task
    BY <1>0, <1>1, Shapes, CallType DEF TypeOK, Calling
  <1>2. ASSUME FindReputation(w), Fails(w) PROVE FALSE
    <2>1. req[w].pc = "saved" /\ req'[w].pc = "idle"
      BY <1>0, <1>2, FailsMoves DEF FindReputation
    <2>2. PICK a \in req[w].todo :
            \/ Goes(w, [pc |-> "creating", call |-> req[w].call,
                        todo |-> req[w].todo, action |-> a])
            \/ \E r : Updates(w, a, r, reputation[r])
            \/ Cardinality(RowsOf(req[w].call.user, TypeOf[a])) > 1
      BY <1>2 DEF FindReputation
    <2>3. CASE Goes(w, [pc |-> "creating", call |-> req[w].call,
                        todo |-> req[w].todo, action |-> a])
      BY <1>0, <2>1, <2>3 DEF Goes, TypeOK
    <2>4. CASE \E r : Updates(w, a, r, reputation[r])
      BY <1>0, <2>1, <2>4, UpdatesMoves
    <2>5. CASE Cardinality(RowsOf(req[w].call.user, TypeOf[a])) > 1
      BY <1>1, <2>1, <2>5, OneRow
    <2> QED
      BY <2>2, <2>3, <2>4, <2>5
  <1> QED
    BY <1>2

\* The handlers, but where they save a report, write a reputation or compute points.
LEMMA OthersRest ==
  ASSUME IInv, HandlersFollow, NEW w, Request = {w}, Other(w),
         ~ UpdateReputation(w), ~ ComputePoints(w)
  PROVE  Elsewhere(w) /\ RowsStay /\ UNCHANGED outcome
  <1>0. TypeOK /\ w \in Request
    BY DEF IInv
  <1>1. CASE \/ \E u \in User : ListTasks(w, u) \/ \E op \in Op, t \in Task : GetUser(w, op, u, t)
             \/ AlreadyCompleted(w) \/ LoadReport(w)
             \/ PayShare(w) \/ PayOwn(w) \/ CountReports(w) \/ SaveBadges(w) \/ ReadForList(w)
             \/ FindStrategy(w)
    <2>1. UNCHANGED outcome /\ req'[w].pc \notin Moving
      BY <1>0, <1>1, Leaves
    <2>2. UNCHANGED reputation
      BY <1>1, LookMoves
        DEF ListTasks, GetUser, AlreadyCompleted, LoadReport, PayShare, PayOwn, CountReports,
            SaveBadges, ReadForList
    <2>3. req[w].pc \in {"idle", "called", "paying", "counting", "unlocking", "listing"}
      <3>1. \/ req[w] = Idle \/ req[w].pc \in {"called", "paying", "counting", "unlocking"}
            \/ req[w].pc = "listing"
        BY <1>1, LookMoves
          DEF ListTasks, GetUser, AlreadyCompleted, LoadReport, PayShare, PayOwn, CountReports,
              SaveBadges, ReadForList
      <3> QED
        BY <3>1 DEF Idle
    <2> QED
      BY <2>1, <2>2, <2>3, SameRows DEF Elsewhere, Moving
  <1>2. CASE Return(w)
    <2>1. UNCHANGED << outcome, reputation >> /\ req'[w].pc \notin Moving
      BY <1>0, <1>2, Leaves DEF Return
    <2> QED
      BY <1>2, <2>1, SameRows DEF Elsewhere, Return
  <1>3. CASE AddForList(w)
    <2>1. req[w].pc = "adding" /\ Adds(req[w].list.user, TypeOf[req[w].action])
      BY <1>3 DEF AddForList, Adds
    <2>2. req[w].list.user \in User /\ TypeOf[req[w].action] \in Type
      BY <1>0, <2>1, Shapes, ListParts DEF TypeOK
    <2>3. RowsOf(req[w].list.user, TypeOf[req[w].action]) = {}
      BY <2>1, <2>2, OneRow DEF Creates
    <2>4. RowsStay
      BY <2>1, <2>2, <2>3, MissingRows
    <2>5. UNCHANGED outcome /\ req'[w].pc \notin Moving
      BY <1>0, <1>3, Leaves
    <2> QED
      BY <2>1, <2>4, <2>5 DEF Elsewhere, Moving
  <1>4. CASE FindReputation(w)
    <2>1. ~ Fails(w)
      BY <1>4, NothingFails
    <2> QED
      BY <1>0, <1>4, <2>1, FindMoves, SameRows DEF Elsewhere, Moving
  <1>5. CASE CreateReputation(w)
    <2>1. req[w].pc = "creating" /\ Adds(req[w].call.user, TypeOf[req[w].action])
      BY <1>0, <1>5, CreateMoves
    <2>2. req[w].call.user \in User /\ TypeOf[req[w].action] \in Type
      BY <1>0, <2>1, Shapes, CallType DEF TypeOK, Calling
    <2>3. RowsOf(req[w].call.user, TypeOf[req[w].action]) = {}
      BY <2>1, <2>2, OneRow DEF Creates
    <2>4. RowsStay
      BY <2>1, <2>2, <2>3, MissingRows
    <2> QED
      BY <1>0, <1>5, <2>4, CreateMoves DEF Elsewhere, Moving
  <1> QED
    BY <1>1, <1>2, <1>3, <1>4, <1>5 DEF Other

\* The handler goes on as it was.
LEMMA SpoiledStays ==
  ASSUME Spoiled, NEW w, Request = {w}, UNCHANGED promise,
         req'[w].pc \in Moving => req[w].pc \in Moving /\ req'[w].call = req[w].call
  PROVE  Spoiled'
  BY DEF Spoiled

\* The value to be written back was read with no other worker there.
LEMMA ReadsNext ==
  ASSUME IInv, HandlersFollow, Reads, NEW w, Request = {w}, [Next]_vars
  PROVE  Reads'
  <1>0. TypeOK /\ w \in Request
    BY DEF IInv
  <1>1. ASSUME req'[w].pc # "updating" PROVE Reads'
    BY <1>1 DEF Reads
  <1>2. CASE UNCHANGED vars \/ Beside
    <2>1. UNCHANGED << req, reputation >>
      BY <1>2, BesideStands DEF vars
    <2> QED
      BY <2>1 DEF Reads
  <1>3. CASE Crash
    BY <1>1, <1>3 DEF Crash, Idle
  <1>4. ASSUME \/ \E u \in User : ListTasks(w, u) \/ \E op \in Op, t \in Task : GetUser(w, op, u, t)
               \/ AlreadyCompleted(w) \/ LoadReport(w) \/ Return(w)
               \/ ComputePoints(w) \/ PayShare(w) \/ PayOwn(w) \/ CountReports(w)
               \/ SaveBadges(w) \/ ReadForList(w) \/ AddForList(w) \/ AnswerList(w)
               \/ FindStrategy(w)
        PROVE  Reads'
    BY <1>0, <1>1, <1>4, Leaves DEF Moving
  <1>5. CASE SaveReport(w) \/ UpdateReputation(w)
    BY <1>0, <1>1, <1>5, SaveMoves, UpdateMoves
  <1>6. CASE FindReputation(w)
    <2>1. ~ Fails(w)
      BY <1>6, NothingFails
    <2>2. UNCHANGED reputation
      BY <1>0, <1>6, <2>1, FindMoves
    <2>3. req'[w].pc = "updating" => /\ req'[w].row.id \in DOMAIN reputation
                                     /\ req'[w].row.value = reputation[req'[w].row.id]
      BY <1>0, <1>6, <2>1, FindMoves DEF RowsOf
    <2> QED
      BY <2>2, <2>3 DEF Reads
  <1>7. CASE CreateReputation(w)
    <2>1. PICK new : /\ reputation' = [r \in DOMAIN reputation \cup {new} |->
                                         IF r = new THEN InitReputation ELSE reputation[r]]
                     /\ Updates(w, req[w].action, new, InitReputation)
      BY <1>7 DEF CreateReputation
    <2>2. req'[w].row.id = new /\ req'[w].row.value = InitReputation
      BY <1>0, <2>1, UpdatesMoves
    <2>3. new \in DOMAIN reputation' /\ reputation'[new] = InitReputation
      BY <2>1
    <2> QED
      BY <2>2, <2>3 DEF Reads
  <1> QED
    BY <1>0, <1>2, <1>3, <1>4, <1>5, <1>6, <1>7 DEF Next, Step

\* Promises and spoilt promises, where no report is saved and no reputation written.
LEMMA OthersKeep ==
  ASSUME IInv, HandlersFollow, Promised, Spoiled, NEW w, Request = {w},
         Other(w), ~ UpdateReputation(w), ~ ComputePoints(w),
         UNCHANGED << strategies, strategy, promise, earned >>,
         \A r \in Reports : unpaid'[r] = 0 => unpaid[r] = 0
  PROVE  Promised' /\ Spoiled'
  <1>1. Elsewhere(w) /\ RowsStay /\ UNCHANGED outcome
    BY OthersRest
  <1>2. Promised'
    BY <1>1, PromisesRest
  <1>3. Spoiled'
    BY <1>1, SpoiledStays DEF Elsewhere
  <1> QED
    BY <1>2, <1>3

\* A completion whose points cannot be computed is not paid.
LEMMA FailureKeeps ==
  ASSUME IInv, Promised, Spoiled, NEW w, Request = {w}, ComputePoints(w),
         req'[w].pc # "paying", UNCHANGED << strategy, promise, earned >>
  PROVE  Promised' /\ Spoiled'
  <1>0. TypeOK /\ w \in Request
    BY DEF IInv
  <1>1. /\ UNCHANGED << outcome, reputation, strategies >> /\ req[w].pc = "saved"
        /\ req[w].call.op = "complete"
    BY ComputeMoves
  <1>2. req[w].todo = {}
    BY DEF ComputePoints
  <1>3. Fails(w)
    <2>1. ASSUME NEW g, Goes(w, [pc |-> "paying", call |-> req[w].call, group |-> g])
          PROVE  FALSE
      BY <1>0, <2>1 DEF Goes, TypeOK
    <2> QED
      BY <2>1, ComputeMoves
  <1>4. req'[w].pc = "idle"
    BY <1>0, <1>3, FailsMoves
  <1>5. \A r \in Reports : \A op, a : ~ InHand(op, r, a) /\ ~ InHand(op, r, a)'
    BY <1>2, <1>4 DEF InHand, Moving
  <1>6. \A r \in Reports : ~ Completes(r)' /\ (Completes(r) => r = ReportOf(req[w].call))
    BY <1>4 DEF Completes, Moving
  <1>7. RowsStay
    BY <1>1, SameRows
  <1>8. ASSUME NEW r \in Reports, r # ReportOf(req[w].call) PROVE Honoured(r)'
    <2>1. unpaid'[r] = unpaid[r]
      BY <1>3, <1>8 DEF Fails, Owes
    <2>2. ~ Completes(r) /\ ~ Completes(r)'
      BY <1>6, <1>8
    <2>3. Asked(r[2])' = Asked(r[2])
      BY <1>1 DEF Asked
    <2>4. Rests(r)
      BY <1>1, <1>5, <2>1, <2>2, <2>3 DEF Rests
    <2> QED
      BY <1>7, <2>4, HonouredRests DEF Promised
  <1>9. ASSUME NEW r \in Reports, r = ReportOf(req[w].call) PROVE Honoured(r)'
    <2>1. Owes(w, r) /\ unpaid[r] \in Nat
      BY <1>0, <1>1, <1>9 DEF Owes, TypeOK
    <2>2. unpaid'[r] = unpaid[r] + 1
      BY <1>3, <2>1 DEF Fails
    <2> QED
      BY <2>1, <2>2 DEF Honoured
  <1>10. Spoiled'
    BY <1>4, SpoiledStays DEF Moving
  <1> QED
    BY <1>8, <1>9, <1>10 DEF Promised

\* What an acceptance and a success add.
LEMMA RaisesOf == Delta["accept"] = 5 /\ Delta["complete"] = 10
  BY DEF Delta

\* The order of the least values.
LEMMA LeastOrder ==
  ASSUME NEW x \in InRange, NEW p \in Int
  PROVE  /\ x <= Clamp(x + Delta["accept"])
         /\ x <= p => Clamp(x + Delta["accept"]) <= Clamp(p + Delta["accept"])
         /\ Clamp(x + Delta["accept"]) <= p => Expected(x) <= Clamp(p + Delta["complete"])
         /\ Expected(x) \in InRange /\ Clamp(x + Delta["accept"]) \in InRange /\ x \in Int
  <1>1. x \in Int /\ x + 5 \in Int /\ p + 5 \in Int /\ p + 10 \in Int
    BY DEF InRange
  <1>2. PICK y : y = Clamp(x + 5)
    OBVIOUS
  <1>3. y \in InRange /\ y \in Int /\ y + 10 \in Int /\ x <= y
    BY <1>1, <1>2, Clamps DEF InRange
  <1>4. x <= p => y <= Clamp(p + 5)
    BY <1>1, <1>2, Clamps
  <1>5. y <= p => Clamp(y + 10) <= Clamp(p + 10)
    BY <1>1, <1>3, Clamps
  <1>6. Expected(x) = Clamp(y + 10)
    BY <1>2, RaisesOf DEF Expected
  <1>7. Clamp(y + 10) \in InRange
    BY <1>3, Clamps
  <1> QED
    BY <1>1, <1>2, <1>3, <1>4, <1>5, <1>6, <1>7, RaisesOf

\* A reputation updated: one action less in hand, and the reputation is no lower, but for
\* users with no promises.
LEMMA UpdateKeeps ==
  ASSUME IInv, HandlersFollow, Promised, Spoiled, Reads, NEW w, Request = {w},
         UpdateReputation(w), UNCHANGED << strategy, promise, earned >>
  PROVE  Promised'
  <1>0. TypeOK /\ w \in Request
    BY DEF IInv
  <1>1. /\ UNCHANGED outcome /\ req[w].pc = "updating" /\ req'[w].pc = "saved"
        /\ req'[w].call = req[w].call /\ req'[w].todo = req[w].todo \ {req[w].action}
        /\ reputation' = [reputation EXCEPT ![req[w].row.id] =
                            Clamp(req[w].row.value + Delta[req[w].call.op])]
    BY <1>0, UpdateMoves
  <1>2. PICK c \in Call, b \in Action, id \in RowId :
          c = req[w].call /\ b = req[w].action /\ id = req[w].row.id
    BY <1>0, <1>1, Shapes DEF TypeOK, Calling, ReputationRow
  <1>3. /\ c.user \in User /\ c.op \in Op /\ id \in DOMAIN reputation
        /\ id[1] = c.user /\ id[2] = TypeOf[b] /\ TypeOf[b] \in Type
        /\ req[w].row.value = reputation[id] /\ b \in req[w].todo
    BY <1>0, <1>1, <1>2, CallType DEF Reads, HandlersFollow, Follows
  <1>4. PICK p \in InRange, d \in Int : p = reputation[id] /\ d = Delta[c.op]
    BY <1>0, <1>3, OpKinds DEF TypeOK, InRange
  <1>5. reputation' = [reputation EXCEPT ![id] = Clamp(p + d)]
    BY <1>1, <1>2, <1>3, <1>4
  <1>6. ASSUME NEW r \in Reports, promise[r] > 0
        PROVE  Honoured(r)'
    <2>1. Completes(r)' <=> Completes(r)
      BY <1>1 DEF Completes, Moving
    <2>2. /\ promise'[r] = promise[r] /\ Asked(r[2])' = Asked(r[2])
          /\ earned'[r] = earned[r] /\ unpaid'[r] = unpaid[r]
      BY DEF UpdateReputation, Asked
    <2>3. Settled(r)' <=> Settled(r)
      BY <1>1, <2>1 DEF Settled
    <2>4. Rises(r[2])' <=> Rises(r[2])
      BY <2>2 DEF Rises
    <2>5. ASSUME NEW a \in ActionsOf[r[2]], NEW x \in InRange, Has(r, a, x)
          PROVE  Has(r, a, x)'
      <3>1. r[1] \in User /\ a \in Action /\ TypeOf[a] \in Type
        BY ReportParts
      <3>2. RowsOf(r[1], TypeOf[a])' = RowsOf(r[1], TypeOf[a])
        BY <1>5 DEF RowsOf
      <3>3. ASSUME NEW op, InHand(op, r, a)'
            PROVE  InHand(op, r, a)
        BY <1>1, <3>3 DEF InHand, Moving
      <3>4. ASSUME NEW op, InHand(op, r, a)
            PROVE  /\ c.op = op /\ r[1] = c.user
                   /\ ~ InHand(op, r, a)' => TypeOf[a] = TypeOf[b]
        <4>1. /\ req[w].call.op = op /\ ReportOf(req[w].call) = r
              /\ \E e \in req[w].todo : TypeOf[e] = TypeOf[a]
          BY <3>4 DEF InHand
        <4>2. r[1] = c.user
          BY <1>2, <4>1 DEF ReportOf
        <4>3. PICK e \in req[w].todo : TypeOf[e] = TypeOf[a]
          BY <4>1
        <4>4. CASE e = b
          BY <1>2, <4>1, <4>2, <4>3, <4>4
        <4>5. CASE e # b
          <5>1. e \in req'[w].todo
            BY <1>1, <1>2, <4>5
          <5>2. InHand(op, r, a)'
            BY <1>0, <1>1, <4>1, <4>3, <5>1 DEF InHand, Moving
          <5> QED
            BY <1>2, <4>1, <4>2, <5>2
        <4> QED
          BY <4>4, <4>5
      <3>5. CASE id \notin RowsOf(r[1], TypeOf[a])
        <4>1. ~ (r[1] = c.user /\ TypeOf[a] = TypeOf[b])
          BY <1>3, <3>5 DEF RowsOf
        <4>2. \A op : InHand(op, r, a)' <=> InHand(op, r, a)
          BY <3>3, <3>4, <4>1
        <4>3. Least(r, a, x)' = Least(r, a, x)
          BY <1>1, <4>2 DEF Least
        <4>4. \A q \in RowsOf(r[1], TypeOf[a]) : reputation'[q] = reputation[q]
          BY <1>5, <3>5 DEF RowsOf
        <4> QED
          BY <2>5, <3>2, <4>3, <4>4 DEF Has
      <3>6. CASE id \in RowsOf(r[1], TypeOf[a])
        <4>1. RowsOf(r[1], TypeOf[a]) = {id}
          <5>1. PICK u \in User, y \in Type : u = r[1] /\ y = TypeOf[a]
            BY <3>1
          <5>2. \A q, s \in RowsOf(u, y) : q = s
            BY OneRow
          <5> QED
            BY <3>6, <5>1, <5>2
        <4>2. r[1] = c.user
          BY <1>3, <3>6 DEF RowsOf
        <4>3. c.op \in Gains
          <5>1. r[2] \in Task /\ promise[<< c.user, r[2] >>] > 0
            BY <1>6, <4>2, ReportParts
          <5>2. c.op \notin Losses
            BY <1>0, <1>1, <1>2, <5>1 DEF Spoiled, Moving
          <5> QED
            BY <1>3, <5>2, OpKinds
        <4>4. p \in Int /\ p <= Clamp(p + d) /\ Clamp(p + d) \in Int
          <5>1. d > 0
            BY <1>4, <4>3, OpKinds
          <5>2. p \in Int /\ p + d \in Int /\ p <= p + d
            BY <5>1 DEF InRange
          <5> QED
            BY <5>2, Clamps DEF InRange
        <4>5. PICK m, n : m = Least(r, a, x) /\ n = Least(r, a, x)'
          OBVIOUS
        <4>6. p >= m
          BY <1>4, <2>5, <4>1, <4>5 DEF Has
        <4>7. m \in Int /\ n \in Int
          BY <4>5, LeastOrder DEF Least, InRange
        <4>8. Clamp(p + d) >= n
          <5>1. CASE \A op : InHand(op, r, a)' <=> InHand(op, r, a)
            <6>1. n = m
              BY <1>1, <4>5, <5>1 DEF Least
            <6> QED
              BY <4>4, <4>6, <4>7, <6>1
          <5>2. ASSUME c.op = "complete", InHand("complete", r, a) PROVE Clamp(p + d) >= n
            <6>1. ~ InHand("accept", r, a) /\ ~ InHand("accept", r, a)'
              BY <3>3, <3>4, <5>2
            <6>2. CASE outcome[r]["complete"] > 0
              <7>1. m = Clamp(x + Delta["accept"]) /\ (n = m \/ n = Expected(x))
                BY <1>1, <4>5, <5>2, <6>2 DEF Least
              <7>2. Expected(x) <= Clamp(p + Delta["complete"])
                BY <4>4, <4>6, <4>7, <7>1, LeastOrder
              <7> QED
                BY <1>4, <4>4, <4>6, <4>7, <5>2, <7>1, <7>2
            <6>3. CASE ~ (outcome[r]["complete"] > 0)
              <7>1. n = m
                BY <1>1, <4>5, <6>1, <6>3 DEF Least
              <7> QED
                BY <4>4, <4>6, <4>7, <7>1
            <6> QED
              BY <6>2, <6>3
          <5>3. ASSUME c.op = "accept", InHand("accept", r, a) PROVE Clamp(p + d) >= n
            <6>1. ~ InHand("complete", r, a) /\ ~ InHand("complete", r, a)'
              BY <3>3, <3>4, <5>3
            <6>2. CASE outcome[r]["complete"] > 0
              <7>1. n = m
                BY <1>1, <4>5, <6>1, <6>2 DEF Least
              <7> QED
                BY <4>4, <4>6, <4>7, <7>1
            <6>3. CASE ~ (outcome[r]["complete"] > 0)
              <7>1. m = x /\ (n = x \/ n = Clamp(x + Delta["accept"]))
                BY <1>1, <4>5, <5>3, <6>3 DEF Least
              <7>2. Clamp(x + Delta["accept"]) <= Clamp(p + Delta["accept"])
                BY <4>4, <4>6, <4>7, <7>1, LeastOrder
              <7> QED
                BY <1>4, <4>4, <4>6, <4>7, <5>3, <7>1, <7>2
            <6> QED
              BY <6>2, <6>3
          <5>4. CASE ~ (\A op : InHand(op, r, a)' <=> InHand(op, r, a))
            <6>1. PICK op : InHand(op, r, a) /\ ~ InHand(op, r, a)'
              BY <3>3, <5>4
            <6>2. op = c.op /\ (op = "accept" \/ op = "complete")
              BY <3>4, <4>3, <6>1 DEF Gains
            <6> QED
              BY <5>2, <5>3, <6>1, <6>2
          <5> QED
            BY <5>1, <5>4
        <4>9. reputation'[id] = Clamp(p + d)
          BY <1>3, <1>5
        <4> QED
          BY <3>2, <4>1, <4>5, <4>8, <4>9 DEF Has
      <3> QED
        BY <3>5, <3>6
    <2>6. Backed(r) => Backed(r)'
      BY <2>2, <2>5, BackedAgain
    <2> QED
      BY <1>6, <2>2, <2>3, <2>4, <2>6 DEF Promised, Honoured
  <1>7. ASSUME NEW r \in Reports, ~ (promise[r] > 0) PROVE Honoured(r)'
    BY <1>7 DEF Honoured
  <1> QED
    BY <1>6, <1>7 DEF Promised

\* A report saved: a completion finds the acceptance written, or nothing is promised.
LEMMA SaveKeeps ==
  ASSUME IInv, Promised, Spoiled, NEW w, Request = {w}, Save(w)
  PROVE  Promised' /\ Spoiled'
  <1>0. TypeOK /\ w \in Request
    BY DEF IInv
  <1>1. /\ UNCHANGED << reputation, strategies, strategy, earned, unpaid >>
        /\ req[w].pc = "loaded" /\ req'[w].pc = "saved" /\ req'[w].call = req[w].call
        /\ req'[w].todo = ActionsOf[req[w].call.task]
        /\ outcome' = [outcome EXCEPT ![ReportOf(req[w].call)][req[w].call.op] = @ + 1]
    BY <1>0, SaveMoves DEF Save, SaveReport
  <1>2. PICK c \in Call : c = req[w].call
    BY <1>0, <1>1, Shapes DEF TypeOK, Calling
  <1>3. promise' = [r \in Reports |-> IF Spoils(c) /\ r[1] = c.user THEN 0 ELSE promise[r]]
    BY <1>2 DEF Save
  <1>4. /\ c.user \in User /\ c.op \in Op /\ c.task \in Task /\ ReportOf(c) \in Reports
        /\ ReportOf(c) = << c.user, c.task >>
    BY CallType DEF ReportOf
  <1>5. outcome' = [outcome EXCEPT ![ReportOf(c)][c.op] = @ + 1]
    BY <1>1, <1>2
  <1>6. \A r \in Reports : ~ Completes(r) /\ \A op, a : ~ InHand(op, r, a)
    BY <1>1 DEF Completes, InHand, Moving
  <1>13. \A r \in Reports : Asked(r[2])' = Asked(r[2])
    BY <1>1 DEF Asked
  <1>7. \A r \in Reports : Completes(r)' <=> c.op = "complete" /\ r = ReportOf(c)
    BY <1>0, <1>1, <1>2 DEF Completes, Moving
  <1>8. ASSUME NEW r \in Reports, promise'[r] > 0, r # ReportOf(c) PROVE Honoured(r)'
    <2>1. promise'[r] = promise[r] /\ outcome'[r] = outcome[r]
      BY <1>3, <1>5, <1>8
    <2>2. \A op, a : ~ InHand(op, r, a)'
      BY <1>1, <1>2, <1>8 DEF InHand
    <2>3. Rests(r)
      BY <1>1, <1>6, <1>7, <1>8, <1>13, <2>1, <2>2 DEF Rests
    <2>4. RowsStay
      BY <1>1, SameRows
    <2> QED
      BY <2>3, <2>4, HonouredRests DEF Promised
  <1>9. ASSUME NEW r \in Reports, promise'[r] > 0, unpaid'[r] = 0, r = ReportOf(c)
        PROVE  Honoured(r)'
    <2>1. promise'[r] = promise[r] /\ ~ Spoils(c) /\ r[1] = c.user /\ r[2] = c.task
      BY <1>3, <1>4, <1>9
    <2>2. c.op \in Gains
      BY <1>4, <2>1 DEF Spoils, Op, Gains
    <2>3. PICK n, m \in Nat : n = outcome[r]["complete"] /\ m = outcome[r]["accept"]
      BY <1>0 DEF TypeOK, Op
    <2>4. /\ c.op = "complete" => outcome'[r]["complete"] = n + 1 /\ outcome'[r]["accept"] = m
          /\ c.op = "accept" => outcome'[r]["complete"] = n /\ outcome'[r]["accept"] = m + 1
      <3>1. outcome[r] \in [Op -> Nat] /\ outcome'[r] = [outcome[r] EXCEPT ![c.op] = @ + 1]
        BY <1>0, <1>5, <1>9 DEF TypeOK
      <3> QED
        BY <2>3, <3>1 DEF Op
    <2>5. ASSUME NEW op, NEW a \in ActionsOf[r[2]]
          PROVE  InHand(op, r, a)' <=> op = c.op
      <3>1. req'[w].pc \in Moving /\ req'[w].call = c /\ a \in req'[w].todo
        BY <1>1, <1>2, <2>1 DEF Moving
      <3> QED
        BY <1>0, <1>9, <3>1 DEF InHand
    <2>6. ASSUME NEW a \in ActionsOf[r[2]], NEW x \in InRange, Has(r, a, x), n = 0
          PROVE  Has(r, a, x)'
      <3>1. Least(r, a, x) = IF m > 0 THEN Clamp(x + Delta["accept"]) ELSE x
        BY <1>6, <2>3, <2>6 DEF Least
      <3>2. /\ Least(r, a, x)' <= Least(r, a, x)
            /\ Least(r, a, x)' \in Int /\ Least(r, a, x) \in Int
        <4>1. CASE c.op = "complete"
          <5>1. m > 0
            BY <1>9, <2>1, <2>3, <4>1 DEF Spoils
          <5>2. Least(r, a, x)' = Clamp(x + Delta["accept"])
            BY <2>3, <2>4, <2>5, <4>1 DEF Least
          <5> QED
            BY <3>1, <5>1, <5>2, LeastOrder DEF InRange
        <4>2. CASE c.op = "accept"
          <5>1. Least(r, a, x)' = x
            BY <2>3, <2>4, <2>5, <2>6, <4>2 DEF Least
          <5> QED
            BY <3>1, <5>1, LeastOrder DEF InRange
        <4> QED
          BY <2>2, <4>1, <4>2 DEF Gains
      <3>3. RowsOf(r[1], TypeOf[a])' = RowsOf(r[1], TypeOf[a])
        BY <1>1 DEF RowsOf
      <3>4. \A q \in RowsOf(r[1], TypeOf[a]) : reputation[q] \in Int
        BY <1>0 DEF TypeOK, RowsOf
      <3> QED
        BY <1>1, <2>6, <3>2, <3>3, <3>4 DEF Has
    <2>7. CASE n = 0
      <3>1. ~ Settled(r)
        BY <2>3, <2>7 DEF Settled
      <3>2. Backed(r)
        BY <1>1, <1>9, <2>1, <3>1 DEF Promised, Honoured
      <3>3. Backed(r)'
        BY <1>13, <2>1, <2>6, <2>7, <3>2, BackedAgain
      <3>4. ~ Settled(r)'
        BY <1>7, <1>9, <2>2, <2>4, <2>7 DEF Settled, Gains
      <3> QED
        BY <3>3, <3>4 DEF Honoured
    <2>8. CASE n > 0
      <3>1. c.op = "accept"
        BY <1>1, <1>2, <1>9, <2>2, <2>3, <2>8, OneCompletion DEF Gains
      <3>2. Settled(r) /\ Settled(r)'
        BY <1>6, <1>7, <2>3, <2>4, <2>8, <3>1 DEF Settled
      <3>3. Rises(r[2])' <=> Rises(r[2])
        BY <1>13 DEF Rises
      <3> QED
        BY <1>1, <1>9, <2>1, <3>2, <3>3 DEF Promised, Honoured
    <2> QED
      BY <2>3, <2>7, <2>8
  <1>10. Promised'
    BY <1>8, <1>9 DEF Promised, Honoured
  <1>11. ASSUME c.op \in Losses, NEW t \in Task PROVE promise'[<< c.user, t >>] = 0
    <2>1. << c.user, t >> \in Reports /\ Spoils(c)
      BY <1>4, <1>11 DEF Reports, Spoils, Losses
    <2> QED
      BY <1>3, <2>1
  <1>12. Spoiled'
    BY <1>1, <1>2, <1>11 DEF Spoiled
  <1> QED
    BY <1>10, <1>12

\* The points computed: each reputation is where the promise expected it, or above.
LEMMA ComputeKeeps ==
  ASSUME IInv, Promised, Spoiled, PTypes, NEW w, Request = {w}, Compute(w)
  PROVE  Promised' /\ Spoiled'
  <1>0. TypeOK /\ w \in Request
    BY DEF IInv
  <1>1. /\ UNCHANGED << outcome, reputation, strategies, strategy, promise, unpaid >>
        /\ req[w].pc = "saved" /\ req[w].call.op = "complete" /\ req'[w].pc = "paying"
    <2>1. ComputePoints(w) /\ req'[w].pc = "paying" /\ UNCHANGED << strategy, promise >>
      BY DEF Compute
    <2>2. ~ Fails(w)
      BY <1>0, <2>1, FailsMoves
    <2> QED
      BY <2>1, <2>2, ComputeMoves
  <1>12. /\ req[w].todo = {}
         /\ \A t \in Task : Asked(t)' = Asked(t)
    BY <1>1 DEF Compute, ComputePoints, Asked
  <1>2. PICK c \in Call : c = req[w].call
    BY <1>0, <1>1, Shapes DEF TypeOK, Calling
  <1>3. /\ c.user \in User /\ c.task \in Task /\ ReportOf(c) \in Reports
        /\ ReportOf(c) = << c.user, c.task >>
    BY CallType DEF ReportOf
  <1>4. PICK g : /\ g = [a \in ActionsOf[c.task] |->
                           reputation[CHOOSE r \in DOMAIN reputation :
                                        r[1] = req[w].call.user /\ r[2] = TypeOf[a]]]
                 /\ earned' = [earned EXCEPT ![ReportOf(c)] = PointsBy(Asked(c.task), g)]
    <2>1. PICK g : g = [a \in ActionsOf[req[w].call.task] |->
                           reputation[CHOOSE r \in DOMAIN reputation :
                                        r[1] = req[w].call.user /\ r[2] = TypeOf[a]]]
      OBVIOUS
    <2>2. earned' = [earned EXCEPT ![ReportOf(req[w].call)] =
                       PointsBy(Asked(req[w].call.task), g)]
      BY <2>1 DEF Compute
    <2>3. g = [a \in ActionsOf[c.task] |->
                 reputation[CHOOSE r \in DOMAIN reputation :
                              r[1] = req[w].call.user /\ r[2] = TypeOf[a]]]
      BY <1>2, <2>1
    <2> QED
      BY <1>2, <2>2, <2>3
  <1>5. \A r \in Reports : \A op, a : ~ InHand(op, r, a) /\ ~ InHand(op, r, a)'
    BY <1>1, <1>12 DEF InHand, Moving
  <1>6. \A r \in Reports : ~ Completes(r)' /\ (Completes(r) <=> r = ReportOf(c))
    BY <1>0, <1>1, <1>2 DEF Completes, Moving
  <1>7. RowsStay
    BY <1>1, SameRows
  <1>8. ASSUME NEW r \in Reports, r # ReportOf(c) PROVE Honoured(r)'
    <2>1. Rests(r)
      BY <1>1, <1>4, <1>5, <1>6, <1>8, <1>12, ReportParts DEF Rests
    <2> QED
      BY <1>7, <2>1, HonouredRests DEF Promised
  <1>9. ASSUME NEW r \in Reports, r = ReportOf(c), promise[r] > 0, unpaid[r] = 0, Rises(r[2])
        PROVE  earned'[r] >= promise[r]
    <2>1. Completes(r) /\ r[1] = c.user /\ r[2] = c.task
      BY <1>3, <1>6, <1>9
    <2>2. outcome[r]["complete"] > 0
      BY <2>1, OneCompletion
    <2>3. ~ Settled(r)
      BY <2>1 DEF Settled
    <2>4. PICK v \in [ActionsOf[r[2]] -> InRange] :
            /\ promise[r] = PointsBy(Asked(r[2]), [a \in ActionsOf[r[2]] |-> Expected(v[a])])
            /\ \A a \in ActionsOf[r[2]] : Has(r, a, v[a])
      BY <1>9, <2>3 DEF Promised, Honoured, Backed
    <2>5. PICK A, f : A = ActionsOf[r[2]] /\ f = [a \in A |-> Expected(v[a])]
      OBVIOUS
    <2>6. ASSUME NEW a \in A PROVE f[a] \in Int /\ g[a] \in Int /\ f[a] <= g[a]
      <3>1. v[a] \in InRange
        BY <2>4, <2>5
      <3>2. f[a] = Expected(v[a]) /\ f[a] \in Int
        BY <2>5, <3>1, LeastOrder DEF InRange
      <3>3. Has(r, a, v[a]) /\ Least(r, a, v[a]) = Expected(v[a])
        BY <1>5, <2>2, <2>4, <2>5 DEF Least
      <3>4. PICK q : q = CHOOSE z \in DOMAIN reputation :
                           z[1] = req[w].call.user /\ z[2] = TypeOf[a]
        OBVIOUS
      <3>5. \E z \in DOMAIN reputation : z[1] = c.user /\ z[2] = TypeOf[a]
        BY <2>1, <3>3 DEF Has, RowsOf
      <3>6. q \in DOMAIN reputation /\ q[1] = c.user /\ q[2] = TypeOf[a]
        BY <1>2, <3>4, <3>5
      <3>7. q \in RowsOf(r[1], TypeOf[a])
        BY <2>1, <3>6 DEF RowsOf
      <3>8. g[a] = reputation[q]
        BY <1>4, <2>1, <2>5, <3>4
      <3>9. reputation[q] \in Int
        BY <1>0, <3>6 DEF TypeOK
      <3> QED
        BY <3>2, <3>3, <3>7, <3>8, <3>9 DEF Has
    <2>7. IsFiniteSet(A) /\ A # {}
      BY <1>3, <2>1, <2>5
    <2>8. DOMAIN g = A /\ g = [a \in A |-> g[a]]
      BY <1>4, <2>1, <2>5
    <2>9. f \in [A -> Int] /\ g \in [A -> Int]
      BY <2>5, <2>6, <2>8
    <2>10. PICK id \in 1 .. 5 : id = Asked(r[2])
      BY <1>0, <1>3, <2>1, AskedType
    <2>11. id = 1 => Cardinality(A) <= 2
      BY <1>9, <2>5, <2>10 DEF Rises
    <2>12. PointsBy(id, f) <= PointsBy(id, g)
      BY <2>6, <2>7, <2>9, <2>11, PointsRise
    <2>13. promise[r] = PointsBy(id, f)
      BY <2>4, <2>5, <2>10
    <2>14. earned'[r] = PointsBy(id, g)
      BY <1>4, <1>9, <2>1, <2>10 DEF PTypes
    <2> QED
      BY <2>12, <2>13, <2>14
  <1>10. ASSUME NEW r \in Reports, r = ReportOf(c) PROVE Honoured(r)'
    <2>1. outcome[r]["complete"] > 0
      BY <1>6, <1>10, OneCompletion
    <2>2. Settled(r)'
      BY <1>1, <1>6, <2>1 DEF Settled
    <2>3. Rises(r[2])' <=> Rises(r[2])
      BY <1>12, ReportParts DEF Rises
    <2> QED
      BY <1>1, <1>9, <1>10, <2>2, <2>3 DEF Honoured
  <1>11. Spoiled'
    BY <1>1, SpoiledStays DEF Moving
  <1> QED
    BY <1>8, <1>10, <1>11 DEF Promised

\* What a list shows is what the reputations are.
LEMMA AnswerKeeps ==
  ASSUME IInv, Promised, Spoiled, Lists, NEW w, Request = {w}, Answer(w)
  PROVE  Promised' /\ Spoiled'
  <1>0. TypeOK /\ w \in Request
    BY DEF IInv
  <1>1. /\ UNCHANGED << outcome, reputation, strategies, strategy, earned, unpaid >>
        /\ req[w].pc = "listing" /\ req[w].list.todo = {} /\ Goes(w, Idle)
    BY DEF Answer, AnswerList
  <1>2. PICK l \in List : l = req[w].list
    BY <1>0, <1>1, Shapes DEF TypeOK
  <1>3. l.todo = {} /\ ListStands(l)
    BY <1>0, <1>1, <1>2 DEF Lists
  <1>4. req'[w] = Idle
    BY <1>0, <1>1 DEF Goes, TypeOK
  <1>5. req'[w].pc \notin Moving /\ req[w].pc \notin Moving
    BY <1>1, <1>4 DEF Idle, Moving
  <1>6. PICK listed : listed = { p[2] : p \in { q \in {l.user} \X Task :
                                                   \E s \in l.seen : s[1] = q[2] } }
    OBVIOUS
  <1>7. ASSUME NEW t \in Task, t \in listed PROVE \E s \in l.seen : s[1] = t
    BY <1>6, <1>7
  <1>8. promise' = [r \in Reports |->
                      IF r[1] = l.user /\ r[2] \in listed
                      THEN IF ~ Answered(r) /\ (r[2] \in l.found <=> strategies[r[2]] > 0)
                           THEN PointsBy(Asked(r[2]),
                                  [a \in ActionsOf[r[2]] |->
                                     Expected((CHOOSE s \in l.seen : s[1] = r[2] /\ s[2] = a)[3])])
                           ELSE 0
                      ELSE promise[r]]
    BY <1>2, <1>6 DEF Answer
  <1>9. \A r \in Reports : ~ Completes(r) /\ ~ Completes(r)'
    BY <1>5 DEF Completes
  <1>10. \A r \in Reports : \A op, a : ~ InHand(op, r, a) /\ ~ InHand(op, r, a)'
    BY <1>5 DEF InHand
  <1>11. ASSUME NEW r \in Reports, ~ (r[1] = l.user /\ r[2] \in listed) PROVE Honoured(r)'
    <2>1. Rests(r)
      BY <1>1, <1>8, <1>9, <1>10, <1>11 DEF Rests, Asked
    <2> QED
      BY <1>1, <2>1, SameRows, HonouredRests DEF Promised
  <1>12. ASSUME NEW r \in Reports, r[1] = l.user, r[2] \in listed, promise'[r] > 0
         PROVE  Honoured(r)'
    <2>1. PICK t \in Task : t = r[2] /\ r = << l.user, t >>
      BY <1>12, ReportParts
    <2>2. Listed(l, t)
      BY <1>7, <1>12, <2>1 DEF Listed
    <2>3. \A a \in ActionsOf[t] : Covers(l, t, a)
      BY <1>3, <2>1, <2>2 DEF ListStands
    <2>4. ~ Answered(r) /\ outcome[r]["complete"] = 0 /\ outcome[r]["accept"] = 0
      <3>1. ~ Answered(r)
        BY <1>8, <1>12
      <3>2. outcome[r]["complete"] \in Nat /\ outcome[r]["accept"] \in Nat
        BY <1>0 DEF TypeOK, Op
      <3> QED
        BY <3>1, <3>2 DEF Answered, Op
    <2>5. PICK v : v = [a \in ActionsOf[t] |-> (CHOOSE s \in l.seen : s[1] = t /\ s[2] = a)[3]]
      OBVIOUS
    <2>6. ASSUME NEW a \in ActionsOf[t]
          PROVE  v[a] \in InRange /\ Has(r, a, v[a])'
      <3>1. PICK s : s = CHOOSE z \in l.seen : z[1] = t /\ z[2] = a
        OBVIOUS
      <3>2. \E z \in l.seen : z[1] = t /\ z[2] = a
        BY <1>3, <2>3 DEF Covers
      <3>3. s \in l.seen /\ s[2] = a
        BY <3>1, <3>2
      <3>4. v[a] = s[3]
        BY <2>5, <3>1
      <3>5. PICK q \in RowsOf(l.user, TypeOf[a]) : reputation[q] = s[3]
        BY <1>3, <3>3 DEF ListStands
      <3>6. reputation[q] \in InRange
        BY <1>0, <3>5 DEF TypeOK, RowsOf, InRange
      <3>7. l.user \in User /\ TypeOf[a] \in Type
        BY <2>1, ListParts
      <3>8. \A z \in RowsOf(l.user, TypeOf[a]) : z = q
        <4>1. PICK u \in User, y \in Type : u = l.user /\ y = TypeOf[a]
          BY <3>7
        <4>2. \A z, x \in RowsOf(u, y) : z = x
          BY OneRow
        <4> QED
          BY <3>5, <4>1, <4>2
      <3>9. RowsOf(l.user, TypeOf[a])' = RowsOf(l.user, TypeOf[a])
        BY <1>1 DEF RowsOf
      <3>10. Least(r, a, v[a])' = v[a]
        BY <1>1, <2>4 DEF Least
      <3>11. v[a] \in Int
        BY <3>4, <3>5, <3>6 DEF InRange
      <3>12. r[1] = l.user
        BY <1>12
      <3>13. /\ RowsOf(r[1], TypeOf[a])' # {}
             /\ \A z \in RowsOf(r[1], TypeOf[a])' : reputation'[z] = v[a]
        BY <1>1, <3>4, <3>5, <3>8, <3>9, <3>12
      <3> QED
        BY <3>4, <3>5, <3>6, <3>10, <3>11, <3>13 DEF Has
    <2>7. v \in [ActionsOf[t] -> InRange]
      BY <2>5, <2>6
    <2>8. promise'[r] = PointsBy(Asked(t)', [a \in ActionsOf[t] |-> Expected(v[a])])
      <3>1. promise'[r] =
              PointsBy(Asked(t),
                       [a \in ActionsOf[t] |->
                          Expected((CHOOSE s \in l.seen : s[1] = t /\ s[2] = a)[3])])
        BY <1>8, <1>12, <2>1
      <3>2. \A a \in ActionsOf[t] : v[a] = (CHOOSE s \in l.seen : s[1] = t /\ s[2] = a)[3]
        BY <2>5
      <3>3. [a \in ActionsOf[t] |->
               Expected((CHOOSE s \in l.seen : s[1] = t /\ s[2] = a)[3])]
              = [a \in ActionsOf[t] |-> Expected(v[a])]
        BY <3>2
      <3>4. Asked(t)' = Asked(t)
        BY <1>1 DEF Asked
      <3> QED
        BY <3>1, <3>3, <3>4
    <2>9. Backed(r)'
      BY <2>1, <2>6, <2>7, <2>8 DEF Backed
    <2>10. ~ Settled(r)'
      BY <1>1, <2>4 DEF Settled
    <2> QED
      BY <2>9, <2>10 DEF Honoured
  <1>13. Promised'
    BY <1>11, <1>12 DEF Promised, Honoured
  <1>14. Spoiled'
    BY <1>5 DEF Spoiled
  <1> QED
    BY <1>13, <1>14

\* A restart leaves no promise.
LEMMA RestartKeeps ==
  ASSUME Restart
  PROVE  Promised' /\ Spoiled'
  <1>1. \A r \in Reports : promise'[r] = 0
    BY DEF Restart
  <1>2. \A i \in Request : req'[i] = Idle
    BY DEF Restart, Crash
  <1>3. Promised'
    BY <1>1 DEF Promised, Honoured
  <1>4. Spoiled'
    BY <1>2 DEF Spoiled, Idle, Moving
  <1> QED
    BY <1>3, <1>4

\* The row of a task withdraws what was promised without it.
LEMMA ChooseKeeps ==
  ASSUME TypeOK, PTypes, Promised, Spoiled, NEW w, Request = {w}, NEW t \in Task, Choose(t)
  PROVE  Promised' /\ Spoiled'
  <1>1. UNCHANGED << req, outcome, reputation, unpaid, earned >>
    BY DEF Choose, AddStrategy
  <1>2. /\ strategies' = [strategies EXCEPT ![t] = @ + 1] /\ strategies \in [Task -> Nat]
        /\ \E s \in StrategiesOf[t] :
             strategy' = [strategy EXCEPT ![t] = IF strategies[t] = 0 THEN s ELSE @]
        /\ promise' = [r \in Reports |->
                        IF r[2] = t /\ strategies[t] = 0 THEN 0 ELSE promise[r]]
    BY DEF Choose, AddStrategy, TypeOK
  <1>3. ASSUME NEW r \in Reports, ~ (r[2] = t /\ strategies[t] = 0) PROVE Honoured(r)'
    <2>1. Asked(r[2])' = Asked(r[2])
      <3>1. CASE r[2] = t
        <4>1. strategies[t] > 0 /\ strategies'[t] > 0 /\ strategy'[t] = strategy[t]
          BY <1>2, <1>3, <3>1 DEF PTypes
        <4> QED
          BY <1>2, <3>1, <4>1 DEF Asked
      <3>2. CASE r[2] # t
        BY <1>2, <3>2, ReportParts DEF Asked, PTypes
      <3> QED
        BY <3>1, <3>2
    <2>2. Completes(r)' <=> Completes(r)
      BY <1>1 DEF Completes
    <2>3. \A op, a : InHand(op, r, a)' <=> InHand(op, r, a)
      BY <1>1 DEF InHand
    <2>4. Rests(r)
      BY <1>1, <1>2, <1>3, <2>1, <2>2, <2>3 DEF Rests
    <2> QED
      BY <1>1, <2>4, SameRows, HonouredRests DEF Promised
  <1>4. ASSUME NEW r \in Reports, r[2] = t, strategies[t] = 0 PROVE Honoured(r)'
    BY <1>2, <1>4 DEF Honoured
  <1>5. ASSUME NEW r \in Reports, promise[r] = 0 PROVE promise'[r] = 0
    BY <1>2, <1>5
  <1>6. ASSUME NEW i \in Request, req'[i].pc \in Moving, req'[i].call.op \in Losses, NEW z \in Task
        PROVE  promise'[<< req'[i].call.user, z >>] = 0
    <2>1. req'[i] = req[i] /\ promise[<< req[i].call.user, z >>] = 0
      BY <1>1, <1>6 DEF Spoiled
    <2>2. req[i].call \in Call
      BY <1>6, <2>1, Shapes DEF TypeOK, Calling, Moving
    <2>3. << req[i].call.user, z >> \in Reports
      BY <2>2, CallType DEF Reports
    <2> QED
      BY <1>5, <2>1, <2>3
  <1> QED
    BY <1>3, <1>4, <1>6 DEF Promised, Spoiled

\* ... over every step of the one worker.
LEMMA StepPromises ==
  ASSUME IInv, HandlersFollow, PromiseInv, NEW w, Request = {w}, [PNext]_promisesVars
  PROVE  PromiseInv'
  <1>0. TypeOK /\ w \in Request
    BY DEF IInv
  <1>1. [Next]_vars
    BY StepsAreRewards
  <1>2. PTypes'
    BY <1>0, PTypesNext DEF PromiseInv
  <1>3. \A r \in Reports : unpaid'[r] = 0 => unpaid[r] = 0
    BY <1>0, <1>1, UnpaidStays
  <1>4. Reads' /\ Lists'
    BY <1>1, ReadsNext, ListsNext DEF PromiseInv
  <1>5. CASE UNCHANGED promisesVars \/ (Flows /\ UNCHANGED << strategy, promise, earned >>)
    <2>1. UNCHANGED << req, reputation, outcome, strategies, strategy, promise, earned >>
      BY <1>5 DEF promisesVars, vars, Flows, HoldUser, MergeUser
    <2>2. Promised'
      <3>1. Elsewhere(w)
        BY <2>1 DEF Elsewhere
      <3> QED
        BY <1>3, <2>1, <3>1, SameRows, PromisesRest DEF PromiseInv
    <2>3. Spoiled'
      BY <2>1 DEF PromiseInv, Spoiled
    <2> QED
      BY <1>2, <1>4, <2>2, <2>3 DEF PromiseInv
  <1>6. CASE PNext /\ ~ (Flows /\ UNCHANGED << strategy, promise, earned >>)
    <2>1. ASSUME Answer(w)
          PROVE  Promised' /\ Spoiled'
      BY <2>1, AnswerKeeps DEF PromiseInv
    <2>2. ASSUME Compute(w)
          PROVE  Promised' /\ Spoiled'
      BY <2>2, ComputeKeeps DEF PromiseInv
    <2>3. ASSUME Save(w)
          PROVE  Promised' /\ Spoiled'
      BY <2>3, SaveKeeps DEF PromiseInv
    <2>4. ASSUME NEW t \in Task, Choose(t)
          PROVE  Promised' /\ Spoiled'
      BY <1>0, <2>4, ChooseKeeps DEF PromiseInv
    <2>5. ASSUME Restart
          PROVE  Promised' /\ Spoiled'
      BY <2>5, RestartKeeps
    <2>6. ASSUME UpdateReputation(w), UNCHANGED << strategy, promise, earned >>
          PROVE  Promised' /\ Spoiled'
      <3>1. Promised'
        BY <2>6, UpdateKeeps DEF PromiseInv
      <3>2. Spoiled'
        BY <1>0, <2>6, SpoiledStays, UpdateMoves DEF PromiseInv, Moving
      <3> QED
        BY <3>1, <3>2
    <2>7. ASSUME ComputePoints(w), req'[w].pc # "paying", UNCHANGED << strategy, promise, earned >>
          PROVE  Promised' /\ Spoiled'
      BY <2>7, FailureKeeps DEF PromiseInv
    <2>8. ASSUME Other(w), ~ UpdateReputation(w), ~ ComputePoints(w),
                 UNCHANGED << strategy, promise, earned >>
          PROVE  Promised' /\ Spoiled'
      <3>1. UNCHANGED strategies
        <4>1. \/ Step(w) \/ \E u \in User : ListTasks(w, u)
              \/ \E op \in Op, u \in User, t \in Task : GetUser(w, op, u, t)
          BY <2>8 DEF Other, Step
        <4> QED
          BY <1>0, <4>1, StepsChooseNothing
      <3> QED
        BY <1>3, <2>8, <3>1, OthersKeep DEF PromiseInv
    <2>9. ASSUME Other(w), ComputePoints(w) PROVE req'[w].pc # "paying"
      <3>1. /\ req[w].pc = "saved" /\ req[w].todo = {} /\ req[w].call.op = "complete"
            /\ req[w] # Idle
        BY <2>9 DEF ComputePoints, Idle
      <3>2. ComputePoints(w) /\ req'[w].pc # "paying"
        BY <2>9, <3>1
          DEF Other, ListTasks, GetUser, AlreadyCompleted, LoadReport, FindReputation,
              CreateReputation, UpdateReputation, Return, PayOwn, PayShare, CountReports,
              SaveBadges, ReadForList, AddForList, FindStrategy
      <3> QED
        BY <3>2
    <2>10. Promised' /\ Spoiled'
      BY <1>6, <2>1, <2>2, <2>3, <2>4, <2>5, <2>6, <2>7, <2>8, <2>9 DEF PNext
    <2> QED
      BY <1>2, <1>4, <2>10 DEF PromiseInv
  <1> QED
    BY <1>5, <1>6

\* ... and at the start, with nothing shown.
LEMMA InitPromises == PInit => PromiseInv
  <1> SUFFICES ASSUME PInit PROVE PromiseInv
    OBVIOUS
  <1>1. PTypes
    BY DEF PInit, Init, PTypes
  <1>2. \A r \in Reports : promise[r] = 0
    BY DEF PInit
  <1>3. \A i \in Request : req[i] = Idle
    BY DEF PInit, Init
  <1>4. Promised
    BY <1>2 DEF Promised, Honoured
  <1>6. Spoiled /\ Reads /\ Lists
    BY <1>3 DEF Spoiled, Reads, Lists, Idle, Moving
  <1> QED
    BY <1>1, <1>4, <1>6 DEF PromiseInv

\* What getTaskFlat shows with a task is kept, when requests come one at a time: for any
\* reputations, clamped or not, any strategies but the average level of three actions or
\* more, any actions of one type, and whatever tasks are completed in between.  A promise made
\* by the default strategy stands until the task has its own, and one made for a report
\* that was put back counts for nothing.
THEOREM PromisesAreKept == Cardinality(Request) = 1 => (PSpec => []PromiseKept)
  <1> SUFFICES ASSUME Cardinality(Request) = 1 PROVE PSpec => []PromiseKept
    OBVIOUS
  <1>1. PICK w : Request = {w}
    BY FS_Singleton
  <1>2. PInit => PromiseInv
    BY InitPromises
  <1>3. Init => HandlersFollow
    BY InitInv, InitEarned DEF IInv, EarnedInv
  <1>4. TypeOK /\ HandlersFollow /\ [Next]_vars => HandlersFollow'
    BY StepFollows
  <1>5. Spec => []HandlersFollow
    BY <1>3, <1>4, TypeCorrect, PTL DEF Spec
  <1>6. IInv /\ HandlersFollow /\ PromiseInv /\ [PNext]_promisesVars => PromiseInv'
    BY <1>1, StepPromises
  <1>7. IInv /\ PromiseInv => PromiseKept
    <2> SUFFICES ASSUME IInv, PromiseInv, NEW r \in Reports, paid[r] > 0, promise[r] > 0, Rises(r[2])
                 PROVE  earned[r] >= promise[r]
      BY DEF PromiseKept
    <2>1. Settled(r) /\ unpaid[r] = 0
      BY <1>1, OneCompletion
    <2> QED
      BY <2>1 DEF PromiseInv, Promised, Honoured
  <1>8. PSpec => []IInv /\ []HandlersFollow
    BY <1>5, Invariance, PromisesAddNothing, PTL
  <1> QED
    BY <1>2, <1>6, <1>7, <1>8, PTL DEF PSpec
=============================================================================
