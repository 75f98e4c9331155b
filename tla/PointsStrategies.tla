--------------------------- MODULE PointsStrategies ---------------------------
(***************************************************************************)
(* How many points a task is worth to a user: the strategies an            *)
(* administrator chooses from, as functions of the reputations the user    *)
(* has for the actions of the task.  reps is a function from the actions   *)
(* to reputations, as Reputation.java bounds them.                         *)
(***************************************************************************)
EXTENDS Integers, FiniteSets, FiniteSetsExt

\* Level.getLevelFromReputation: 1 for LOW up to 4 for HIGH.
Level(v) ==
  CASE v >= 76 -> 4
    [] v >= 51 /\ v < 76 -> 3
    [] v >= 26 /\ v < 51 -> 2
    [] v < 26 -> 1

LevelPoints == << 60, 80, 100, 120 >>

\* 60 + 0.6 * v, cut to an integer
ReputationPoints(v) == 60 + (6 * v) \div 10

\* The level most of the reputations have, the lowest of them if there is a tie.
ByAverageLevel(reps) ==
  LET having(l) == Cardinality({ a \in DOMAIN reps : Level(reps[a]) = l })
      most == Max({ having(l) : l \in 1 .. 4 })
  IN  LevelPoints[Min({ l \in 1 .. 4 : having(l) = most })]

ByAverageReputation(reps) ==
  IF DOMAIN reps = {} THEN 0
  ELSE ReputationPoints(SumFunction(reps) \div Cardinality(DOMAIN reps))

BySumLevel(reps) ==
  SumFunction([a \in DOMAIN reps |-> LevelPoints[Level(reps[a])]])

BySumReputation(reps) ==
  SumFunction([a \in DOMAIN reps |-> ReputationPoints(reps[a])])

\* What the user who completes a step of a pipeline gets.
OfGroup == 20

\* The strategies under their ids.
PointsBy(id, reps) ==
  CASE id = 1 -> ByAverageLevel(reps)
    [] id = 2 -> ByAverageReputation(reps)
    [] id = 3 -> BySumLevel(reps)
    [] id = 4 -> BySumReputation(reps)
    [] id = 5 -> OfGroup
=============================================================================
