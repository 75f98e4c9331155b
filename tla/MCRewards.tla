------------------------------ MODULE MCRewards ------------------------------
(* Small instances of Rewards for TLC.                                     *)
EXTENDS Rewards, TLC

CONSTANTS u1, u2, t1, t2, a1, a2, a3, b1, b2, y1, y2

\* t1 asks for two actions of one type, t2 for one of each type.
Actions1 == t1 :> {a1, a2}
Actions2 == t1 :> {a1, a2} @@ t2 :> {a1, a3}
Types == a1 :> y1 @@ a2 :> y1 @@ a3 :> y2

NoGroup == [t \in Task |-> {}]
Group1 == [t \in Task |-> IF t = t1 THEN User ELSE {}]

\* A badge for three actions of type y1 and one for task t1.
Badges == b1 :> [type |-> y1, quantity |-> 3] @@ b2 :> [task |-> t1]

\* t1 gets its strategy some time, or is approved twice; t2 is an old task.
OneStrategy == [t \in Task |-> IF t = t1 THEN 1 ELSE 0]
TwoStrategies == [t \in Task |-> IF t = t1 THEN 2 ELSE 0]

Symmetry == Permutations(Request)
=============================================================================
