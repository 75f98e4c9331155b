----------------------------- MODULE MCPromises -----------------------------
(* Small instances of Promises for TLC.                                    *)
EXTENDS Promises, TLC

CONSTANTS u1, t1, t2, a1, a2, a3, b1, b2, y1, y2

\* t1 asks for an action of each type, t2 for two of one type.
Actions2 == t1 :> {a1, a3} @@ t2 :> {a1, a2}
Types == a1 :> y1 @@ a2 :> y1 @@ a3 :> y2
NoGroup == [t \in Task |-> {}]

\* A badge for three actions of type y1 and one for task t1.
Badges == b1 :> [type |-> y1, quantity |-> 3] @@ b2 :> [task |-> t1]

\* t1 gets its strategy some time, or is approved twice; t2 is an old task.
TwoStrategies == t1 :> 2 @@ t2 :> 0
Strategies == t1 :> 1 .. 4 @@ t2 :> {1}

\* Bound: the later requests, and the strategies but the first, are for promises,
\* which depend on no badge; the web's form, which brings nothing but badges, and
\* the second approval are explored without them.
FormsApart ==
  \/ strategies[t1] <= 1 /\ reverted = {} /\ \A f \in Form : form[f] = Closed
  \/ started <= 2 /\ strategy[t1] \in {0, 1}
=============================================================================
