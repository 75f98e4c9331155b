--------------------------- MODULE MCTaskLifecycle ---------------------------
(* Small instances of TaskLifecycle for TLC.                               *)
EXTENDS TaskLifecycle, TLC

\* Every task lasts two ticks from its acceptance.
TwoTicks == [t \in Task |-> 2]

EarlyDeadlines == {1, 2}

\* Worker threads are interchangeable (runs of safety properties only).
Symmetry == Permutations(Request)
=============================================================================
