------------------------------ MODULE StepChain ------------------------------
(***************************************************************************)
(* What a pipeline task promises: the steps of a group are sent one after  *)
(* the other, from the first to the last, and none is sent before somebody *)
(* answered the one before it.                                             *)
(***************************************************************************)
EXTENDS Integers

CONSTANTS
  Group,
  Steps   \* the number of steps

VARIABLES
  height,   \* height[g]: the last step of group g that was sent, or 0
  answered  \* answered[g]: the steps of group g somebody completed

Init ==
  /\ height = [g \in Group |-> 0]
  /\ answered = [g \in Group |-> {}]

Start(g) ==
  /\ height[g] = 0
  /\ height' = [height EXCEPT ![g] = 1]
  /\ UNCHANGED answered

Answer(g, k) ==
  /\ answered' = [answered EXCEPT ![g] = @ \cup {k}]
  /\ UNCHANGED height

Advance(g) ==
  /\ height[g] \in answered[g]
  /\ height[g] < Steps
  /\ height' = [height EXCEPT ![g] = @ + 1]
  /\ UNCHANGED answered

Next ==
  \E g \in Group : \/ Start(g)
                   \/ Advance(g)
                   \/ \E k \in 1 .. Steps : Answer(g, k)

Spec == Init /\ [][Next]_<< height, answered >>
=============================================================================
