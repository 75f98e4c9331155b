----------------------------- MODULE MCUserTasks -----------------------------
(* Small instances of UserTasks for TLC.                                   *)
EXTENDS UserTasks, TLC

Symmetry == Permutations(User) \cup Permutations(Request) \cup Permutations(Admin)
=============================================================================
