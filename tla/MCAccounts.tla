------------------------------ MODULE MCAccounts ------------------------------
(* Small instances of Accounts for TLC.                                    *)
EXTENDS Accounts, TLC

Symmetry == Permutations(Request) \cup Permutations(Form) \cup Permutations(Token)
=============================================================================
