------------------------------ MODULE MCAccount ------------------------------
(* Instances of Account for TLC. *)
EXTENDS Account, TLC

Symmetry == Permutations(Account) \cup Permutations(Email)
            \cup Permutations(Name) \cup Permutations(Code)
            \cup Permutations(Request)
=============================================================================
