----------------------------- MODULE MCSession -----------------------------
(* Instances of Session for TLC. *)
EXTENDS Session, TLC

(* Accounts, credentials and request slots are interchangeable. *)
Symmetry == Permutations(Account) \cup Permutations(Credential)
            \cup Permutations(Request)
=============================================================================
