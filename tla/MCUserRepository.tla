-------------------------- MODULE MCUserRepository --------------------------
(* Instances of UserRepository for TLC. *)
EXTENDS UserRepository, TLC

(* Users, rows, names and request slots are interchangeable. *)
Symmetry == Permutations(User) \cup Permutations(Node)
            \cup Permutations(Name) \cup Permutations(Request)

(* Bound: no create for which no row is left. *)
RowsLeft == \A r \in Request :
  at[r] \in {"createCount", "createInsert"} => Free # {}

(* Bound: only clients that name folders that are there. *)
ParentsThere == \A n \in Used :
  parent[n] \in {m \in Used \ {n} : isFolder[m]} \cup {Root}
=============================================================================
