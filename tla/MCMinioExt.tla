----------------------------- MODULE MCMinioExt -----------------------------
(* Instances of MinioExt for TLC. *)
EXTENDS MinioExt, TLC

Symmetry == Permutations(Call) \cup Permutations(Timer)

(* Bound: there are parts to list where the bucket stays and at most one   *)
(* request fails; where it moves or two fail there are none, for what is   *)
(* on a page has no part in how an attempt ends.                           *)
FewTroubles == moves > 0 \/ faults > 1 => parts = {}
=============================================================================
