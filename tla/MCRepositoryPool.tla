-------------------------- MODULE MCRepositoryPool --------------------------
(* Instances of RepositoryPool for TLC. *)
EXTENDS RepositoryPool

CONSTANT Thin    \* the files clients cut into chunks of less than 5 MiB

(* Every chunk of a thin file is small, and what is left of the first      *)
(* chunk of another when it is cut short.                                  *)
SmallPieces == {p \in Piece : p[1] \in Thin \/ (p[2] = 1 /\ p[3] = "cut")}

(* UUIDs and request slots are interchangeable names, and so are the files *)
(* that are thin, and those that are not.                                  *)
Symmetry == Permutations(Uuid) \cup Permutations(Request)
            \cup Permutations(Thin) \cup Permutations(Content \ Thin)

(* Bound: the chunked uploads in flight are all of one file; other files   *)
(* are uploaded whole beside them.                                         *)
OneFileInChunks == Cardinality({session[u] : u \in Uuid} \ {None}) <= 1

(* Bound: one thing goes wrong in a behaviour: a fault, a chunk            *)
(* acknowledged empty, or a file cut too thin.                             *)
Blanks == {u \in Uuid : \E k \in Parts : etag[u][k] = Blank}
ThinUploads == {u \in Uuid : session[u] \in Thin}
OneTrouble == /\ faults = 0 \/ Blanks \cup ThinUploads = {}
              /\ Blanks = {} \/ ThinUploads = {}
=============================================================================
