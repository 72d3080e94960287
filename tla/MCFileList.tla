----------------------------- MODULE MCFileList -----------------------------
(* Instances of FileList for TLC. *)
EXTENDS FileList

Symmetry == Permutations(User) \cup Permutations(Node)
            \cup Permutations(Name) \cup Permutations(Request)
            \cup Permutations(Walk) \cup Permutations(Reader)

(* The histories of names are no matter of the readers: nothing they do,   *)
(* and no invariant of theirs, looks at them.                              *)
ReadView == <<status, columns, request, walkState, history, reading, witness>>

(* Bounds.  One reader or one walk at a time: they change nothing.  Beside *)
(* them come the statements that take entries away or bring them in (a     *)
(* rename does neither, and what a move reads first may have been read     *)
(* before); beside a reader only those that touch its folder, beside the   *)
(* zip none, for the tree has no more say then.  A reader that is done or  *)
(* whose folder is gone is not followed further, nor a walk of a tangled   *)
(* tree when no file is steady, but to its overflow in a tree of one       *)
(* folder: no invariant claims anything more of them.  At most one row is  *)
(* deleted, and at most one waits for its parent; where a reader reads     *)
(* none waits, nor is its own parent.  No create begins that finds no row. *)
Waiting == {n \in Used : parent[n] \in Free}
OneReader ==
  /\ \A w \in Walk, v \in Reader : phase[w] = "idle" \/ doing[v] = "idle"
  /\ \A r \in Request : at[r] \in {"createCount", "createInsert"} => Free # {}
  /\ \A r \in Request, w \in Walk :
       /\ phase[w] # "idle" =>
            at[r] \in {"idle", "createCount", "createInsert", "moveUpdate"}
       /\ tangled[w] \/ phase[w] = "zip" => at[r] = "idle"
  /\ \A w \in Walk : tangled[w] => steady[w] # {} \/ Cardinality(Used) = 1
  /\ \A r \in Request, v \in Reader : doing[v] # "idle" =>
       \/ at[r] = "idle"
       \/ at[r] = "moveUpdate" /\ (parent[node[r]] = folder[v]) # (dest[r] = folder[v])
  /\ \A v \in Reader : ~gone[v] /\ doing[v] # "done"
  /\ \A v \in Reader : doing[v] # "idle" =>
       Waiting = {} /\ \A n \in Used : parent[n] # n
  /\ Cardinality({n \in Node : status[n] = "deleted"}) <= 1
  /\ Cardinality(Waiting) <= 1
=============================================================================
