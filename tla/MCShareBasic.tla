---------------------------- MODULE MCShareBasic ----------------------------
(* Instances of ShareBasic for TLC. *)
EXTENDS ShareBasic

(* Nothing tells files, identities, rows or slots from one another. *)
Symmetry == Permutations(Content) \cup Permutations(Identity)
            \cup Permutations(Node) \cup Permutations(Share)
            \cup Permutations(Request)

(* Bound: a download runs beside saves, deletes and uploads, not beside    *)
(* another request.  It changes no table, and all another request could do *)
(* to it is to insert an entry, as a save does.                            *)
DownloadsAlone == \A r, q \in Request :
  asked[r] # {} /\ r # q => at[q] = "idle"
=============================================================================
