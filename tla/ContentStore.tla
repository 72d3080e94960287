---------------------------- MODULE ContentStore ----------------------------
(***************************************************************************)
(* What the upload half of the back end promises, with the database, the   *)
(* object store and the request handlers left out: an identity is bound to *)
(* the content of one file, once and for good, and a client is handed an   *)
(* identity for its file only while that identity is bound to that file.   *)
(***************************************************************************)
CONSTANTS Identity, Content, None

VARIABLES
  bound,      \* bound[i]: the file content identity i stands for, or None
  promised    \* the pairs of a file and the identity a client was handed

vars == <<bound, promised>>

Promises == [content : Content, identity : Identity]

Init == /\ bound = [i \in Identity |-> None]
        /\ promised = {}

(* A file is registered under an unused identity; the client may be told. *)
Bind(i, c) ==
  /\ bound[i] = None
  /\ bound' = [bound EXCEPT ![i] = c]
  /\ \/ promised' = promised
     \/ promised' = promised \cup {[content |-> c, identity |-> i]}

(* A client that offers content already registered is handed its identity. *)
Promise(i, c) ==
  /\ bound[i] = c
  /\ promised' = promised \cup {[content |-> c, identity |-> i]}
  /\ UNCHANGED bound

Next == \E i \in Identity, c \in Content : Bind(i, c) \/ Promise(i, c)

Spec == Init /\ [][Next]_vars
=============================================================================
