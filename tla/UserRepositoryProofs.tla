------------------------ MODULE UserRepositoryProofs ------------------------
(***************************************************************************)
(* Proofs about UserRepository: types, ownership, and names on a level, for *)
(* any number of users, rows, names and requests.                          *)
(***************************************************************************)
EXTENDS UserRepository, TLAPS

(* A parent that user u may put an entry under: the root, or an entry that  *)
(* is u's.  Rows do not change hands, so this lasts.                        *)
OwnPlace(p, u) == p = Root \/ (p \in Used /\ owner[p] = u)

(* What a handler was asked for, and what its checks established. *)
RequestOK == \A r \in Request :
  /\ at[r] # "idle" => by[r] \in User
  /\ at[r] \in {"createCount", "createInsert"} =>
       label[r] \in Name /\ dest[r] \in Places
  /\ at[r] \in {"renameCount", "renameUpdate"} =>
       label[r] \in Name /\ node[r] \in Used
  /\ at[r] \in {"moveGetFile", "moveGetParent", "moveUpdate"} =>
       node[r] \in Used /\ dest[r] \in Used \cup {Root}
  /\ at[r] = "moveUpdate" => OwnPlace(dest[r], by[r])

IInv == TypeOK /\ RequestOK

LEMMA InitIInv == Init => IInv
<1> SUFFICES ASSUME Init PROVE IInv
  OBVIOUS
<1> USE DEF Init, Used
<1>1. TypeOK
  BY DEF TypeOK, Stages
<1>2. RequestOK
  BY DEF RequestOK
<1> QED
  BY <1>1, <1>2 DEF IInv

(* A handler that moves on or returns, with the table untouched. *)
LEMMA StepKeeps ==
  ASSUME IInv, NEW r \in Request, UNCHANGED table,
         current' \subseteq Request,
         \/ Return(r)
         \/ /\ at[r] # "idle"
            /\ \/ at[r] = "createCount" /\ Goto(r, "createInsert")
               \/ at[r] = "renameCount" /\ Goto(r, "renameUpdate")
               \/ /\ at[r] = "moveGetFile" /\ dest[r] # Root
                  /\ Goto(r, "moveGetParent")
               \/ /\ at[r] \in {"moveGetFile", "moveGetParent"}
                  /\ OwnPlace(dest[r], by[r])
                  /\ Goto(r, "moveUpdate")
  PROVE  IInv'
<1> USE DEF IInv, table, columns
<1>1. TypeOK'
  BY DEF TypeOK, Used, Return, Goto, Stages
<1>2. RequestOK'
  <2>1. CASE Return(r)
    BY <2>1 DEF RequestOK, OwnPlace, Used, Return, TypeOK
  <2>2. CASE ~Return(r)
    BY <2>2 DEF RequestOK, OwnPlace, Used, Goto, TypeOK
  <2> QED
    BY <2>1, <2>2
<1> QED
  BY <1>1, <1>2

LEMMA ArriveKeeps ==
  ASSUME IInv, NEW r \in Request, Arrive(r)
  PROVE  IInv'
<1> USE DEF IInv
<1>1. PICK s \in {"createCount", "renameCount", "moveGetFile"}, u \in User,
           n \in Node \cup {None}, p \in Places \cup {None},
           nm \in Name \cup {None} :
        /\ Ask(r, s, u, n, p, nm)
        /\ s = "createCount" => nm \in Name /\ p \in Places
        /\ s = "renameCount" => nm \in Name /\ n \in Used
        /\ s = "moveGetFile" => n \in Used /\ p \in Used \cup {Root}
  BY DEF Arrive, AskCreate, AskRename, AskMove, Used, Places
<1>2. TypeOK'
  BY <1>1 DEF Ask, table, columns, TypeOK, Used, Stages
<1>3. RequestOK'
  BY <1>1 DEF Ask, table, columns, RequestOK, OwnPlace, Used, TypeOK
<1> QED
  BY <1>2, <1>3

(* A row is inserted, wherever its client said. *)
LEMMA InsertKeeps ==
  ASSUME IInv, NEW n \in Free, NEW u \in User, NEW p \in Places,
         NEW nm \in Name, NEW folder \in BOOLEAN, NEW ok \in BOOLEAN,
         Insert(n, u, p, nm, folder, ok),
         current' \subseteq Request,
         UNCHANGED request \/ \E r \in Request : Return(r)
  PROVE  IInv'
<1> USE DEF IInv
<1>1. n \in Node /\ n \notin Used
  BY DEF Free, Used
<1>2. Used' = Used \cup {n}
  BY <1>1 DEF Used, Insert, TypeOK
<1>3. \A m \in Used : owner'[m] = owner[m] /\ parent'[m] = parent[m]
                      /\ name'[m] = name[m]
  BY <1>1 DEF Insert, TypeOK, Used
<1>4. owner'[n] = u /\ parent'[n] = p /\ name'[n] = nm
  BY <1>1 DEF Insert, TypeOK
<1>5. TypeOK'
  <2>1. /\ status' \in [Node -> {"free", "live", "deleted"}]
        /\ owner' \in [Node -> User \cup {None}]
        /\ parent' \in [Node -> Places \cup {None}]
        /\ name' \in [Node -> Name \cup {None}]
        /\ isFolder' \in [Node -> BOOLEAN]
        /\ checked' \in [Node -> BOOLEAN]
    BY <1>1 DEF Insert, TypeOK
  <2>2. \A m \in Used' : owner'[m] # None /\ parent'[m] # None /\ name'[m] # None
    BY <1>1, <1>2, <1>3, <1>4, NoneAssumption DEF TypeOK, Places
  <2>3. /\ at' \in [Request -> Stages]
        /\ by' \in [Request -> User \cup {None}]
        /\ node' \in [Request -> Node \cup {None}]
        /\ dest' \in [Request -> Places \cup {None}]
        /\ label' \in [Request -> Name \cup {None}]
    BY DEF TypeOK, request, Return, Stages
  <2> QED
    BY <2>1, <2>2, <2>3 DEF TypeOK
<1>6. \A q, v : OwnPlace(q, v) => OwnPlace(q, v)'
  BY <1>2, <1>3 DEF OwnPlace
<1>7. RequestOK'
  <2>1. CASE UNCHANGED request
    BY <1>2, <1>6, <2>1 DEF RequestOK, request
  <2>2. ASSUME NEW r \in Request, Return(r) PROVE RequestOK'
    <3>1. \A q \in Request : \/ at'[q] = "idle"
                             \/ /\ at'[q] = at[q] /\ by'[q] = by[q]
                                /\ node'[q] = node[q] /\ dest'[q] = dest[q]
                                /\ label'[q] = label[q]
      BY <2>2 DEF Return, TypeOK
    <3>2. ASSUME NEW q \in Request, at'[q] # "idle"
          PROVE  /\ at'[q] = at[q] /\ by'[q] = by[q] /\ node'[q] = node[q]
                 /\ dest'[q] = dest[q] /\ label'[q] = label[q]
      BY <3>1, <3>2
    <3> QED
      BY <1>2, <1>6, <3>2 DEF RequestOK
  <2> QED
    BY <2>1, <2>2
<1> QED
  BY <1>5, <1>7

(* Neither a rename nor a delete touches an owner or a parent, and a move   *)
(* puts the entry where its handler has checked.                            *)
LEMMA UpdateKeeps ==
  ASSUME IInv, NEW r \in Request, RenameUpdate(r) \/ MoveUpdate(r)
  PROVE  IInv'
<1> USE DEF IInv
<1>1. /\ status' = status /\ owner' = owner /\ isFolder' = isFolder
      /\ Return(r) /\ node[r] \in Used
      /\ Used' = Used /\ current' \subseteq Request
  BY DEF RenameUpdate, MoveUpdate, RequestOK, Used, TypeOK
<1>2. \/ parent' = parent
      \/ /\ parent' = [parent EXCEPT ![node[r]] = dest[r]]
         /\ OwnPlace(dest[r], by[r]) /\ owner[node[r]] = by[r]
  BY DEF RenameUpdate, MoveUpdate, RequestOK, Written
<1>3. TypeOK'
  <2>1. /\ name' \in [Node -> Name \cup {None}]
        /\ checked' \in [Node -> BOOLEAN]
        /\ \A n \in Used : name'[n] # None
    <3>1. CASE RenameUpdate(r)
      <4>1. label[r] \in Name /\ label[r] # None /\ node[r] \in Node
        BY <3>1, NoneAssumption DEF RenameUpdate, RequestOK, Used
      <4>2. \/ name' = [name EXCEPT ![node[r]] = label[r]]
               /\ checked' = [checked EXCEPT ![node[r]] = r \in current]
            \/ UNCHANGED <<name, checked>>
        BY <3>1 DEF RenameUpdate
      <4>3. (r \in current) \in BOOLEAN
        OBVIOUS
      <4>4. \A ok \in BOOLEAN : [checked EXCEPT ![node[r]] = ok] \in [Node -> BOOLEAN]
        BY DEF TypeOK
      <4>5. checked' \in [Node -> BOOLEAN]
        BY <4>2, <4>3, <4>4, Zenon DEF TypeOK
      <4> QED
        BY <4>1, <4>2, <4>5 DEF TypeOK, Used
    <3>2. CASE MoveUpdate(r)
      BY <3>2 DEF MoveUpdate, TypeOK
    <3> QED
      BY <3>1, <3>2
  <2>2. /\ parent' \in [Node -> Places \cup {None}]
        /\ \A n \in Used : parent'[n] # None
    BY <1>1, <1>2, NoneAssumption DEF TypeOK, OwnPlace, Places, Used
  <2> QED
    BY <1>1, <2>1, <2>2 DEF TypeOK, Return, Stages
<1>4. RequestOK'
  BY <1>1 DEF RequestOK, OwnPlace, Return, TypeOK
<1> QED
  BY <1>3, <1>4

LEMMA DeleteKeeps ==
  ASSUME IInv, Delete
  PROVE  IInv'
<1> USE DEF IInv
<1>1. /\ UNCHANGED <<owner, parent, name, isFolder, checked, request>>
      /\ status' \in [Node -> {"free", "live", "deleted"}]
      /\ Used' = Used
  BY DEF Delete, columns, TypeOK, Used, Found
<1>2. TypeOK'
  BY <1>1 DEF Delete, TypeOK, request
<1>3. RequestOK'
  BY <1>1 DEF RequestOK, OwnPlace, request
<1> QED
  BY <1>2, <1>3

LEMMA NextIInv == IInv /\ [Next]_vars => IInv'
<1> SUFFICES ASSUME IInv, [Next]_vars PROVE IInv'
  OBVIOUS
<1> USE DEF IInv
<1>1. ASSUME NEW r \in Request, Arrive(r) PROVE IInv'
  BY <1>1, ArriveKeeps
<1>2. ASSUME NEW r \in Request, Serve(r) \/ Fail(r) PROVE IInv'
  <2> current \subseteq Request
    BY DEF TypeOK
  <2>1. CASE CreateCount(r) \/ RenameCount(r) \/ Fail(r)
    BY <2>1, StepKeeps DEF CreateCount, RenameCount, Fail, Drop, Checks
  <2>2. CASE MoveGetFile(r)
    BY <2>2, StepKeeps DEF MoveGetFile, OwnPlace
  <2>3. CASE MoveGetParent(r)
    <3>1. Found(dest[r], by[r]) /\ dest[r] # Root => OwnPlace(dest[r], by[r])
      BY <2>3 DEF MoveGetParent, Found, OwnPlace, RequestOK, Used
    <3> QED
      BY <2>3, <3>1, StepKeeps DEF MoveGetParent, OwnPlace
  <2>4. CASE CreateInsert(r)
    <3>1. by[r] \in User /\ label[r] \in Name /\ dest[r] \in Places
      BY <2>4 DEF CreateInsert, RequestOK
    <3>2. PICK n \in Free :
            Insert(n, by[r], dest[r], label[r], TRUE, r \in current)
      BY <2>4, Zenon DEF CreateInsert
    <3>3. /\ Return(r) /\ current' \subseteq Request
          /\ (r \in current) \in BOOLEAN /\ TRUE \in BOOLEAN
      BY <2>4 DEF CreateInsert
    <3> QED
      BY <3>1, <3>2, <3>3, InsertKeeps, Zenon
  <2>5. CASE RenameUpdate(r) \/ MoveUpdate(r)
    BY <2>5, UpdateKeeps
  <2> QED
    BY <1>2, <2>1, <2>2, <2>3, <2>4, <2>5 DEF Serve
<1>3. CASE Save
  <2>1. PICK u \in User, p \in Places, nm \in Name, n \in Free :
          /\ Insert(n, u, p, nm, FALSE, FALSE)
          /\ UNCHANGED request /\ current' \subseteq Request
    BY <1>3 DEF Save, TypeOK
  <2> QED
    BY <2>1, InsertKeeps
<1>4. CASE Delete
  BY <1>4, DeleteKeeps
<1>5. CASE UNCHANGED vars
  BY <1>5 DEF vars, table, columns, request, TypeOK, RequestOK,
     OwnPlace, Used
<1> QED
  BY <1>1, <1>2, <1>3, <1>4, <1>5 DEF Next

THEOREM Invariance == Spec => []IInv
<1> QED
  BY InitIInv, NextIInv, PTL DEF Spec

(* TypeOK, for all values of the constants: rows that exist are complete.  *)
THEOREM TypeCorrect == Spec => []TypeOK
<1>1. IInv => TypeOK
  BY DEF IInv
<1> QED
  BY <1>1, Invariance, PTL

-----------------------------------------------------------------------------
(* ChangedByOwner: the updates' condition on user_identity is what makes   *)
(* the check of the owner last until the write.                            *)
LEMMA OwnerStep ==
  ASSUME IInv, [Next]_vars, NEW n \in Used,
         parent'[n] # parent[n] \/ name'[n] # name[n]
  PROVE  \E r \in Request : by[r] = owner[n] /\ node[r] = n
<1> USE DEF IInv
<1>1. CASE \E r \in Request : RenameUpdate(r) \/ MoveUpdate(r)
  BY <1>1 DEF RenameUpdate, MoveUpdate, Written, TypeOK, Used
<1>2. CASE \/ \E m \in Free : \E u, p, nm, f, ok : Insert(m, u, p, nm, f, ok)
           \/ UNCHANGED <<parent, name>>
  BY <1>2 DEF Insert, Free, TypeOK, Used
<1>3. \/ \E r \in Request : RenameUpdate(r) \/ MoveUpdate(r)
      \/ \E m \in Free : \E u, p, nm, f, ok : Insert(m, u, p, nm, f, ok)
      \/ UNCHANGED <<parent, name>>
  <2>1. ASSUME NEW r \in Request, CreateInsert(r)
        PROVE  \E m \in Free : \E u, p, nm, f, ok : Insert(m, u, p, nm, f, ok)
    BY <2>1 DEF CreateInsert
  <2>2. CASE Save
    BY <2>2 DEF Save
  <2>3. ASSUME NEW r \in Request,
               \/ Arrive(r) \/ CreateCount(r) \/ RenameCount(r)
               \/ MoveGetFile(r) \/ MoveGetParent(r) \/ Fail(r)
        PROVE  UNCHANGED <<parent, name>>
    BY <2>3 DEF Arrive, AskCreate, AskRename, AskMove, Ask, CreateCount,
       RenameCount, MoveGetFile, MoveGetParent, Fail, Drop, table, columns
  <2>4. CASE Delete \/ UNCHANGED vars
    BY <2>4 DEF Delete, vars, table, columns
  <2> QED
    BY <2>1, <2>2, <2>3, <2>4 DEF Next, Serve
<1> QED
  BY <1>1, <1>2, <1>3

THEOREM OnlyOwnersChange == Spec => ChangedByOwner
<1>1. IInv /\ [Next]_vars => [\A n \in Used :
        parent'[n] # parent[n] \/ name'[n] # name[n] =>
          \E r \in Request : by[r] = owner[n] /\ node[r] = n]_vars
  BY OwnerStep
<1> QED
  BY <1>1, Invariance, PTL DEF Spec, ChangedByOwner

-----------------------------------------------------------------------------
(* MovesStayInOwnTree: what the two gets of a move have established still  *)
(* holds when it writes.                                                   *)
LEMMA ParentStep ==
  ASSUME IInv, [Next]_vars, NEW n \in Used, parent'[n] # parent[n]
  PROVE  \E r \in Request :
           /\ MoveUpdate(r) /\ Written(r) /\ node[r] = n /\ parent'[n] = dest[r]
           /\ OwnPlace(dest[r], by[r])
<1> USE DEF IInv
<1>1. PICK r \in Request : MoveUpdate(r) /\ Written(r)
  <2>1. ASSUME NEW m \in Free, NEW u, NEW p, NEW nm, NEW f, NEW ok,
               Insert(m, u, p, nm, f, ok)
        PROVE  FALSE
    BY <2>1 DEF Insert, Free, TypeOK, Used
  <2>2. ASSUME NEW r \in Request,
               \/ Arrive(r) \/ CreateCount(r) \/ RenameCount(r) \/ RenameUpdate(r)
               \/ MoveGetFile(r) \/ MoveGetParent(r) \/ Fail(r)
        PROVE  FALSE
    BY <2>2 DEF Arrive, AskCreate, AskRename, AskMove, Ask, CreateCount,
       RenameCount, RenameUpdate, MoveGetFile, MoveGetParent, Fail, Drop,
       table, columns
  <2>3. CASE Delete \/ UNCHANGED vars
    BY <2>3 DEF Delete, vars, table, columns
  <2>4. ASSUME NEW r \in Request, MoveUpdate(r), ~Written(r) PROVE FALSE
    BY <2>4 DEF MoveUpdate
  <2>5. CASE Save
    BY <2>1, <2>5 DEF Save
  <2>6. ASSUME NEW r \in Request, CreateInsert(r) PROVE FALSE
    BY <2>1, <2>6 DEF CreateInsert
  <2> QED
    BY <2>2, <2>3, <2>4, <2>5, <2>6 DEF Next, Serve
<1>2. node[r] = n /\ parent'[n] = dest[r]
  BY <1>1 DEF MoveUpdate, RequestOK, TypeOK, Used
<1>3. OwnPlace(dest[r], by[r])
  BY <1>1 DEF MoveUpdate, RequestOK
<1> QED
  BY <1>1, <1>2, <1>3

(* A move leaves the entry in its owner's own tree. *)
THEOREM OwnTree == Spec => MovesStayInOwnTree
<1>1. IInv /\ [Next]_vars => [\A n \in Used :
        parent'[n] # parent[n] =>
          parent'[n] = Root \/ (parent'[n] \in Used /\ owner[parent'[n]] = owner[n])]_vars
  BY ParentStep DEF OwnPlace, Written
<1> QED
  BY <1>1, Invariance, PTL DEF Spec, MovesStayInOwnTree

-----------------------------------------------------------------------------
(* A look for clashes that no other create, rename or move has overtaken   *)
(* still holds among the checked entries when its request writes.  Saves   *)
(* and deletes may come in between; they check nothing in.                 *)
ClashFree(nm, p) == \A n \in Node :
  status[n] = "live" /\ checked[n] /\ parent[n] = p => name[n] # nm

NameStillFree == \A r \in current :
  /\ at[r] = "createInsert" => ClashFree(label[r], dest[r])
  /\ at[r] = "renameUpdate" => ClashFree(label[r], parent[node[r]])

(* Only looks that found no clash are current. *)
CurrentLooks == \A r \in current : at[r] \in {"createInsert", "renameUpdate"}

NameInv == CheckedNamesDistinct /\ NameStillFree /\ CurrentLooks

(* No write: requests other than r stand, and r is not current or has just *)
(* looked.                                                                 *)
LEMMA NoWriteKeepsNames ==
  ASSUME IInv, NameInv, NEW r \in Request, UNCHANGED table,
         current' \subseteq current \cup {r},
         \A q \in Request \ {r} :
           /\ at'[q] = at[q] /\ label'[q] = label[q]
           /\ node'[q] = node[q] /\ dest'[q] = dest[q],
         r \in current' =>
           \/ /\ at'[r] = "createInsert"
              /\ ClashFree(label'[r], dest'[r])
           \/ /\ at'[r] = "renameUpdate"
              /\ ClashFree(label'[r], parent[node'[r]])
  PROVE  NameInv'
<1> USE DEF IInv, NameInv, table, columns
<1>1. CheckedNamesDistinct'
  BY DEF CheckedNamesDistinct
<1>2. ASSUME NEW q \in current', q # r
      PROVE  /\ q \in current /\ q \in Request
             /\ at'[q] = at[q] /\ label'[q] = label[q]
             /\ node'[q] = node[q] /\ dest'[q] = dest[q]
  BY <1>2 DEF TypeOK
<1>3. CurrentLooks'
  BY <1>2 DEF CurrentLooks
<1>4. \A nm, p : ClashFree(nm, p)' <=> ClashFree(nm, p)
  BY DEF ClashFree
<1>5. NameStillFree'
  BY <1>2, <1>4 DEF NameStillFree
<1> QED
  BY <1>1, <1>3, <1>5

LEMMA NameStep ==
  ASSUME IInv, NameInv, [Next]_vars
  PROVE  NameInv'
<1> USE DEF IInv, NameInv
<1>1. ASSUME NEW r \in Request, Arrive(r) PROVE NameInv'
  <2>1. PICK s, u, n, p, nm : Ask(r, s, u, n, p, nm)
    BY <1>1 DEF Arrive, AskCreate, AskRename, AskMove
  <2>2. r \notin current
    BY <2>1 DEF Ask, CurrentLooks
  <2> QED
    BY <2>1, <2>2, NoWriteKeepsNames DEF Ask, TypeOK
<1>2. ASSUME NEW r \in Request, Drop(r) PROVE NameInv'
  BY <1>2, NoWriteKeepsNames DEF Drop, Return, TypeOK
<1>3. ASSUME NEW r \in Request, CreateCount(r) \/ RenameCount(r), ~Drop(r)
      PROVE  NameInv'
  <2>1. /\ UNCHANGED table /\ current' = current \cup {r}
        /\ UNCHANGED <<by, node, dest, label>>
    BY <1>3 DEF CreateCount, RenameCount, Checks, Goto
  <2>2. \/ at' = [at EXCEPT ![r] = "createInsert"] /\ ~Taken(label[r], dest[r])
        \/ /\ at' = [at EXCEPT ![r] = "renameUpdate"]
           /\ ~Taken(label[r], parent[node[r]])
    BY <1>3 DEF CreateCount, RenameCount, Checks, Goto
  <2>3. \A nm, p : ~Taken(nm, p) => ClashFree(nm, p)
    BY DEF Taken, ClashFree
  <2>4. \A q \in Request \ {r} : at'[q] = at[q]
    BY <2>2 DEF TypeOK
  <2>5. \/ at'[r] = "createInsert" /\ ClashFree(label'[r], dest'[r])
        \/ at'[r] = "renameUpdate" /\ ClashFree(label'[r], parent[node'[r]])
    BY <2>1, <2>2, <2>3 DEF TypeOK
  <2> QED
    BY <2>1, <2>4, <2>5, NoWriteKeepsNames
<1>4. ASSUME NEW r \in Request, MoveGetFile(r) \/ MoveGetParent(r) PROVE NameInv'
  <2>1. r \notin current
    BY <1>4 DEF MoveGetFile, MoveGetParent, CurrentLooks
  <2> QED
    BY <1>4, <2>1, NoWriteKeepsNames
       DEF MoveGetFile, MoveGetParent, Return, Goto, TypeOK
<1>5. ASSUME NEW r \in Request, CreateInsert(r) PROVE NameInv'
  <2>1. PICK n \in Free :
          Insert(n, by[r], dest[r], label[r], TRUE, r \in current)
    BY <1>5 DEF CreateInsert
  <2>2. n \in Node /\ current' = {}
    BY <1>5 DEF CreateInsert, Free
  <2>3. r \in current => ClashFree(label[r], dest[r])
    BY <1>5 DEF CreateInsert, NameStillFree
  <2>4. /\ \A m \in Node \ {n} :
              /\ status'[m] = status[m] /\ checked'[m] = checked[m]
              /\ parent'[m] = parent[m] /\ name'[m] = name[m]
        /\ checked'[n] <=> r \in current
        /\ parent'[n] = dest[r] /\ name'[n] = label[r]
    BY <2>1, <2>2 DEF Insert, TypeOK
  <2>5. CheckedNamesDistinct'
    <3> SUFFICES ASSUME NEW m \in Node, NEW q \in Node, m # q,
                        status'[m] = "live", status'[q] = "live",
                        checked'[m], checked'[q], parent'[m] = parent'[q]
                 PROVE  name'[m] # name'[q]
      BY DEF CheckedNamesDistinct
    <3>1. CASE m = n
      BY <2>3, <2>4, <3>1 DEF ClashFree
    <3>2. CASE q = n
      BY <2>3, <2>4, <3>2 DEF ClashFree
    <3>3. CASE m # n /\ q # n
      BY <2>4, <3>3 DEF CheckedNamesDistinct
    <3> QED
      BY <3>1, <3>2, <3>3
  <2> QED
    BY <2>2, <2>5 DEF NameStillFree, CurrentLooks
<1>6. ASSUME NEW r \in Request, RenameUpdate(r) PROVE NameInv'
  <2>1. node[r] \in Node
    BY <1>6 DEF RenameUpdate, RequestOK, Used
  <2>2. r \in current => ClashFree(label[r], parent[node[r]])
    BY <1>6 DEF RenameUpdate, NameStillFree
  <2>3. CASE Written(r) /\ current' = {}
             /\ name' = [name EXCEPT ![node[r]] = label[r]]
             /\ checked' = [checked EXCEPT ![node[r]] = r \in current]
    <3>1. CheckedNamesDistinct'
      <4> SUFFICES ASSUME NEW m \in Node, NEW n \in Node, m # n,
                          status'[m] = "live", status'[n] = "live",
                          checked'[m], checked'[n], parent'[m] = parent'[n]
                   PROVE  name'[m] # name'[n]
        BY DEF CheckedNamesDistinct
      <4>1. UNCHANGED <<status, parent>>
        BY <1>6 DEF RenameUpdate
      <4>2. CASE m = node[r]
        BY <2>1, <2>2, <2>3, <4>1, <4>2 DEF ClashFree, TypeOK
      <4>3. CASE n = node[r]
        BY <2>1, <2>2, <2>3, <4>1, <4>3 DEF ClashFree, TypeOK
      <4>4. CASE m # node[r] /\ n # node[r]
        BY <2>1, <2>3, <4>1, <4>4 DEF CheckedNamesDistinct, TypeOK
      <4> QED
        BY <4>2, <4>3, <4>4
    <3> QED
      BY <2>3, <3>1 DEF NameStillFree, CurrentLooks
  <2>4. CASE UNCHANGED <<name, checked>> /\ current' = current \ {r}
    <3>1. UNCHANGED table
      BY <1>6, <2>4 DEF RenameUpdate, table, columns
    <3> QED
      BY <1>6, <2>4, <3>1, NoWriteKeepsNames DEF RenameUpdate, Return, TypeOK
  <2> QED
    BY <1>6, <2>3, <2>4 DEF RenameUpdate
<1>7. ASSUME NEW r \in Request, MoveUpdate(r) PROVE NameInv'
  <2>1. node[r] \in Node /\ r \notin current
    BY <1>7 DEF MoveUpdate, RequestOK, CurrentLooks, Used
  <2>2. CASE current' = {}
             /\ parent' = [parent EXCEPT ![node[r]] = dest[r]]
             /\ checked' = [checked EXCEPT ![node[r]] = FALSE]
    <3>1. CheckedNamesDistinct'
      BY <1>7, <2>1, <2>2 DEF MoveUpdate, CheckedNamesDistinct, TypeOK
    <3> QED
      BY <2>2, <3>1 DEF NameStillFree, CurrentLooks
  <2>3. CASE UNCHANGED <<parent, checked, current>>
    <3>1. UNCHANGED table
      BY <1>7, <2>3 DEF MoveUpdate, table, columns
    <3> QED
      BY <1>7, <2>1, <2>3, <3>1, NoWriteKeepsNames DEF MoveUpdate, Return, TypeOK
  <2> QED
    BY <1>7, <2>2, <2>3 DEF MoveUpdate
<1>8. CASE Save
  <2>1. PICK n \in Free : \E u, p, nm : Insert(n, u, p, nm, FALSE, FALSE)
    BY <1>8 DEF Save
  <2>2. /\ UNCHANGED request /\ UNCHANGED current
        /\ n \in Node /\ n \notin Used
    BY <1>8 DEF Save, Free
  <2>3. CheckedNamesDistinct'
    BY <2>1, <2>2 DEF Insert, CheckedNamesDistinct, TypeOK
  <2>4. \A nm2, p2 : ClashFree(nm2, p2) => ClashFree(nm2, p2)'
    BY <2>1, <2>2 DEF Insert, ClashFree, TypeOK
  <2>5. NameStillFree' /\ CurrentLooks'
    BY <2>1, <2>2, <2>4
       DEF Insert, NameStillFree, CurrentLooks, RequestOK, request, TypeOK, Used
  <2> QED
    BY <2>3, <2>5
<1>9. CASE Delete
  <2>1. CheckedNamesDistinct' /\ CurrentLooks'
    BY <1>9 DEF Delete, Found, CheckedNamesDistinct, CurrentLooks, columns,
       request, TypeOK
  <2>2. \A nm2, p2 : ClashFree(nm2, p2) => ClashFree(nm2, p2)'
    BY <1>9 DEF Delete, Found, ClashFree, columns, TypeOK
  <2> QED
    BY <1>9, <2>1, <2>2 DEF Delete, NameStillFree, columns, request
<1>10. CASE UNCHANGED vars
  BY <1>10 DEF vars, table, columns, request, CheckedNamesDistinct,
     NameStillFree, ClashFree, CurrentLooks
<1> QED
  BY <1>1, <1>2, <1>3, <1>4, <1>5, <1>6, <1>7, <1>8, <1>9, <1>10
     DEF Next, Serve, Fail

(* CheckedNamesDistinct: two live entries on a level that were both        *)
(* checked, by looks that no other write overtook, have different names.   *)
THEOREM NamesOnLevelDistinct == Spec => []CheckedNamesDistinct
<1>1. Init => NameInv
  BY DEF Init, NameInv, CheckedNamesDistinct, NameStillFree, CurrentLooks
<1>2. IInv /\ NameInv /\ [Next]_vars => NameInv'
  BY NameStep
<1>3. NameInv => CheckedNamesDistinct
  BY DEF NameInv
<1> QED
  BY <1>1, <1>2, <1>3, Invariance, PTL DEF Spec
=============================================================================
