--------------------------- MODULE UserRepository ---------------------------
(***************************************************************************)
(* The users' file trees: the table user_repository and the handlers that  *)
(* change it.                                                              *)
(*   /user/folder/create      (user_folder_create_logic.go)                *)
(*   /user/repository/save    (user_repository_save_logic.go)              *)
(*   /user/file/name/update   (user_file_name_update_logic.go)             *)
(*   /user/file/move          (user_file_move_logic.go)                    *)
(*   /user/file/delete        (user_file_delete_logic.go)                  *)
(* The columns of the table are functions on Node; a node stands for the   *)
(* id and the identity of a row, which are given out together.  Handlers   *)
(* that check before they write hold what they were asked for in a slot;   *)
(* each statement they send is one action.                                 *)
(***************************************************************************)
EXTENDS Integers, FiniteSets

CONSTANTS
  User,
  Node,        \* the rows the table can get
  Name,
  Request,     \* slots for requests in flight
  Root,        \* parent_id 0
  None         \* no value

ASSUME RootAssumption == Root \notin Node
ASSUME NoneAssumption == None \notin User \cup Name \cup Node \cup {Root}

VARIABLES
  status,      \* status[n]: not inserted yet, live, or soft-deleted
  owner,       \* the column user_identity
  parent,      \* the column parent_id
  name,        \* the column name
  isFolder,    \* whether repository_identity and ext are empty
  checked,     \* whether n got its name and level after a look for clashes
               \* that no other write had overtaken
  current,     \* the requests whose look for clashes nothing has overtaken
  at,          \* at[r]: the next statement of handler r
  by,          \* by[r]: the user request r comes from
  node,        \* node[r]: the entry to rename or move
  dest,        \* dest[r]: the parent asked for
  label        \* label[r]: the name asked for

columns == <<owner, parent, name, isFolder>>
table == <<status, columns, checked>>
request == <<at, by, node, dest, label>>
vars == <<table, current, request>>

Stages == {"idle", "createCount", "createInsert", "renameCount",
           "renameUpdate", "moveGetFile", "moveGetParent", "moveUpdate"}

Places == Node \cup {Root}
Used == {n \in Node : status[n] # "free"}
Free == Node \ Used

(* What the engine finds: it leaves soft-deleted rows out. *)
Found(n, u) == status[n] = "live" /\ owner[n] = u
Taken(nm, p) == \E n \in Node :
  status[n] = "live" /\ name[n] = nm /\ parent[n] = p

Init ==
  /\ status = [n \in Node |-> "free"]
  /\ owner = [n \in Node |-> None]
  /\ parent = [n \in Node |-> None]
  /\ name = [n \in Node |-> None]
  /\ isFolder = [n \in Node |-> FALSE]
  /\ checked = [n \in Node |-> FALSE]
  /\ current = {}
  /\ at = [r \in Request |-> "idle"]
  /\ by = [r \in Request |-> None]
  /\ node = [r \in Request |-> None]
  /\ dest = [r \in Request |-> None]
  /\ label = [r \in Request |-> None]

Ask(r, stage, u, n, p, nm) ==
  /\ at[r] = "idle"
  /\ at' = [at EXCEPT ![r] = stage]
  /\ by' = [by EXCEPT ![r] = u]
  /\ node' = [node EXCEPT ![r] = n]
  /\ dest' = [dest EXCEPT ![r] = p]
  /\ label' = [label EXCEPT ![r] = nm]
  /\ UNCHANGED <<table, current>>

Goto(r, stage) == at' = [at EXCEPT ![r] = stage]
                  /\ UNCHANGED <<by, node, dest, label>>

(* The look for clashes found none. *)
Checks(r, stage) == Goto(r, stage) /\ current' = current \cup {r}

Return(r) == /\ at' = [at EXCEPT ![r] = "idle"]
             /\ by' = [by EXCEPT ![r] = None]
             /\ node' = [node EXCEPT ![r] = None]
             /\ dest' = [dest EXCEPT ![r] = None]
             /\ label' = [label EXCEPT ![r] = None]

(* The handler returns and has written nothing. *)
Drop(r) == Return(r) /\ current' = current \ {r} /\ UNCHANGED table

(* Mutant of Insert: the row is written without its user_identity. *)
InsertAnonymous(n, u, p, nm, folder, ok) ==
  /\ status' = [status EXCEPT ![n] = "live"]
  /\ parent' = [parent EXCEPT ![n] = p]
  /\ name' = [name EXCEPT ![n] = nm]
  /\ isFolder' = [isFolder EXCEPT ![n] = folder]
  /\ checked' = [checked EXCEPT ![n] = ok]
  /\ UNCHANGED owner

(* Insert a row for user u. *)
Insert(n, u, p, nm, folder, ok) ==
  /\ status' = [status EXCEPT ![n] = "live"]
  /\ owner' = [owner EXCEPT ![n] = u]
  /\ parent' = [parent EXCEPT ![n] = p]
  /\ name' = [name EXCEPT ![n] = nm]
  /\ isFolder' = [isFolder EXCEPT ![n] = folder]
  /\ checked' = [checked EXCEPT ![n] = ok]

-----------------------------------------------------------------------------
(* /user/folder/create: count the name at the level, then insert.  The     *)
(* count is not restricted to the user's rows, and the parent_id is the    *)
(* client's: a number of any row, another user's, deleted or still to come. *)
AskCreate(r) == \E u \in User, p \in Places, nm \in Name :
  Ask(r, "createCount", u, None, p, nm)

CreateCount(r) ==
  /\ at[r] = "createCount"
  /\ \/ Taken(label[r], dest[r]) /\ Drop(r)
     \/ /\ ~Taken(label[r], dest[r])
        /\ Checks(r, "createInsert") /\ UNCHANGED table

(* Bound: without a row left in Node the statement can only fail. *)
CreateInsert(r) ==
  /\ at[r] = "createInsert"
  /\ \E n \in Free :
       Insert(n, by[r], dest[r], label[r], TRUE, r \in current)
  /\ Return(r)
  /\ current' = {}

(* /user/repository/save: one insert, nothing is looked up; here too the   *)
(* parent_id is the client's.                                              *)
Save == \E u \in User, p \in Places, nm \in Name, n \in Free :
  /\ Insert(n, u, p, nm, FALSE, FALSE)
  /\ UNCHANGED <<current, request>>

(* /user/file/name/update: the count looks at the level of the row with    *)
(* the identity, whoever owns it and deleted or not.                       *)
AskRename(r) == \E u \in User, n \in Used, nm \in Name :
  Ask(r, "renameCount", u, n, None, nm)

(* Mutant of RenameCount: the name is not looked for. *)
RenameUncounted(r) ==
  /\ at[r] = "renameCount"
  /\ Checks(r, "renameUpdate")
  /\ UNCHANGED table

RenameCount(r) ==
  /\ at[r] = "renameCount"
  /\ \/ Taken(label[r], parent[node[r]]) /\ Drop(r)
     \/ /\ ~Taken(label[r], parent[node[r]])
        /\ Checks(r, "renameUpdate") /\ UNCHANGED table

(* Mutant of Written: the update loses its condition on user_identity. *)
WrittenForAnyone(r) == node[r] \in Used

(* The engine's Update of a soft-deleted row may or may not take effect.   *)
Written(r) == owner[node[r]] = by[r]
Skipped(r) == owner[node[r]] # by[r] \/ status[node[r]] = "deleted"

RenameUpdate(r) ==
  /\ at[r] = "renameUpdate"
  /\ \/ /\ Written(r)
        /\ name' = [name EXCEPT ![node[r]] = label[r]]
        /\ checked' = [checked EXCEPT ![node[r]] = r \in current]
        /\ current' = {}
     \/ /\ Skipped(r)
        /\ current' = current \ {r}
        /\ UNCHANGED <<name, checked>>
  /\ Return(r)
  /\ UNCHANGED <<status, owner, parent, isFolder>>

(* /user/file/move: get the entry, get the destination, update parent_id.  *)
AskMove(r) == \E u \in User, n \in Used : \E p \in Used \cup {Root} :
  Ask(r, "moveGetFile", u, n, p, None)

MoveGetFile(r) ==
  /\ at[r] = "moveGetFile"
  /\ \/ ~Found(node[r], by[r]) /\ Return(r)
     \/ /\ Found(node[r], by[r])
        /\ Goto(r, IF dest[r] = Root THEN "moveUpdate" ELSE "moveGetParent")
  /\ UNCHANGED <<table, current>>

(* Mutant of MoveGetParent: the destination may be anybody's. *)
MoveGetAnyParent(r) ==
  /\ at[r] = "moveGetParent"
  /\ IF status[dest[r]] = "live" /\ dest[r] # node[r]
     THEN Goto(r, "moveUpdate") ELSE Return(r)
  /\ UNCHANGED <<table, current>>

MoveGetParent(r) ==
  /\ at[r] = "moveGetParent"
  /\ IF Found(dest[r], by[r]) /\ dest[r] # node[r]
     THEN Goto(r, "moveUpdate") ELSE Return(r)
  /\ UNCHANGED <<table, current>>

MoveUpdate(r) ==
  /\ at[r] = "moveUpdate"
  /\ \/ /\ Written(r)
        /\ parent' = [parent EXCEPT ![node[r]] = dest[r]]
        /\ checked' = [checked EXCEPT ![node[r]] = FALSE]
        /\ current' = {}
     \/ /\ Skipped(r)
        /\ UNCHANGED <<parent, checked, current>>
  /\ Return(r)
  /\ UNCHANGED <<status, owner, name, isFolder>>

(* /user/file/delete: one statement; what lies below the entry stays. *)
Delete == \E u \in User, n \in Node :
  /\ Found(n, u)
  /\ status' = [status EXCEPT ![n] = "deleted"]
  /\ UNCHANGED <<columns, checked, current, request>>

(* A statement fails, or the process stops: the handler is gone, and what  *)
(* it has not written yet is not written.                                  *)
Fail(r) == at[r] # "idle" /\ Drop(r)

Arrive(r) == AskCreate(r) \/ AskRename(r) \/ AskMove(r)
Serve(r) == \/ CreateCount(r) \/ CreateInsert(r)
            \/ RenameCount(r) \/ RenameUpdate(r)
            \/ MoveGetFile(r) \/ MoveGetParent(r) \/ MoveUpdate(r)

Next == \/ \E r \in Request : Arrive(r) \/ Serve(r) \/ Fail(r)
        \/ Save \/ Delete

Spec == Init /\ [][Next]_vars

-----------------------------------------------------------------------------
TypeOK ==
  /\ status \in [Node -> {"free", "live", "deleted"}]
  /\ owner \in [Node -> User \cup {None}]
  /\ parent \in [Node -> Places \cup {None}]
  /\ name \in [Node -> Name \cup {None}]
  /\ \A n \in Used : owner[n] # None /\ parent[n] # None /\ name[n] # None
  /\ isFolder \in [Node -> BOOLEAN]
  /\ checked \in [Node -> BOOLEAN]
  /\ current \subseteq Request
  /\ at \in [Request -> Stages]
  /\ by \in [Request -> User \cup {None}]
  /\ node \in [Request -> Node \cup {None}]
  /\ dest \in [Request -> Places \cup {None}]
  /\ label \in [Request -> Name \cup {None}]

(* A move leaves the entry at the root or below an entry of its owner,     *)
(* although it is asked for by identities, and may be asked for anybody's: *)
(* both ends are looked up as the user's before the update, and neither    *)
(* can change hands in between.  (A create or a save may put an entry      *)
(* below another user's, for nobody looks whose its parent_id is.)         *)
MovesStayInOwnTree == [][\A n \in Used :
  parent'[n] # parent[n] =>
    parent'[n] = Root \/ (parent'[n] \in Used /\ owner[parent'[n]] = owner[n])]_vars

(* Only its owner's rename or move changes the name or the parent of an    *)
(* entry, whoever else holds its identity.                                 *)
ChangedByOwner == [][\A n \in Used :
  parent'[n] # parent[n] \/ name'[n] # name[n] =>
    \E r \in Request : by[r] = owner[n] /\ node[r] = n]_vars

(* Two live entries on a level have one name only if one of them got there *)
(* without a look for clashes (a save or a move), or if a create, a rename *)
(* or a move of another request was written between the look of            *)
(* user_folder_create_logic.go:31 or user_file_name_update_logic.go:30 and *)
(* the write that relied on it: nothing else makes names clash.            *)
CheckedNamesDistinct == \A m, n \in Node :
  /\ m # n /\ status[m] = "live" /\ status[n] = "live"
  /\ checked[m] /\ checked[n] /\ parent[m] = parent[n]
  => name[m] # name[n]

-----------------------------------------------------------------------------
(* Statements of the repository's texts that the code does not keep.       *)

Above[k \in Nat] == [n \in Node |->
  IF k = 0 THEN {parent[n]}
  ELSE Above[k - 1][n] \cup {parent[m] : m \in Above[k - 1][n] \cap Node}]

(* user_file_move_logic.go:51: an entry cannot be moved into itself.  The  *)
(* move compares the two ends only, so a folder gets below itself.         *)
NeverMovedIntoItself == [][\A n \in Used :
  parent'[n] # parent[n] => n \notin Above[Cardinality(Node)][n]']_vars
=============================================================================
