------------------------------ MODULE FileList ------------------------------
(***************************************************************************)
(* The listings, beside the handlers that change the tree and the download *)
(* that walks it.                                                          *)
(*   /user/file/list     (user_file_list_logic.go)                         *)
(*   /user/folder/list   (user_folder_list_logic.go)                       *)
(* A client pages through a level: each page is a request of three         *)
(* statements, which look up the folder, select the page and count the     *)
(* level.  The table has no index but its primary key and the query no     *)
(* ORDER BY; rows are taken to come in some order that lasts for the pass. *)
(***************************************************************************)
EXTENDS FolderDownload

CONSTANTS
  Reader,      \* slots for clients that go through a listing
  PageSize     \* entries per page (20 in define.go when none is asked for)

ASSUME PageSizeAssumption == PageSize \in Nat \ {0}

VARIABLES
  doing,       \* doing[v]: the next statement for reader v
  for,         \* for[v]: the user who asked
  folder,      \* folder[v]: the folder asked for, Root when none is named
  level,       \* level[v]: the parent_id the query is given
  order,       \* order[v]: the order in which rows come
  page,        \* page[v]: the page the client asks for
  shown,       \* shown[v]: the entries listed so far
  again,       \* again[v]: entries listed more than once
  stray,       \* stray[v]: entries listed that did not lie in the folder
  always,      \* always[v]: the entries of the folder ever since v began
  joined,      \* joined[v]: whether an entry came into the folder meanwhile
  left,        \* left[v]: whether an entry left it meanwhile
  gone         \* gone[v]: whether the folder was not the user's own live one

reading == <<doing, for, folder, level, order, page, shown, again, stray>>
witness == <<always, joined, left, gone>>
listVars == <<downloadVars, reading, witness>>

Doings == {"idle", "getId", "select", "count", "getParent", "find", "done"}
Orders == {f \in [Node -> 1..Cardinality(Node)] : IsInjective(f)}
NoOrder == [n \in Node |-> 0]

(* Mutant of Entries: soft-deleted rows are not left out. *)
AllEntries(p, u) == {n \in Used : owner[n] = u /\ parent[n] = p}

Entries(p, u) == {n \in Node : Found(n, u) /\ parent[n] = p}

(* Where an entry comes among those of its level. *)
Rank(n, E, o) == Cardinality({m \in E : o[m] <= o[n]})

(* What lies in a folder, said apart from the queries. *)
Within(p, u) == {n \in Node : status[n] = "live" /\ owner[n] = u /\ parent[n] = p}
Own(p, u) == p = Root \/ (status[p] = "live" /\ owner[p] = u)

ListInit ==
  /\ DownloadInit
  /\ doing = [v \in Reader |-> "idle"]
  /\ for = [v \in Reader |-> None]
  /\ folder = [v \in Reader |-> None]
  /\ level = [v \in Reader |-> None]
  /\ order = [v \in Reader |-> NoOrder]
  /\ page = [v \in Reader |-> 0]
  /\ shown = [v \in Reader |-> {}]
  /\ again = [v \in Reader |-> {}]
  /\ stray = [v \in Reader |-> {}]
  /\ always = [v \in Reader |-> {}]
  /\ joined = [v \in Reader |-> FALSE]
  /\ left = [v \in Reader |-> FALSE]
  /\ gone = [v \in Reader |-> FALSE]

(* A client asks for the first page of a folder, or of the root. *)
Begin(v, u, p, first, expected) ==
  /\ doing[v] = "idle"
  /\ doing' = [doing EXCEPT ![v] = first]
  /\ for' = [for EXCEPT ![v] = u]
  /\ folder' = [folder EXCEPT ![v] = p]
  /\ level' = [level EXCEPT ![v] = Root]
  /\ always' = [always EXCEPT ![v] = expected]
  /\ gone' = [gone EXCEPT ![v] = ~Own(p, u)]
  /\ UNCHANGED <<downloadVars, order, page, shown, again, stray, joined, left>>

AskList(v) == \E u \in User, p \in Used \cup {Root} :
  Begin(v, u, p, "getId", Within(p, u))

AskFolders(v) == \E u \in User, p \in Used \cup {Root} :
  Begin(v, u, p, IF p = Root THEN "find" ELSE "getParent",
        {n \in Within(p, u) : isFolder[n]})

Finish(v) ==
  /\ doing' = [doing EXCEPT ![v] = "idle"]
  /\ for' = [for EXCEPT ![v] = None]
  /\ folder' = [folder EXCEPT ![v] = None]
  /\ level' = [level EXCEPT ![v] = None]
  /\ order' = [order EXCEPT ![v] = NoOrder]
  /\ page' = [page EXCEPT ![v] = 0]
  /\ shown' = [shown EXCEPT ![v] = {}]
  /\ again' = [again EXCEPT ![v] = {}]
  /\ stray' = [stray EXCEPT ![v] = {}]
  /\ always' = [always EXCEPT ![v] = {}]
  /\ joined' = [joined EXCEPT ![v] = FALSE]
  /\ left' = [left EXCEPT ![v] = FALSE]
  /\ gone' = [gone EXCEPT ![v] = FALSE]

(* The id of the row with the identity; whether there is one is not looked *)
(* at, and the id of none is that of the root.                             *)
ListGetId(v) ==
  /\ doing[v] = "getId"
  /\ level' = [level EXCEPT ![v] =
       IF folder[v] # Root /\ status[folder[v]] = "live" THEN folder[v] ELSE Root]
  /\ doing' = [doing EXCEPT ![v] = "select"]
  /\ UNCHANGED <<downloadVars, for, folder, order, page, shown, again, stray, witness>>

Shows(v, rows) ==
  /\ shown' = [shown EXCEPT ![v] = @ \cup rows]
  /\ again' = [again EXCEPT ![v] = @ \cup (shown[v] \cap rows)]

\* Mutant of Offset: pages are counted from 0.
NextOffset(v) == page[v] * PageSize

(* Page 0, none asked for, is page 1. *)
PageNumber(v) == IF page[v] = 0 THEN 1 ELSE page[v]
Offset(v) == (PageNumber(v) - 1) * PageSize

(* The order in which rows come turns out with the first page. *)
RowOrders(v) == IF page[v] = 0 THEN Orders ELSE {order[v]}

(* Mutant of ListSelect: the page begins with the last entry of the one    *)
(* before.                                                                 *)
ListSelectOverlap(v) ==
  /\ doing[v] = "select"
  /\ \E o \in RowOrders(v) :
       LET E == Entries(level[v], for[v])
           rows == {n \in E : Rank(n, E, o) \in Offset(v)..Offset(v) + PageSize}
       IN  /\ order' = [order EXCEPT ![v] = o]
           /\ Shows(v, rows)
           /\ stray' = [stray EXCEPT ![v] = @ \cup (rows \ Within(folder[v], for[v]))]
  /\ doing' = [doing EXCEPT ![v] = "count"]
  /\ UNCHANGED <<downloadVars, for, folder, level, page, witness>>

ListSelect(v) ==
  /\ doing[v] = "select"
  /\ \E o \in RowOrders(v) :
       LET E == Entries(level[v], for[v])
           rows == {n \in E : Rank(n, E, o) \in Offset(v) + 1..Offset(v) + PageSize}
       IN  /\ order' = [order EXCEPT ![v] = o]
           /\ Shows(v, rows)
           /\ stray' = [stray EXCEPT ![v] = @ \cup (rows \ Within(folder[v], for[v]))]
  /\ doing' = [doing EXCEPT ![v] = "count"]
  /\ UNCHANGED <<downloadVars, for, folder, level, page, witness>>

(* Count the level and answer; the client asks for the next page until the *)
(* pages make up the count.                                                *)
ListCount(v) ==
  /\ doing[v] = "count"
  /\ IF PageNumber(v) * PageSize >= Cardinality(Entries(level[v], for[v]))
     THEN /\ doing' = [doing EXCEPT ![v] = "done"]
          /\ UNCHANGED page
     ELSE /\ doing' = [doing EXCEPT ![v] = "getId"]
          /\ page' = [page EXCEPT ![v] = PageNumber(v) + 1]
  /\ UNCHANGED <<downloadVars, for, folder, level, order, shown, again, stray, witness>>

(* The parent a folder listing is restricted to; without one all folders   *)
(* of the user are listed.                                                 *)
FoldersGetParent(v) ==
  /\ doing[v] = "getParent"
  /\ level' = [level EXCEPT ![v] = IF Found(folder[v], for[v]) THEN folder[v] ELSE Root]
  /\ doing' = [doing EXCEPT ![v] = "find"]
  /\ UNCHANGED <<downloadVars, for, folder, order, page, shown, again, stray, witness>>

Folders(p, u) == {n \in Node : /\ Found(n, u) /\ isFolder[n]
                               /\ p = Root \/ parent[n] = p}

FoldersFind(v) ==
  /\ doing[v] = "find"
  /\ LET rows == Folders(level[v], for[v])
     IN  /\ Shows(v, rows)
         /\ stray' = [stray EXCEPT ![v] =
              IF folder[v] = Root THEN {} ELSE rows \ Within(folder[v], for[v])]
  /\ doing' = [doing EXCEPT ![v] = "done"]
  /\ UNCHANGED <<downloadVars, for, folder, level, order, page, witness>>

(* The client has what it asked for, or gives up on an error. *)
ListEnds(v) == doing[v] # "idle" /\ Finish(v) /\ UNCHANGED downloadVars

(* A step of another handler; what it does to the folders being read.      *)
Beside ==
  /\ DownloadNext
  /\ UNCHANGED reading
  /\ LET now(v) == Within(folder[v], for[v])
         on == {v \in Reader : doing[v] # "idle"}
     IN  /\ always' = [v \in Reader |-> IF v \in on THEN always[v] \cap now(v)' ELSE {}]
         /\ joined' = [v \in Reader |-> v \in on /\ (joined[v] \/ now(v)' \ now(v) # {})]
         /\ left' = [v \in Reader |-> v \in on /\ (left[v] \/ now(v) \ now(v)' # {})]
         /\ gone' = [v \in Reader |-> v \in on /\ (gone[v] \/ ~Own(folder[v], for[v])')]

Read(v) == \/ AskList(v) \/ ListGetId(v) \/ ListSelect(v) \/ ListCount(v)
           \/ AskFolders(v) \/ FoldersGetParent(v) \/ FoldersFind(v)
           \/ ListEnds(v)

ListNext == Beside \/ \E v \in Reader : Read(v)

ListSpec == ListInit /\ [][ListNext]_listVars

-----------------------------------------------------------------------------
ListTypeOK ==
  /\ WalkTypeOK
  /\ doing \in [Reader -> Doings]
  /\ for \in [Reader -> User \cup {None}]
  /\ folder \in [Reader -> Places \cup {None}]
  /\ level \in [Reader -> Places \cup {None}]
  /\ order \in [Reader -> [Node -> 0..Cardinality(Node)]]
  /\ page \in [Reader -> Nat]
  /\ \A v \in Reader : shown[v] \cup again[v] \cup stray[v] \cup always[v] \subseteq Used
  /\ joined \in [Reader -> BOOLEAN]
  /\ left \in [Reader -> BOOLEAN]
  /\ gone \in [Reader -> BOOLEAN]

(* A client that pages until it has the count has been shown every entry   *)
(* that was in the folder all the time, unless another entry left the      *)
(* folder and the later ones moved up a place, or the folder was deleted.  *)
SteadyEntriesListed == \A v \in Reader :
  doing[v] = "done" => always[v] \subseteq shown[v] \/ left[v] \/ gone[v]

(* An entry is listed on two pages only if another one came into the       *)
(* folder meanwhile, or the folder was deleted.                            *)
ListedTwiceForCause == \A v \in Reader :
  again[v] # {} => joined[v] \/ gone[v]

(* A listing of a folder holds what lies there when the page is read.  It  *)
(* goes on with entries of the root, or with all folders, only when the    *)
(* folder is none of the user's any more (user_file_list_logic.go:44 and   *)
(* user_folder_list_logic.go:45 read a missing row as the root).           *)
StrayForCause == \A v \in Reader : stray[v] # {} => gone[v]
=============================================================================
