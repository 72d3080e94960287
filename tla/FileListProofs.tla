--------------------------- MODULE FileListProofs ---------------------------
(***************************************************************************)
(* Proofs about FileList: what a client that pages through a folder gets   *)
(* to see, for any number of rows, readers, walks and requests and every   *)
(* page size.  Of the other handlers only what they do to the folder       *)
(* matters, and joined, left and gone keep account of that.                *)
(***************************************************************************)
EXTENDS FileList, FolderDownloadProofs, FiniteSetTheorems

(* The entries of the folder that reader v asked for. *)
Here(v) == Within(folder[v], for[v])

Paging == {"getId", "select", "count"}

(* How many of the entries the pages so far make up. *)
Covered(v) == IF doing[v] = "count" THEN PageNumber(v) * PageSize ELSE Offset(v)

ReadTyped ==
  /\ doing \in [Reader -> Doings]
  /\ for \in [Reader -> User \cup {None}]
  /\ folder \in [Reader -> Places \cup {None}]
  /\ level \in [Reader -> Places \cup {None}]
  /\ order \in [Reader -> [Node -> Nat]]
  /\ page \in [Reader -> Nat]
  /\ shown \in [Reader -> SUBSET Node]
  /\ again \in [Reader -> SUBSET Node]
  /\ stray \in [Reader -> SUBSET Node]
  /\ always \in [Reader -> SUBSET Node]
  /\ joined \in [Reader -> BOOLEAN]
  /\ left \in [Reader -> BOOLEAN]
  /\ gone \in [Reader -> BOOLEAN]

(* A reader begins with nothing. *)
StartOK(v) ==
  /\ doing[v] = "idle" => /\ shown[v] = {} /\ again[v] = {} /\ stray[v] = {}
                          /\ page[v] = 0
                          /\ ~joined[v] /\ ~left[v]
  /\ doing[v] \in {"getParent", "find"} => shown[v] = {} /\ again[v] = {}
  /\ doing[v] \in {"getId", "select"} /\ page[v] = 0 => shown[v] = {} /\ again[v] = {}

(* While the folder is the user's own, it is the level that is queried.    *)
LevelOK(v) ==
  /\ doing[v] = "getParent" => folder[v] # Root
  /\ doing[v] # "idle" /\ ~gone[v] => Own(folder[v], for[v])
  /\ doing[v] \in {"select", "count", "find"} /\ ~gone[v] => level[v] = folder[v]

(* What was there all the time is there still, and of a folder listing it  *)
(* is folders.                                                             *)
AlwaysOK(v) ==
  /\ doing[v] # "idle" => always[v] \subseteq Here(v)
  /\ doing[v] \in {"getParent", "find"} => \A n \in always[v] : isFolder[n]

(* The entries listed are among those the pages make up, for none has come *)
(* in before them; and those not listed come later, for none has left.     *)
PagesOK(v) == doing[v] \in Paging /\ (page[v] # 0 \/ doing[v] = "count") =>
  /\ ~joined[v] /\ ~gone[v] =>
       \A n \in shown[v] \cap Here(v) : Rank(n, Here(v), order[v]) <= Covered(v)
  /\ ~left[v] /\ ~gone[v] =>
       \A n \in always[v] \ shown[v] : Rank(n, Here(v), order[v]) > Covered(v)

ClaimsOK(v) ==
  /\ doing[v] = "done" => always[v] \subseteq shown[v] \/ left[v] \/ gone[v]
  /\ again[v] # {} => joined[v] \/ gone[v]
  /\ stray[v] # {} => gone[v]

Good(v) == StartOK(v) /\ LevelOK(v) /\ AlwaysOK(v) /\ PagesOK(v) /\ ClaimsOK(v)

ReadInv == isFolder \in [Node -> BOOLEAN] /\ ReadTyped /\ \A v \in Reader : Good(v)

-----------------------------------------------------------------------------
(* The place of an entry among those of its level. *)
LEMMA RankBounds ==
  ASSUME NEW E \in SUBSET Node, NEW o \in [Node -> Nat], NEW n \in E
  PROVE  Rank(n, E, o) \in Nat /\ 0 < Rank(n, E, o) /\ Rank(n, E, o) <= Cardinality(E)
<1> DEFINE R == {m \in E : o[m] <= o[n]}
<1>1. IsFiniteSet(E)
  BY RowsAssumption, FS_Subset
<1>2. IsFiniteSet(R) /\ Cardinality(R) <= Cardinality(E)
  BY <1>1, FS_Subset
<1>3. R # {}
  BY DEF R
<1>4. Cardinality(R) \in Nat /\ Cardinality(R) # 0
  BY <1>2, <1>3, FS_CardinalityType, FS_EmptySet
<1> QED
  BY <1>2, <1>4 DEF Rank

LEMMA RankGrows ==
  ASSUME NEW F \in SUBSET Node, NEW E \in SUBSET F, NEW o \in [Node -> Nat], NEW n \in E
  PROVE  Rank(n, E, o) <= Rank(n, F, o)
<1> DEFINE R(D) == {m \in D : o[m] <= o[n]}
<1>1. IsFiniteSet(R(F))
  BY RowsAssumption, FS_Subset
<1>2. R(E) \in SUBSET R(F)
  OBVIOUS
<1>3. Cardinality(R(E)) <= Cardinality(R(F))
  BY <1>1, <1>2, FS_Subset
<1> QED
  BY <1>3 DEF Rank

LEMMA OffsetIsNat ==
  ASSUME NEW v \in Reader, page[v] \in Nat
  PROVE  /\ PageNumber(v) \in Nat \ {0}
         /\ Offset(v) \in Nat /\ PageNumber(v) * PageSize \in Nat
         /\ Offset(v) + PageSize = PageNumber(v) * PageSize
<1>1. PageNumber(v) \in Nat \ {0}
  BY DEF PageNumber
<1>2. \A k \in Nat \ {0} : /\ (k - 1) * PageSize \in Nat /\ k * PageSize \in Nat
                           /\ (k - 1) * PageSize + PageSize = k * PageSize
  BY PageSizeAssumption
<1> QED
  BY <1>1, <1>2 DEF Offset

(* What an entry is does not change while it is live. *)
LEMMA FoldersStay ==
  ASSUME isFolder \in [Node -> BOOLEAN], [DownloadNext]_downloadVars
  PROVE  /\ isFolder' \in [Node -> BOOLEAN]
         /\ \A n \in Node : status[n] = "live" => isFolder'[n] = isFolder[n]
<1>1. ASSUME NEW n \in Free, NEW f \in BOOLEAN, isFolder' = [isFolder EXCEPT ![n] = f]
      PROVE  /\ isFolder' \in [Node -> BOOLEAN]
             /\ \A m \in Node : status[m] = "live" => isFolder'[m] = isFolder[m]
  BY <1>1 DEF Free, Used
<1>2. ASSUME Next
      PROVE  \/ isFolder' = isFolder
             \/ \E n \in Free, f \in BOOLEAN : isFolder' = [isFolder EXCEPT ![n] = f]
  <2>1. ASSUME NEW r \in Request, Arrive(r) \/ Fail(r) PROVE isFolder' = isFolder
    BY <2>1 DEF Arrive, AskCreate, AskRename, AskMove, Ask, Fail, Drop, table, columns
  <2>2. ASSUME NEW r \in Request, Serve(r), ~CreateInsert(r) PROVE isFolder' = isFolder
    BY <2>2 DEF Serve, CreateCount, RenameCount, RenameUpdate, MoveGetFile,
       MoveGetParent, MoveUpdate, Drop, table, columns
  <2>3. ASSUME NEW r \in Request, CreateInsert(r)
        PROVE  \E n \in Free, f \in BOOLEAN : isFolder' = [isFolder EXCEPT ![n] = f]
    BY <2>3 DEF CreateInsert, Insert
  <2>4. CASE Save
    BY <2>4 DEF Save, Insert
  <2>5. CASE Delete
    BY <2>5 DEF Delete, columns
  <2> QED
    BY <1>2, <2>1, <2>2, <2>3, <2>4, <2>5 DEF Next
<1>3. ASSUME NEW w \in Walk, AskWalk(w) \/ WalkStep(w) PROVE isFolder' = isFolder
  BY <1>3 DEF AskWalk, WalkStep, WalkGet, WalkFind, WalkLoop, WalkReply, WalkFails,
     WalkPack, WalkZip, Overflow, vars, table, columns
<1>4. CASE UNCHANGED downloadVars
  BY <1>4 DEF downloadVars, vars, table, columns
<1> QED
  BY <1>1, <1>2, <1>3, <1>4 DEF DownloadNext, TreeStep

-----------------------------------------------------------------------------
(* A step of one reader: the tree and the other readers stay.              *)
Same(v) ==
  /\ doing'[v] = doing[v] /\ for'[v] = for[v] /\ folder'[v] = folder[v]
  /\ level'[v] = level[v] /\ order'[v] = order[v] /\ page'[v] = page[v]
  /\ shown'[v] = shown[v] /\ again'[v] = again[v] /\ stray'[v] = stray[v]
  /\ always'[v] = always[v] /\ joined'[v] = joined[v]
  /\ left'[v] = left[v] /\ gone'[v] = gone[v]

LEMMA ReaderStays ==
  ASSUME UNCHANGED downloadVars, NEW v \in Reader, Same(v), Good(v)
  PROVE  Good(v)'
<1> USE DEF Same
<1>1. UNCHANGED <<status, owner, parent, isFolder>>
  BY DEF downloadVars, vars, table, columns
<1>2. Here(v)' = Here(v) /\ Own(folder[v], for[v])' = Own(folder[v], for[v])
  BY <1>1 DEF Here, Within, Own
<1>3. Covered(v)' = Covered(v)
  BY DEF Covered, Offset, PageNumber
<1>4. \A n : Rank(n, Here(v), order[v])' = Rank(n, Here(v), order[v])
  BY <1>2 DEF Rank
<1>5. StartOK(v)' /\ LevelOK(v)' /\ ClaimsOK(v)'
  BY <1>2 DEF Good, StartOK, LevelOK, ClaimsOK
<1>6. AlwaysOK(v)'
  BY <1>1, <1>2 DEF Good, AlwaysOK
<1>7. PagesOK(v)'
  BY <1>2, <1>3, <1>4 DEF Good, PagesOK
<1> QED
  BY <1>5, <1>6, <1>7 DEF Good

(* So it is enough to look at the reader whose step it is. *)
LEMMA ReaderStep ==
  ASSUME ReadInv, UNCHANGED downloadVars, NEW v \in Reader,
         \A u \in Reader \ {v} : Same(u),
         ReadTyped', Good(v)'
  PROVE  ReadInv'
<1>1. isFolder' = isFolder
  BY DEF downloadVars, vars, table, columns
<1>2. \A u \in Reader \ {v} : Good(u)'
  BY ReaderStays DEF ReadInv
<1> QED
  BY <1>1, <1>2 DEF ReadInv

(* What a reader looks at stays while it moves on.                         *)
LEMMA HereStays ==
  ASSUME UNCHANGED downloadVars, NEW v \in Reader,
         for'[v] = for[v], folder'[v] = folder[v]
  PROVE  /\ Here(v)' = Here(v)
         /\ Own(folder[v], for[v])' = Own(folder[v], for[v])
         /\ UNCHANGED <<status, owner, parent, isFolder>>
<1>1. UNCHANGED <<status, owner, parent, isFolder>>
  BY DEF downloadVars, vars, table, columns
<1> QED
  BY <1>1 DEF Here, Within, Own

LEMMA BeginKeeps ==
  ASSUME ReadInv, NEW v \in Reader, AskList(v) \/ AskFolders(v)
  PROVE  ReadInv'
<1> USE DEF ReadInv, ReadTyped
<1>1. PICK u \in User, p \in Places, first \in {"getId", "find", "getParent"},
           expected \in SUBSET Node :
        /\ Begin(v, u, p, first, expected)
        /\ first = "find" => p = Root
        /\ first = "getParent" => p # Root
        /\ expected \subseteq Within(p, u)
        /\ first # "getId" => \A n \in expected : isFolder[n]
  <2>1. \A p \in Used \cup {Root} : p \in Places
    BY DEF Used, Places
  <2>2. CASE AskList(v)
    <3>1. PICK u \in User, p \in Used \cup {Root} : Begin(v, u, p, "getId", Within(p, u))
      BY <2>2 DEF AskList
    <3>2. Within(p, u) \in SUBSET Node
      BY DEF Within
    <3> QED
      BY <2>1, <3>1, <3>2
  <2>3. CASE AskFolders(v)
    <3>1. PICK u \in User, p \in Used \cup {Root} :
            Begin(v, u, p, IF p = Root THEN "find" ELSE "getParent",
                  {n \in Within(p, u) : isFolder[n]})
      BY <2>3 DEF AskFolders
    <3> DEFINE first == IF p = Root THEN "find" ELSE "getParent"
               expected == {n \in Within(p, u) : isFolder[n]}
    <3>2. /\ first \in {"getId", "find", "getParent"}
          /\ first = "find" => p = Root
          /\ first = "getParent" => p # Root
      OBVIOUS
    <3>3. /\ expected \in SUBSET Node /\ expected \subseteq Within(p, u)
          /\ \A n \in expected : isFolder[n]
      BY DEF Within
    <3>4. Begin(v, u, p, first, expected)
      BY <3>1
    <3> HIDE DEF first, expected
    <3> QED
      BY <2>1, <3>2, <3>3, <3>4
  <2> QED
    BY <2>2, <2>3
<1>2. UNCHANGED downloadVars /\ UNCHANGED <<status, owner, parent, isFolder>>
  BY <1>1 DEF Begin, downloadVars, vars, table, columns
<1>3. ReadTyped'
  BY <1>1 DEF Begin, Doings, Places
<1>4. \A r \in Reader \ {v} : Same(r)
  BY <1>1 DEF Begin, Same
<1>5. /\ doing[v] = "idle" /\ doing'[v] = first /\ for'[v] = u /\ folder'[v] = p
      /\ level'[v] = Root /\ always'[v] = expected /\ gone'[v] = ~Own(p, u)
      /\ UNCHANGED <<page, order, shown, again, stray, joined, left>>
  BY <1>1 DEF Begin
<1>6. StartOK(v)' /\ ClaimsOK(v)' /\ PagesOK(v)'
  BY <1>5 DEF Good, StartOK, ClaimsOK, PagesOK, Paging
<1>7. LevelOK(v)'
  BY <1>1, <1>2, <1>5 DEF LevelOK, Own
<1>8. AlwaysOK(v)'
  BY <1>1, <1>2, <1>5 DEF AlwaysOK, Here, Within
<1> QED
  BY <1>2, <1>3, <1>4, <1>6, <1>7, <1>8, ReaderStep DEF Good

LEMMA EndsKeeps ==
  ASSUME ReadInv, NEW v \in Reader, ListEnds(v)
  PROVE  ReadInv'
<1> USE DEF ReadInv, ReadTyped
<1>1. ReadTyped'
  <2>1. NoOrder \in [Node -> Nat]
    BY DEF NoOrder
  <2> QED
    BY <2>1 DEF ListEnds, Finish, Doings
<1>2. \A r \in Reader \ {v} : Same(r)
  BY DEF ListEnds, Finish, Same
<1>3. /\ doing'[v] = "idle" /\ page'[v] = 0 /\ always'[v] = {}
      /\ shown'[v] = {} /\ again'[v] = {} /\ stray'[v] = {}
      /\ ~joined'[v] /\ ~left'[v] /\ ~gone'[v]
  BY DEF ListEnds, Finish
<1>4. Good(v)'
  BY <1>3 DEF Good, StartOK, LevelOK, AlwaysOK, PagesOK, Paging, ClaimsOK
<1> QED
  BY <1>1, <1>2, <1>4, ReaderStep DEF ListEnds

(* The lookups: while the folder is the user's own, it is found. *)
LEMMA LookupKeeps ==
  ASSUME ReadInv, NEW v \in Reader, ListGetId(v) \/ FoldersGetParent(v)
  PROVE  ReadInv'
<1> USE DEF ReadInv, ReadTyped
<1>1. /\ UNCHANGED <<downloadVars, for, folder, order, page, shown, again, stray, witness>>
      /\ \/ doing[v] = "getId" /\ doing' = [doing EXCEPT ![v] = "select"]
         \/ doing[v] = "getParent" /\ doing' = [doing EXCEPT ![v] = "find"]
  BY DEF ListGetId, FoldersGetParent
<1> USE DEF witness
<1>2. \E p \in {folder[v], Root} : level' = [level EXCEPT ![v] = p]
  BY DEF ListGetId, FoldersGetParent
<1>3. level' \in [Reader -> Places \cup {None}] /\ \A r \in Reader \ {v} : level'[r] = level[r]
  BY <1>2 DEF Places
<1>4. ReadTyped'
  BY <1>1, <1>3 DEF Doings
<1>5. \A r \in Reader \ {v} : Same(r)
  BY <1>1, <1>3 DEF Same
<1>6. /\ Here(v)' = Here(v) /\ UNCHANGED isFolder
      /\ Own(folder[v], for[v])' = Own(folder[v], for[v])
  BY <1>1, HereStays
<1>7. ~gone[v] => level'[v] = folder[v]
  BY <1>1 DEF ListGetId, FoldersGetParent, Good, LevelOK, Own, Found
<1>8. Covered(v)' = Covered(v) /\ \A n : Rank(n, Here(v), order[v])' = Rank(n, Here(v), order[v])
  BY <1>1, <1>6 DEF Covered, Offset, PageNumber, Rank
<1>9. StartOK(v)' /\ ClaimsOK(v)'
  BY <1>1 DEF Good, StartOK, ClaimsOK
<1>10. LevelOK(v)' /\ AlwaysOK(v)'
  <2>1. /\ doing'[v] \in {"select", "find"}
        /\ doing'[v] = "find" => doing[v] = "getParent"
        /\ doing[v] # "idle"
    BY <1>1
  <2>2. LevelOK(v)'
    BY <1>1, <1>6, <1>7, <2>1 DEF Good, LevelOK
  <2>3. AlwaysOK(v)'
    BY <1>1, <1>6, <2>1 DEF Good, AlwaysOK
  <2> QED
    BY <2>2, <2>3
<1>11. PagesOK(v)'
  BY <1>1, <1>6, <1>8 DEF Good, PagesOK, Paging
<1> QED
  BY <1>1, <1>4, <1>5, <1>9, <1>10, <1>11, ReaderStep DEF Good

(* A page: the entries whose rank it covers, by the order of the pages     *)
(* before it.                                                              *)
LEMMA SelectKeeps ==
  ASSUME ReadInv, NEW v \in Reader, ListSelect(v)
  PROVE  ReadInv'
<1>0. /\ ReadTyped /\ page[v] \in Nat
      /\ StartOK(v) /\ LevelOK(v) /\ AlwaysOK(v) /\ PagesOK(v) /\ ClaimsOK(v)
  BY DEF ReadInv, Good, ReadTyped
<1> DEFINE E == Entries(level[v], for[v])
           Rows(o) == {n \in E : Rank(n, E, o) \in Offset(v) + 1..Offset(v) + PageSize}
<1>1. PICK o \in RowOrders(v) :
        /\ order' = [order EXCEPT ![v] = o]
        /\ Shows(v, Rows(o))
        /\ stray' = [stray EXCEPT ![v] = @ \cup (Rows(o) \ Within(folder[v], for[v]))]
  BY DEF ListSelect
<1> DEFINE rows == Rows(o)
<1>2. /\ doing[v] = "select" /\ doing' = [doing EXCEPT ![v] = "count"]
      /\ UNCHANGED <<downloadVars, for, folder, level, page, always, joined, left, gone>>
  BY DEF ListSelect, witness
<1>3. o \in [Node -> Nat] /\ (page[v] # 0 => o = order[v])
  <2>1. Orders \subseteq [Node -> Nat]
    BY DEF Orders
  <2> QED
    BY <1>0, <2>1 DEF RowOrders, ReadTyped
<1>4. E \in SUBSET Node /\ rows \subseteq E
  BY DEF Entries
<1>5. ~gone[v] => E = Here(v)
  BY <1>0, <1>2 DEF Entries, Here, Within, Found, LevelOK
<1> DEFINE offset == Offset(v)
<1>6. /\ offset \in Nat /\ PageSize \in Nat
      /\ page[v] = 0 => offset = 0
      /\ PageNumber(v) * PageSize = offset + PageSize
  BY <1>0, OffsetIsNat, PageSizeAssumption DEF Offset, PageNumber
<1>7. ASSUME NEW n \in E
      PROVE  /\ Rank(n, E, o) \in Nat /\ 0 < Rank(n, E, o)
             /\ n \in rows <=> offset < Rank(n, E, o) /\ Rank(n, E, o) <= offset + PageSize
  <2> DEFINE rank == Rank(n, E, o)
  <2>1. rank \in Nat /\ 0 < rank
    BY <1>3, <1>4, RankBounds
  <2>2. n \in rows <=> rank \in offset + 1..offset + PageSize
    OBVIOUS
  <2> HIDE DEF rank, offset, rows, Rows
  <2>3. n \in rows <=> offset < rank /\ rank <= offset + PageSize
    BY <1>6, <2>1, <2>2
  <2> QED
    BY <2>1, <2>3 DEF rank
<1>8. /\ shown' = [shown EXCEPT ![v] = @ \cup rows]
      /\ again' = [again EXCEPT ![v] = @ \cup (shown[v] \cap rows)]
      /\ stray' = [stray EXCEPT ![v] = @ \cup (rows \ Here(v))]
  BY <1>1 DEF Shows, Here
<1>9. /\ Covered(v) = offset /\ Covered(v)' = offset + PageSize
  <2>1. doing'[v] = "count" /\ PageNumber(v)' = PageNumber(v)
    BY <1>0, <1>2 DEF PageNumber, ReadTyped
  <2> QED
    BY <1>2, <1>6, <2>1 DEF Covered
<1> HIDE DEF E, rows, Rows, offset
<1>10. ReadTyped'
  BY <1>0, <1>1, <1>2, <1>3, <1>4, <1>8 DEF Doings, ReadTyped
<1>11. \A r \in Reader \ {v} : Same(r)
  BY <1>0, <1>1, <1>2, <1>8 DEF Same, ReadTyped
<1>12. /\ doing'[v] = "count" /\ shown'[v] = shown[v] \cup rows
       /\ again'[v] = again[v] \cup (shown[v] \cap rows)
       /\ stray'[v] = stray[v] \cup (rows \ Here(v))
       /\ order'[v] = o
  BY <1>0, <1>1, <1>2, <1>8 DEF ReadTyped
<1>13. /\ Here(v)' = Here(v)
       /\ Own(folder[v], for[v])' = Own(folder[v], for[v])
  BY <1>2, HereStays
<1>14. \A n : Rank(n, Here(v), order[v])' = Rank(n, Here(v), o)
  BY <1>12, <1>13 DEF Rank
<1>15. ~joined[v] /\ ~gone[v] => \A n \in shown[v] \cap E : Rank(n, E, o) <= offset
  <2>1. CASE page[v] = 0
    BY <1>0, <1>2, <2>1 DEF StartOK
  <2>2. CASE page[v] # 0
    BY <1>0, <1>2, <1>3, <1>5, <1>9, <2>2 DEF PagesOK, Paging
  <2> QED
    BY <2>1, <2>2
<1>16. ~left[v] /\ ~gone[v] =>
         \A n \in always[v] \ shown[v] : n \in E /\ offset < Rank(n, E, o)
  <2>1. ~gone[v] => always[v] \subseteq E
    BY <1>0, <1>2, <1>5 DEF AlwaysOK
  <2>2. CASE page[v] = 0
    BY <1>6, <1>7, <2>1, <2>2
  <2>3. CASE page[v] # 0
    BY <1>0, <1>2, <1>3, <1>5, <1>9, <2>1, <2>3 DEF PagesOK, Paging
  <2> QED
    BY <2>2, <2>3
<1>17. StartOK(v)' /\ LevelOK(v)' /\ AlwaysOK(v)'
  BY <1>0, <1>2, <1>12, <1>13 DEF StartOK, LevelOK, AlwaysOK
<1>18. PagesOK(v)'
  <2>1. ASSUME ~joined[v], ~gone[v], NEW n \in (shown[v] \cup rows) \cap E
        PROVE  Rank(n, E, o) <= offset + PageSize
    BY <1>6, <1>7, <1>15, <2>1
  <2>2. ASSUME ~left[v], ~gone[v], NEW n \in always[v] \ (shown[v] \cup rows)
        PROVE  Rank(n, E, o) > offset + PageSize
    BY <1>6, <1>7, <1>16, <2>2
  <2> QED
    BY <1>2, <1>5, <1>9, <1>12, <1>13, <1>14, <2>1, <2>2 DEF PagesOK
<1>19. ClaimsOK(v)'
  <2>1. ASSUME ~joined[v], ~gone[v], NEW n \in shown[v] \cap rows PROVE FALSE
    BY <1>4, <1>6, <1>7, <1>15, <2>1
  <2>2. ~gone[v] => rows \ Here(v) = {}
    BY <1>4, <1>5
  <2> QED
    BY <1>0, <1>2, <1>12, <2>1, <2>2 DEF ClaimsOK
<1> QED
  BY <1>2, <1>10, <1>11, <1>17, <1>18, <1>19, ReaderStep DEF Good

(* When the pages make up the count, no rank is left for an entry that has *)
(* not been shown.                                                         *)
LEMMA CountKeeps ==
  ASSUME ReadInv, NEW v \in Reader, ListCount(v)
  PROVE  ReadInv'
<1> USE DEF ReadInv, ReadTyped
<1> DEFINE n0 == PageNumber(v)
           E == Entries(level[v], for[v])
<1>1. /\ doing[v] = "count"
      /\ UNCHANGED <<downloadVars, for, folder, level, order, shown, again, stray,
                     always, joined, left, gone>>
      /\ \/ /\ n0 * PageSize >= Cardinality(E)
            /\ doing' = [doing EXCEPT ![v] = "done"] /\ page' = page
         \/ /\ doing' = [doing EXCEPT ![v] = "getId"]
            /\ page' = [page EXCEPT ![v] = n0 + 1]
  BY DEF ListCount, witness
<1>2. n0 \in Nat \ {0} /\ n0 * PageSize \in Nat
  BY OffsetIsNat
<1> HIDE DEF n0
<1>3. ReadTyped'
  <2>1. doing' \in [Reader -> Doings]
    BY <1>1 DEF Doings
  <2>2. page' \in [Reader -> Nat]
    <3>1. n0 + 1 \in Nat
      BY <1>2
    <3>2. page' = page \/ page' = [page EXCEPT ![v] = n0 + 1]
      BY <1>1
    <3> QED
      BY <3>1, <3>2
  <2> QED
    BY <1>1, <2>1, <2>2
<1>4. \A r \in Reader \ {v} : Same(r)
  BY <1>1 DEF Same
<1>5. /\ Here(v)' = Here(v) /\ UNCHANGED isFolder
      /\ Own(folder[v], for[v])' = Own(folder[v], for[v])
  BY <1>1, HereStays
<1>6. ~gone[v] => E = Here(v)
  BY <1>1 DEF Entries, Here, Within, Found, Good, LevelOK
<1>7. StartOK(v)' /\ LevelOK(v)' /\ AlwaysOK(v)'
  BY <1>1, <1>2, <1>5 DEF Good, StartOK, LevelOK, AlwaysOK
<1>8. Covered(v) = n0 * PageSize
  BY <1>1 DEF Covered, n0
<1>9. PagesOK(v)'
  <2>1. CASE doing'[v] = "done"
    BY <2>1 DEF PagesOK, Paging
  <2>2. CASE doing'[v] = "getId"
    <3>1. PageNumber(v)' - 1 = n0
      <4>1. page'[v] = n0 + 1
        BY <1>1, <2>2
      <4>2. PageNumber(v)' = n0 + 1
        BY <1>2, <4>1 DEF PageNumber
      <4> QED
        BY <1>2, <4>2
    <3>2. Covered(v)' = Covered(v)
      <4>1. Covered(v)' = (PageNumber(v)' - 1) * PageSize
        BY <2>2 DEF Covered, Offset
      <4> QED
        BY <1>8, <3>1, <4>1
    <3>3. \A n : Rank(n, Here(v), order[v])' = Rank(n, Here(v), order[v])
      BY <1>1, <1>5 DEF Rank
    <3> QED
      BY <1>1, <1>5, <3>2, <3>3 DEF Good, PagesOK, Paging
  <2> QED
    BY <1>1, <2>1, <2>2
<1>10. ClaimsOK(v)'
  <2>1. CASE doing'[v] = "done"
    <3>1. ASSUME ~left[v], ~gone[v], NEW n \in always[v], n \notin shown[v] PROVE FALSE
      <4>1. n \in E /\ E \in SUBSET Node
        BY <1>1, <1>6, <3>1 DEF Good, AlwaysOK, Entries
      <4>2. /\ Rank(n, E, order[v]) \in Nat
            /\ Rank(n, E, order[v]) <= Cardinality(E)
        BY <4>1, RankBounds
      <4>3. Rank(n, E, order[v]) > n0 * PageSize
        BY <1>1, <1>6, <1>8, <3>1 DEF Good, PagesOK, Paging
      <4>4. Cardinality(E) \in Nat
        BY <4>1, RowsAssumption, FS_Subset, FS_CardinalityType
      <4>5. n0 * PageSize >= Cardinality(E)
        BY <1>1, <2>1
      <4> HIDE DEF E
      <4> QED
        BY <1>2, <4>2, <4>3, <4>4, <4>5
    <3> QED
      BY <1>1, <3>1 DEF Good, ClaimsOK
  <2>2. CASE doing'[v] = "getId"
    BY <1>1, <2>2 DEF Good, ClaimsOK
  <2> QED
    BY <1>1, <2>1, <2>2
<1> QED
  BY <1>1, <1>3, <1>4, <1>7, <1>9, <1>10, ReaderStep DEF Good

(* The folders below a folder, all at once. *)
LEMMA FoldersFindKeeps ==
  ASSUME ReadInv, NEW v \in Reader, FoldersFind(v)
  PROVE  ReadInv'
<1> USE DEF ReadInv, ReadTyped
<1> DEFINE rows == Folders(level[v], for[v])
<1>1. /\ doing[v] = "find" /\ doing' = [doing EXCEPT ![v] = "done"]
      /\ shown' = [shown EXCEPT ![v] = @ \cup rows]
      /\ again' = [again EXCEPT ![v] = @ \cup (shown[v] \cap rows)]
      /\ stray' = [stray EXCEPT ![v] =
                     IF folder[v] = Root THEN {} ELSE rows \ Here(v)]
      /\ UNCHANGED <<downloadVars, for, folder, level, order, page,
                     always, joined, left, gone>>
  BY DEF FoldersFind, Shows, Here, witness
<1>2. rows \in SUBSET Node
  BY DEF Folders
<1>3. /\ ~gone[v] /\ folder[v] # Root => rows \subseteq Here(v)
      /\ ~gone[v] => always[v] \subseteq rows
  BY <1>1 DEF Good, LevelOK, AlwaysOK, Folders, Found, Here, Within
<1> HIDE DEF rows
<1>4. ReadTyped'
  BY <1>1, <1>2 DEF Doings
<1>5. \A r \in Reader \ {v} : Same(r)
  BY <1>1 DEF Same
<1>6. /\ Here(v)' = Here(v)
      /\ Own(folder[v], for[v])' = Own(folder[v], for[v])
  BY <1>1, HereStays
<1>7. StartOK(v)' /\ LevelOK(v)' /\ AlwaysOK(v)' /\ PagesOK(v)'
  BY <1>1, <1>6 DEF Good, StartOK, LevelOK, AlwaysOK, PagesOK, Paging
<1>8. again'[v] = {}
  BY <1>1 DEF Good, StartOK
<1>9. ClaimsOK(v)'
  BY <1>1, <1>3, <1>8 DEF ClaimsOK
<1> QED
  BY <1>1, <1>4, <1>5, <1>7, <1>9, ReaderStep DEF Good

-----------------------------------------------------------------------------
(* A step of another handler: a place rises only when an entry comes in,   *)
(* and falls only when one leaves.                                         *)
LEMMA BesideReader ==
  ASSUME ReadTyped, UNCHANGED reading, NEW v \in Reader, Good(v), doing[v] # "idle",
         always'[v] = always[v] \cap Here(v)',
         joined'[v] = (joined[v] \/ Here(v)' \ Here(v) # {}),
         left'[v] = (left[v] \/ Here(v) \ Here(v)' # {}),
         gone'[v] = (gone[v] \/ ~Own(folder[v], for[v])'),
         \A n \in Node : status[n] = "live" => isFolder'[n] = isFolder[n]
  PROVE  Good(v)'
<1>0. StartOK(v) /\ LevelOK(v) /\ AlwaysOK(v) /\ PagesOK(v) /\ ClaimsOK(v)
  BY DEF Good
<1>1. UNCHANGED <<doing, for, folder, level, order, page, shown, again, stray>>
  BY DEF reading
<1> DEFINE E == Here(v)
           F == Here(v)'
           o == order[v]
<1>2. E \in SUBSET Node /\ F \in SUBSET Node /\ o \in [Node -> Nat]
  BY DEF Here, Within, ReadTyped
<1>3. Covered(v)' = Covered(v) /\ Covered(v) \in Nat
  BY <1>1, OffsetIsNat DEF Covered, Offset, PageNumber, ReadTyped
<1>4. \A n \in F : Rank(n, Here(v), order[v])' = Rank(n, F, o) /\ Rank(n, F, o) \in Nat
  BY <1>1, <1>2, RankBounds DEF Rank
<1>5. \A n \in E : Rank(n, E, o) \in Nat
  BY <1>2, RankBounds
<1>6. ASSUME F \subseteq E, NEW n \in F PROVE Rank(n, F, o) <= Rank(n, E, o)
  BY <1>2, <1>6, RankGrows
<1>7. ASSUME E \subseteq F, NEW n \in E PROVE Rank(n, E, o) <= Rank(n, F, o)
  BY <1>2, <1>7, RankGrows
<1>8. StartOK(v)' /\ LevelOK(v)' /\ ClaimsOK(v)'
  BY <1>0, <1>1 DEF StartOK, LevelOK, ClaimsOK
<1>9. AlwaysOK(v)'
  <2>1. \A n \in always[v] : n \in Node /\ status[n] = "live"
    BY <1>0 DEF AlwaysOK, Here, Within
  <2> QED
    BY <1>0, <1>1, <2>1 DEF AlwaysOK
<1>10. PagesOK(v)'
  <2> HIDE DEF E, F, o
  <2> SUFFICES ASSUME doing[v] \in Paging, page[v] # 0 \/ doing[v] = "count"
               PROVE  /\ ~joined'[v] /\ ~gone'[v] =>
                           \A n \in shown[v] \cap F : Rank(n, F, o) <= Covered(v)
                      /\ ~left'[v] /\ ~gone'[v] =>
                           \A n \in always'[v] \ shown[v] : Rank(n, F, o) > Covered(v)
    BY <1>1, <1>3, <1>4 DEF PagesOK, F
  <2>1. ASSUME ~joined'[v], ~gone'[v], NEW n \in shown[v] \cap F
        PROVE  Rank(n, F, o) <= Covered(v)
    <3>1. F \subseteq E /\ ~joined[v] /\ ~gone[v]
      BY <2>1 DEF E, F
    <3>2. Rank(n, E, o) <= Covered(v)
      BY <1>0, <2>1, <3>1 DEF PagesOK, E, o
    <3> QED
      BY <1>3, <1>4, <1>5, <1>6, <2>1, <3>1, <3>2
  <2>2. ASSUME ~left'[v], ~gone'[v], NEW n \in always'[v] \ shown[v]
        PROVE  Rank(n, F, o) > Covered(v)
    <3>1. E \subseteq F /\ ~left[v] /\ ~gone[v]
      BY <2>2 DEF E, F
    <3>2. n \in always[v] /\ n \in E
      BY <1>0, <2>2 DEF AlwaysOK, Paging, E
    <3>3. Rank(n, E, o) > Covered(v)
      BY <1>0, <2>2, <3>1, <3>2 DEF PagesOK, E, o
    <3> QED
      BY <1>3, <1>4, <1>5, <1>7, <3>1, <3>2, <3>3
  <2> QED
    BY <2>1, <2>2
<1> QED
  BY <1>8, <1>9, <1>10 DEF Good

LEMMA BesideKeeps ==
  ASSUME ReadInv, Beside
  PROVE  ReadInv'
<1> USE DEF ReadInv
<1>1. DownloadNext /\ UNCHANGED reading
  BY DEF Beside
<1>2. /\ isFolder' \in [Node -> BOOLEAN]
      /\ \A n \in Node : status[n] = "live" => isFolder'[n] = isFolder[n]
  BY <1>1, FoldersStay
<1>3. ReadTyped'
  <2>1. always' \in [Reader -> SUBSET Node]
    BY DEF Beside, ReadTyped
  <2>2. /\ joined' \in [Reader -> BOOLEAN] /\ left' \in [Reader -> BOOLEAN]
        /\ gone' \in [Reader -> BOOLEAN]
    BY DEF Beside
  <2> QED
    BY <1>1, <2>1, <2>2 DEF ReadTyped, reading
<1>4. ASSUME NEW v \in Reader PROVE Good(v)'
  <2>1. CASE doing[v] = "idle"
    <3>1. /\ UNCHANGED <<doing, page, shown, again, stray>>
          /\ ~joined'[v] /\ ~left'[v]
      BY <1>1, <2>1 DEF Beside, reading
    <3> QED
      BY <2>1, <3>1 DEF Good, StartOK, LevelOK, AlwaysOK, PagesOK, Paging, ClaimsOK
  <2>2. CASE doing[v] # "idle"
    <3>1. /\ always'[v] = always[v] \cap Here(v)'
          /\ joined'[v] = (joined[v] \/ Here(v)' \ Here(v) # {})
          /\ left'[v] = (left[v] \/ Here(v) \ Here(v)' # {})
          /\ gone'[v] = (gone[v] \/ ~Own(folder[v], for[v])')
      BY <2>2 DEF Beside, Here
    <3> QED
      BY <1>1, <1>2, <2>2, <3>1, BesideReader
  <2> QED
    BY <2>1, <2>2
<1> QED
  BY <1>2, <1>3, <1>4

LEMMA InitReadInv == ListInit => ReadInv
<1> SUFFICES ASSUME ListInit PROVE ReadInv
  OBVIOUS
<1>1. isFolder \in [Node -> BOOLEAN]
  BY DEF ListInit, DownloadInit, Init
<1>2. ReadTyped
  BY DEF ListInit, ReadTyped, Doings, NoOrder
<1>3. ASSUME NEW v \in Reader PROVE Good(v)
  BY DEF ListInit, Good, StartOK, LevelOK, AlwaysOK, PagesOK, Paging, ClaimsOK
<1> QED
  BY <1>1, <1>2, <1>3 DEF ReadInv

LEMMA NextReadInv == ReadInv /\ [ListNext]_listVars => ReadInv'
<1> SUFFICES ASSUME ReadInv, [ListNext]_listVars PROVE ReadInv'
  OBVIOUS
<1>1. ASSUME NEW v \in Reader, Read(v) PROVE ReadInv'
  BY <1>1, BeginKeeps, LookupKeeps, SelectKeeps, CountKeeps, FoldersFindKeeps,
     EndsKeeps DEF Read
<1>2. CASE UNCHANGED listVars
  <2>1. UNCHANGED downloadVars /\ UNCHANGED isFolder
    BY <1>2 DEF listVars, downloadVars, vars, table, columns
  <2>2. \A v \in Reader : Same(v)
    BY <1>2 DEF listVars, reading, witness, Same
  <2>3. ReadTyped'
    BY <1>2 DEF ReadInv, ReadTyped, listVars, reading, witness
  <2> QED
    BY <2>1, <2>2, <2>3, ReaderStays DEF ReadInv
<1> QED
  BY <1>1, <1>2, BesideKeeps DEF ListNext

(* The strengthened invariant: ranks and pages fit together. *)
THEOREM ReadInvariance == ListSpec => []ReadInv
<1> QED
  BY InitReadInv, NextReadInv, PTL DEF ListSpec

(* A client that pages through a folder (user_file_list_logic.go) misses   *)
(* an entry only if another one left the folder meanwhile.                 *)
THEOREM NothingMissed == ListSpec => []SteadyEntriesListed
<1>1. ReadInv => SteadyEntriesListed
  BY DEF ReadInv, Good, ClaimsOK, SteadyEntriesListed
<1> QED
  BY <1>1, ReadInvariance, PTL

(* And sees one twice only if another one came in.                         *)
THEOREM NothingRepeated == ListSpec => []ListedTwiceForCause
<1>1. ReadInv => ListedTwiceForCause
  BY DEF ReadInv, Good, ClaimsOK, ListedTwiceForCause
<1> QED
  BY <1>1, ReadInvariance, PTL

(* What a listing (user_file_list_logic.go, user_folder_list_logic.go)     *)
(* shows lies in the folder as long as the folder is the user's own.       *)
THEOREM NothingStrange == ListSpec => []StrayForCause
<1>1. ReadInv => StrayForCause
  BY DEF ReadInv, Good, ClaimsOK, StrayForCause
<1> QED
  BY <1>1, ReadInvariance, PTL

-----------------------------------------------------------------------------
(* What readers hold are rows of the table, and ranks are positions in it. *)
ShownRows(v) == shown[v] \cup again[v] \cup stray[v] \cup always[v] \subseteq Used

OrderOK(v) == order[v] \in [Node -> 0..Cardinality(Node)]

TableInv == WalkInv /\ ReadTyped /\ \A v \in Reader : ShownRows(v) /\ OrderOK(v)

LEMMA NodesCount == Cardinality(Node) \in Nat
<1> QED
  BY RowsAssumption, FS_CardinalityType

LEMMA RowsAreUsed ==
  ASSUME NEW p, NEW u
  PROVE  Entries(p, u) \subseteq Used /\ Within(p, u) \subseteq Used /\ Folders(p, u) \subseteq Used
<1> QED
  BY DEF Entries, Within, Folders, Found, Used

LEMMA UsedGrows ==
  ASSUME WalkInv, DownloadNext
  PROVE  Used \subseteq Used'
<1>1. ASSUME NEW w \in Walk, AskWalk(w) \/ WalkStep(w) PROVE Used' = Used
  <2>1. status' = status
    BY <1>1 DEF AskWalk, WalkStep, WalkGet, WalkFind, WalkLoop, WalkReply, WalkFails,
       WalkPack, WalkZip, Overflow, vars, table, columns
  <2> QED
    BY <2>1 DEF Used
<1>2. CASE TreeStep
  BY <1>2, RowsLastStep DEF TreeStep, WalkInv, RowsLast
<1> QED
  BY <1>1, <1>2 DEF DownloadNext

LEMMA TableBeside ==
  ASSUME TableInv, Beside, NEW v \in Reader
  PROVE  ShownRows(v)' /\ OrderOK(v)'
<1>1. Used \subseteq Used'
  BY UsedGrows DEF TableInv, Beside
<1>2. UNCHANGED reading /\ always'[v] \subseteq always[v]
  BY DEF Beside
<1> QED
  BY <1>1, <1>2 DEF TableInv, ShownRows, OrderOK, reading

LEMMA TableRead ==
  ASSUME TableInv, NEW v \in Reader, Read(v), NEW r \in Reader
  PROVE  ShownRows(r)' /\ OrderOK(r)'
<1> USE DEF TableInv, ReadTyped
<1>1. UNCHANGED downloadVars
  BY DEF Read, AskList, AskFolders, Begin, ListGetId, ListSelect, ListCount,
     FoldersGetParent, FoldersFind, ListEnds
<1>2. Used' = Used
  BY <1>1 DEF downloadVars, vars, table, columns, Used
<1>3. OrderOK(r)'
  <2>1. CASE ListEnds(v)
    <3>1. NoOrder \in [Node -> 0..Cardinality(Node)]
      BY NodesCount DEF NoOrder
    <3>2. order' = [order EXCEPT ![v] = NoOrder]
      BY <2>1 DEF ListEnds, Finish
    <3> QED
      BY <3>1, <3>2 DEF OrderOK
  <2>2. CASE ListSelect(v)
    <3>1. PICK o \in RowOrders(v) : order' = [order EXCEPT ![v] = o]
      BY <2>2 DEF ListSelect
    <3>2. o \in [Node -> 0..Cardinality(Node)]
      <4>1. CASE o \in Orders
        BY <4>1, NodesCount DEF Orders
      <4> QED
        BY <4>1 DEF RowOrders, OrderOK
    <3> QED
      BY <3>1, <3>2 DEF OrderOK
  <2>3. CASE ~ListEnds(v) /\ ~ListSelect(v)
    <3>1. order' = order
      BY <2>3 DEF Read, AskList, AskFolders, Begin, ListGetId, ListCount,
         FoldersGetParent, FoldersFind
    <3> QED
      BY <3>1 DEF OrderOK
  <2> QED
    BY <2>1, <2>2, <2>3
<1>4. ShownRows(r)'
  <2> USE DEF ShownRows
  <2>1. CASE AskList(v) \/ AskFolders(v)
    <3>1. PICK expected \in SUBSET Used :
            always' = [always EXCEPT ![v] = expected] /\ UNCHANGED <<shown, again, stray>>
      BY <2>1, RowsAreUsed DEF AskList, AskFolders, Begin
    <3> QED
      BY <1>2, <3>1
  <2>2. CASE ListEnds(v)
    BY <1>2, <2>2 DEF ListEnds, Finish
  <2>3. CASE ListSelect(v) \/ FoldersFind(v)
    <3>1. PICK rows \in SUBSET Used, strange \in SUBSET Used :
            Shows(v, rows) /\ stray' = [stray EXCEPT ![v] = strange] /\ UNCHANGED always
      <4>1. CASE ListSelect(v)
        <5>1. PICK o \in RowOrders(v) :
                LET E == Entries(level[v], for[v])
                    rows == {n \in E : Rank(n, E, o) \in Offset(v) + 1..Offset(v) + PageSize}
                IN  /\ Shows(v, rows)
                    /\ stray' = [stray EXCEPT ![v] = @ \cup (rows \ Within(folder[v], for[v]))]
          BY <4>1 DEF ListSelect
        <5> DEFINE rows == {n \in Entries(level[v], for[v]) :
                     Rank(n, Entries(level[v], for[v]), o)
                       \in Offset(v) + 1..Offset(v) + PageSize}
                   strange == stray[v] \cup (rows \ Within(folder[v], for[v]))
        <5>2. rows \in SUBSET Used
          BY RowsAreUsed
        <5>3. strange \in SUBSET Used
          BY <5>2
        <5>4. Shows(v, rows) /\ stray' = [stray EXCEPT ![v] = strange] /\ UNCHANGED always
          BY <4>1, <5>1 DEF ListSelect, witness
        <5> HIDE DEF rows, strange
        <5> QED
          BY <5>2, <5>3, <5>4
      <4>2. CASE FoldersFind(v)
        <5> DEFINE rows == Folders(level[v], for[v])
                   strange == IF folder[v] = Root THEN {} ELSE rows \ Within(folder[v], for[v])
        <5>1. rows \in SUBSET Used
          BY RowsAreUsed
        <5>2. strange \in SUBSET Used
          BY <5>1
        <5>3. Shows(v, rows) /\ stray' = [stray EXCEPT ![v] = strange] /\ UNCHANGED always
          BY <4>2 DEF FoldersFind, witness
        <5> HIDE DEF rows, strange
        <5> QED
          BY <5>1, <5>2, <5>3
      <4> QED
        BY <2>3, <4>1, <4>2
    <3> QED
      BY <1>2, <3>1 DEF Shows
  <2>4. CASE ListGetId(v) \/ ListCount(v) \/ FoldersGetParent(v)
    <3>1. UNCHANGED <<shown, again, stray, always>>
      BY <2>4 DEF ListGetId, ListCount, FoldersGetParent, witness
    <3> QED
      BY <1>2, <3>1
  <2> QED
    BY <2>1, <2>2, <2>3, <2>4 DEF Read
<1> QED
  BY <1>3, <1>4

LEMMA InitTableInv == ListInit => TableInv
<1> SUFFICES ASSUME ListInit PROVE TableInv
  OBVIOUS
<1>1. WalkInv /\ ReadTyped
  BY InitWalkInv, InitReadInv DEF ListInit, ReadInv
<1>2. NoOrder \in [Node -> 0..Cardinality(Node)]
  BY NodesCount DEF NoOrder
<1> QED
  BY <1>1, <1>2 DEF ListInit, TableInv, ShownRows, OrderOK

(* A listing writes nothing. *)
LEMMA ReadersStep == [ListNext]_listVars => [DownloadNext]_downloadVars
<1> QED
  BY DEF ListNext, Beside, Read, AskList, AskFolders, Begin, ListGetId, ListSelect,
     ListCount, FoldersGetParent, FoldersFind, ListEnds, listVars

LEMMA NextTableInv == TableInv /\ ReadInv' /\ [ListNext]_listVars => TableInv'
<1> SUFFICES ASSUME TableInv, ReadInv', [ListNext]_listVars PROVE TableInv'
  OBVIOUS
<1>1. [DownloadNext]_downloadVars
  BY ReadersStep
<1>2. WalkInv' /\ ReadTyped'
  BY <1>1, NextWalkInv DEF TableInv, ReadInv
<1>3. ASSUME NEW v \in Reader PROVE ShownRows(v)' /\ OrderOK(v)'
  <2>1. CASE UNCHANGED listVars
    BY <2>1 DEF TableInv, ShownRows, OrderOK, listVars, reading, witness, downloadVars,
       vars, table, columns, Used
  <2> QED
    BY <2>1, TableBeside, TableRead DEF ListNext
<1> QED
  BY <1>2, <1>3 DEF TableInv

(* The type invariant: what walks and listings hold are rows of the table. *)
THEOREM ListTypeCorrect == ListSpec => []ListTypeOK
<1>1. TableInv => ListTypeOK
  BY WalksTyped DEF TableInv, ReadTyped, ShownRows, OrderOK, ListTypeOK
<1> QED
  BY <1>1, InitTableInv, NextTableInv, ReadInvariance, PTL DEF ListSpec

(* Listings (user_file_list_logic.go, user_folder_list_logic.go) are seen  *)
(* by nobody: what walks and the other handlers do beside readers they do  *)
(* without them, so all that FolderDownloadProofs shows holds here too.    *)
THEOREM ReadersOnlyRead == ListSpec => DownloadSpec
<1>1. ListInit => DownloadInit
  BY DEF ListInit
<1> QED
  BY <1>1, ReadersStep, PTL DEF ListSpec, DownloadSpec

(* What the archive of a folder (file_download_logic.go) has in it holds   *)
(* beside any number of listings.                                          *)
THEOREM WalksBesideReaders ==
  ListSpec => [](SteadyFilesFound /\ FoundOnce /\ OverflowForCause)
<1> QED
  BY ReadersOnlyRead, SteadyFilesAreFound, FilesFoundOnce, OverflowHasCause, PTL
=============================================================================
