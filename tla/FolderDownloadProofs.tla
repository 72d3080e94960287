------------------------ MODULE FolderDownloadProofs ------------------------
(***************************************************************************)
(* Proofs about FolderDownload, for any tree, any number of walks and      *)
(* requests and any depth of the stack: what a walk copied out of the      *)
(* table stays good, and is the walker's own; and the trees keep their     *)
(* invariants although an overflow may end every handler at any point.     *)
(***************************************************************************)
EXTENDS FolderDownload, UserRepositoryProofs, SequenceTheorems, FiniteSetTheorems

Mine(u) == {n \in Used : owner[n] = u}

(* What a walk has copied: its user's entries, and of them files. *)
WalkOK(w) ==
  /\ phase[w] = "idle" => stack[w] = <<>> /\ found[w] = {} /\ steady[w] = {}
  /\ phase[w] # "idle" => walker[w] \in User /\ dir[w] \in Used
  /\ phase[w] = "zip" => stack[w] = <<>>
  /\ \A i \in 1..Len(stack[w]) : stack[w][i] \subseteq Mine(walker[w])
  /\ found[w] \subseteq {n \in Mine(walker[w]) : ~isFolder[n]}
  /\ unpacked[w] \cup archive[w] \subseteq found[w]
  /\ steady[w] \cup missed[w] \subseteq {n \in Used : ~isFolder[n]}

WalkTyped ==
  /\ phase \in [Walk -> Phases]
  /\ walker \in [Walk -> User \cup {None}]
  /\ top \in [Walk -> Node \cup {None}]
  /\ dir \in [Walk -> Node \cup {None}]
  /\ stack \in [Walk -> Seq(SUBSET Node)]
  /\ \A w \in Walk : Len(stack[w]) <= MaxDepth
  /\ found \in [Walk -> SUBSET Node]
  /\ unpacked \in [Walk -> SUBSET Node]
  /\ archive \in [Walk -> SUBSET Node]
  /\ missed \in [Walk -> SUBSET Node]
  /\ steady \in [Walk -> SUBSET Node]
  /\ twice \in [Walk -> BOOLEAN]
  /\ tangled \in [Walk -> BOOLEAN]

WalkInv == IInv /\ WalkTyped /\ \A w \in Walk : WalkOK(w)

(* No file of another user gets into the archive of a folder               *)
(* (file_download_logic.go), whatever identities the client sends and      *)
(* however the tree changes around the walk.                               *)
OwnFilesFound == \A w \in Walk : archive[w] \subseteq {n \in Used : owner[n] = walker[w]}

-----------------------------------------------------------------------------
(* Rows are never taken out of the table, and neither their owner nor      *)
(* whether they are folders ever changes.                                  *)
RowsLast == \A n \in Used : /\ n \in Used' /\ owner'[n] = owner[n]
                            /\ isFolder'[n] = isFolder[n]

LEMMA RowsLastStep ==
  ASSUME IInv, Next
  PROVE  RowsLast
<1> USE DEF IInv, TypeOK, RowsLast
<1>1. CASE UNCHANGED <<status, owner, isFolder>>
  BY <1>1 DEF Used
<1>2. ASSUME NEW n \in Free, NEW u, NEW f,
             status' = [status EXCEPT ![n] = "live"],
             owner' = [owner EXCEPT ![n] = u],
             isFolder' = [isFolder EXCEPT ![n] = f]
      PROVE  RowsLast
  BY <1>2 DEF Free, Used
<1>3. ASSUME NEW r \in Request, Arrive(r) \/ Fail(r) PROVE RowsLast
  BY <1>1, <1>3 DEF Arrive, AskCreate, AskRename, AskMove, Ask, Fail, Drop, table, columns
<1>4. ASSUME NEW r \in Request, Serve(r) PROVE RowsLast
  <2>1. CASE CreateInsert(r)
    BY <1>2, <2>1 DEF CreateInsert, Insert
  <2>2. CASE ~CreateInsert(r)
    BY <1>1, <1>4, <2>2 DEF Serve, CreateCount, RenameCount, RenameUpdate,
       MoveGetFile, MoveGetParent, MoveUpdate, Drop, table, columns
  <2> QED
    BY <2>1, <2>2
<1>5. CASE Save
  <2>1. PICK n \in Free : \E u \in User : /\ status' = [status EXCEPT ![n] = "live"]
                                          /\ owner' = [owner EXCEPT ![n] = u]
                                          /\ isFolder' = [isFolder EXCEPT ![n] = FALSE]
    BY <1>5 DEF Save, Insert
  <2> QED
    BY <1>2, <2>1
<1>6. CASE Delete
  <2>1. UNCHANGED <<owner, isFolder>> /\ Used' = Used
    BY <1>6 DEF Delete, columns, Used, Found
  <2> QED
    BY <2>1
<1> QED
  BY <1>3, <1>4, <1>5, <1>6 DEF Next

(* A walk beside which others take steps. *)
SameWalk(w) ==
  /\ phase'[w] = phase[w] /\ walker'[w] = walker[w] /\ dir'[w] = dir[w]
  /\ stack'[w] = stack[w] /\ found'[w] = found[w]
  /\ unpacked'[w] = unpacked[w] /\ archive'[w] = archive[w] /\ missed'[w] = missed[w]

LEMMA WalkStays ==
  ASSUME RowsLast, NEW w \in Walk, SameWalk(w), WalkOK(w), steady'[w] \subseteq steady[w]
  PROVE  WalkOK(w)'
<1> USE DEF RowsLast, SameWalk, WalkOK
<1>1. \A n \in Mine(walker[w]) : n \in Mine(walker[w])'
  BY DEF Mine
<1>2. \A i \in 1..Len(stack[w]) : stack'[w][i] \subseteq Mine(walker[w])'
  BY <1>1
<1>3. found'[w] \subseteq {n \in Mine(walker[w])' : ~isFolder'[n]}
  BY <1>1 DEF Mine
<1>4. steady'[w] \cup missed'[w] \subseteq {n \in Used' : ~isFolder'[n]}
  OBVIOUS
<1> QED
  BY <1>2, <1>3, <1>4

LEMMA TreeStepKeeps ==
  ASSUME WalkInv, TreeStep
  PROVE  WalkInv'
<1> USE DEF WalkInv
<1>1. IInv' /\ RowsLast
  BY NextIInv, RowsLastStep DEF TreeStep
<1>2. UNCHANGED <<phase, walker, top, dir, stack, found, twice, unpacked, archive, missed>>
  BY DEF TreeStep, walkState
<1>3. \A w \in Walk : steady'[w] \subseteq steady[w]
  BY DEF TreeStep
<1>4. WalkTyped'
  <2>1. tangled' \in [Walk -> BOOLEAN]
    BY DEF TreeStep
  <2>2. steady' \in [Walk -> SUBSET Node]
    BY <1>3 DEF TreeStep, WalkTyped
  <2> QED
    BY <1>2, <2>1, <2>2 DEF WalkTyped
<1>5. ASSUME NEW w \in Walk PROVE WalkOK(w)'
  BY <1>1, <1>2, <1>3, WalkStays DEF SameWalk
<1> QED
  BY <1>1, <1>4, <1>5

(* A step of one walk with the tree and the other walks untouched. *)
LEMMA OneWalk ==
  ASSUME WalkInv, UNCHANGED vars, NEW w \in Walk,
         \A v \in Walk \ {w} : SameWalk(v) /\ steady'[v] = steady[v],
         WalkTyped', WalkOK(w)'
  PROVE  WalkInv'
<1> USE DEF WalkInv
<1>1. IInv'
  BY NextIInv
<1>2. RowsLast
  BY DEF RowsLast, vars, table, columns, Used
<1>3. ASSUME NEW v \in Walk \ {w} PROVE WalkOK(v)'
  BY <1>2, WalkStays
<1> QED
  BY <1>1, <1>3

LEMMA AskWalkKeeps ==
  ASSUME WalkInv, NEW w \in Walk, AskWalk(w)
  PROVE  WalkInv'
<1> USE DEF WalkInv, WalkTyped
<1>1. PICK u \in User, n \in Used :
        /\ phase[w] = "idle"
        /\ phase' = [phase EXCEPT ![w] = "get"]
        /\ walker' = [walker EXCEPT ![w] = u]
        /\ top' = [top EXCEPT ![w] = n]
        /\ dir' = [dir EXCEPT ![w] = n]
        /\ tangled' = [tangled EXCEPT ![w] = n \in Below(n, u)]
        /\ steady' = [steady EXCEPT ![w] = FilesBelow(n, u)]
        /\ UNCHANGED <<vars, stack, found, twice, unpacked, archive, missed>>
  BY DEF AskWalk
<1>2. Used \in SUBSET Node /\ FilesBelow(n, u) \subseteq {m \in Used : ~isFolder[m]}
  BY DEF Used, FilesBelow
<1>3. WalkTyped'
  <2>1. steady' \in [Walk -> SUBSET Node]
    BY <1>1, <1>2
  <2> QED
    BY <1>1, <1>2, <2>1 DEF Phases
<1>4. \A v \in Walk \ {w} : SameWalk(v) /\ steady'[v] = steady[v]
  BY <1>1 DEF SameWalk
<1>5. UNCHANGED <<status, owner, isFolder>>
  BY <1>1 DEF vars, table, columns
<1>6. WalkOK(w)'
  <2>1. /\ stack'[w] = <<>> /\ found'[w] = {} /\ steady'[w] = FilesBelow(n, u)
        /\ phase'[w] = "get" /\ UNCHANGED <<unpacked, archive, missed>>
    BY <1>1 DEF WalkOK
  <2> QED
    BY <1>1, <1>2, <1>5, <2>1 DEF WalkOK, Mine, Used
<1> QED
  BY <1>1, <1>3, <1>4, <1>6, OneWalk

LEMMA WalkReturnKeeps ==
  ASSUME WalkInv, NEW w \in Walk, WalkReturn(w), UNCHANGED vars
  PROVE  WalkInv'
<1> USE DEF WalkInv, WalkTyped, WalkReturn
<1>1. WalkTyped'
  BY DepthAssumption DEF Phases
<1>2. \A v \in Walk \ {w} : SameWalk(v) /\ steady'[v] = steady[v]
  BY DEF SameWalk
<1>3. WalkOK(w)'
  <2>1. /\ phase'[w] = "idle" /\ stack'[w] = <<>> /\ found'[w] = {} /\ steady'[w] = {}
        /\ unpacked'[w] = {} /\ archive'[w] = {} /\ missed'[w] = {}
    OBVIOUS
  <2>2. Len(stack'[w]) = 0
    BY <2>1
  <2> QED
    BY <2>1, <2>2 DEF WalkOK
<1> QED
  BY <1>1, <1>2, <1>3, OneWalk

(* A step of a walk that goes on collecting: its frames and its files are  *)
(* its user's.                                                             *)
LEMMA WalkMoves ==
  ASSUME WalkInv, UNCHANGED vars, NEW w \in Walk, phase[w] # "idle",
         UNCHANGED <<walker, top, unpacked, archive, history>>,
         NEW p \in {"get", "find", "loop"}, phase' = [phase EXCEPT ![w] = p],
         NEW d \in Used, dir' = [dir EXCEPT ![w] = d],
         NEW frames \in Seq(SUBSET Mine(walker[w])), Len(frames) <= MaxDepth,
         stack' = [stack EXCEPT ![w] = frames],
         NEW files \in SUBSET {n \in Mine(walker[w]) : ~isFolder[n]}, found[w] \subseteq files,
         found' = [found EXCEPT ![w] = files],
         NEW lost \in SUBSET {n \in Used : ~isFolder[n]},
         missed' = [missed EXCEPT ![w] = lost],
         twice' \in [Walk -> BOOLEAN]
  PROVE  WalkInv'
<1> USE DEF WalkInv, WalkTyped, history
<1>1. UNCHANGED <<status, owner, isFolder>>
  BY DEF vars, table, columns
<1>2. Used \subseteq Node /\ Mine(walker[w]) \subseteq Node
  BY DEF Used, Mine
<1>3. frames \in Seq(SUBSET Node)
  <2>1. SUBSET Mine(walker[w]) \subseteq SUBSET Node
    BY <1>2
  <2> QED
    BY <2>1
<1>4. WalkTyped'
  <2>1. /\ found' \in [Walk -> SUBSET Node] /\ dir' \in [Walk -> Node \cup {None}]
        /\ missed' \in [Walk -> SUBSET Node]
    BY <1>2
  <2>2. stack' \in [Walk -> Seq(SUBSET Node)] /\ \A v \in Walk : Len(stack'[v]) <= MaxDepth
    BY <1>3
  <2> QED
    BY <2>1, <2>2 DEF Phases
<1>5. \A v \in Walk \ {w} : SameWalk(v) /\ steady'[v] = steady[v]
  BY DEF SameWalk
<1>6. WalkOK(w)'
  <2>1. Mine(walker[w])' = Mine(walker[w]) /\ Used' = Used
    BY <1>1 DEF Mine, Used
  <2>2. /\ phase'[w] = p /\ dir'[w] = d /\ stack'[w] = frames /\ found'[w] = files
        /\ walker[w] \in User /\ missed'[w] = lost
    BY DEF WalkOK
  <2>3. \A i \in 1..Len(frames) : frames[i] \subseteq Mine(walker[w])
    OBVIOUS
  <2> QED
    BY <1>1, <2>1, <2>2, <2>3 DEF WalkOK
<1> QED
  BY <1>4, <1>5, <1>6, OneWalk

(* The frames of a walk as a sequence, and what the steps make of it. *)
LEMMA FramesType ==
  ASSUME WalkInv, NEW w \in Walk
  PROVE  /\ stack[w] \in Seq(SUBSET Mine(walker[w]))
         /\ Len(stack[w]) \in Nat /\ Len(stack[w]) <= MaxDepth
         /\ found[w] \in SUBSET {n \in Mine(walker[w]) : ~isFolder[n]}
         /\ missed[w] \in SUBSET {n \in Used : ~isFolder[n]}
         /\ phase[w] # "idle" => walker[w] \in User /\ dir[w] \in Used
<1>1. stack[w] \in Seq(SUBSET Node) /\ Len(stack[w]) <= MaxDepth
  BY DEF WalkInv, WalkTyped
<1>2. \A i \in 1..Len(stack[w]) : stack[w][i] \in SUBSET Mine(walker[w])
  BY DEF WalkInv, WalkOK
<1>3. stack[w] \in Seq(SUBSET Mine(walker[w]))
  BY <1>1, <1>2
<1> QED
  BY <1>1, <1>3 DEF WalkInv, WalkOK

LEMMA FrontLastType ==
  ASSUME NEW S, NEW s \in Seq(S), s # <<>>
  PROVE  /\ Front(s) \in Seq(S) /\ Len(Front(s)) < Len(s) /\ Last(s) \in S
         /\ Len(Front(s)) + 1 = Len(s)
<1>1. Len(s) \in Nat \ {0}
  OBVIOUS
<1>2. Front(s) \in Seq(S) /\ Len(Front(s)) = Len(s) - 1
  <2> DEFINE m == Len(s) - 1
  <2>1. m \in Nat /\ \A i \in 1..m : s[i] \in S
    BY <1>1
  <2>2. Front(s) = SubSeq(s, 1, m)
    BY Zenon DEF Front
  <2> HIDE DEF m
  <2>3. /\ SubSeq(s, 1, m) \in Seq(S)
        /\ Len(SubSeq(s, 1, m)) = IF 1 <= m THEN m - 1 + 1 ELSE 0
    BY <2>1, SubSeqProperties
  <2>4. (IF 1 <= m THEN m - 1 + 1 ELSE 0) = m
    BY <2>1
  <2>5. Front(s) \in Seq(S) /\ Len(Front(s)) = m
    BY <2>2, <2>3, <2>4, Zenon
  <2> QED
    BY <2>5 DEF m
<1>3. Last(s) \in S
  BY <1>1 DEF Last
<1> QED
  BY <1>1, <1>2, <1>3

-----------------------------------------------------------------------------
(* A call of the recursion that ends early, by a missing row or a failed   *)
(* query.                                                                  *)
LEMMA GivesKeeps ==
  ASSUME WalkInv, NEW w \in Walk, NEW lost \in SUBSET {n \in Used : ~isFolder[n]},
         phase[w] \in {"get", "find"}, Gives(w, lost), UNCHANGED vars
  PROVE  WalkInv'
<1>1. CASE WalkReturn(w)
  BY <1>1, WalkReturnKeeps
<1>2. CASE CallReturns(w) /\ missed' = [missed EXCEPT ![w] = @ \cup lost]
           /\ UNCHANGED <<walker, top, dir, found, twice, unpacked, archive, history>>
  <2>1. /\ phase' = [phase EXCEPT ![w] = "loop"] /\ dir' = [dir EXCEPT ![w] = dir[w]]
        /\ stack' = [stack EXCEPT ![w] = stack[w]]
        /\ found' = [found EXCEPT ![w] = found[w]]
        /\ missed' = [missed EXCEPT ![w] = missed[w] \cup lost]
        /\ twice' \in [Walk -> BOOLEAN]
    BY <1>2 DEF CallReturns, WalkInv, WalkTyped
  <2>2. missed[w] \cup lost \in SUBSET {n \in Used : ~isFolder[n]}
    BY FramesType
  <2> QED
    BY <1>2, <2>1, <2>2, FramesType, WalkMoves
<1> QED
  BY <1>1, <1>2 DEF Gives

LEMMA WalkGetKeeps ==
  ASSUME WalkInv, NEW w \in Walk, WalkGet(w)
  PROVE  WalkInv'
<1>1. CASE ~Found(dir[w], walker[w]) /\ Gives(w, {})
  BY <1>1, GivesKeeps DEF WalkGet
<1>2. CASE Found(dir[w], walker[w])
  <2>1. /\ UNCHANGED <<vars, walker, top, unpacked, archive, history>> /\ phase[w] = "get"
        /\ phase' = [phase EXCEPT ![w] = "find"] /\ dir' = [dir EXCEPT ![w] = dir[w]]
        /\ stack' = [stack EXCEPT ![w] = stack[w]]
        /\ found' = [found EXCEPT ![w] = found[w]]
        /\ missed' = [missed EXCEPT ![w] = missed[w]]
        /\ twice' \in [Walk -> BOOLEAN]
    BY <1>2 DEF WalkGet, WalkInv, WalkTyped
  <2> QED
    BY <2>1, FramesType, WalkMoves
<1> QED
  BY <1>1, <1>2 DEF WalkGet

(* The frame of a folder holds entries of its user, as the query says.     *)
LEMMA WalkFindKeeps ==
  ASSUME WalkInv, NEW w \in Walk, WalkFind(w)
  PROVE  WalkInv'
<1> DEFINE rows == Children(dir[w], walker[w])
           frames == Append(stack[w], rows)
<1>1. rows \in SUBSET Mine(walker[w])
  BY DEF Children, Mine, Found, Used
<1> HIDE DEF rows
<1>2. frames \in Seq(SUBSET Mine(walker[w])) /\ Len(frames) <= MaxDepth
  <2>1. stack[w] \in Seq(SUBSET Mine(walker[w]))
    BY FramesType
  <2>2. Len(frames) = Len(stack[w]) + 1 /\ Len(stack[w]) \in Nat
    BY <2>1
  <2>3. frames \in Seq(SUBSET Mine(walker[w]))
    BY <1>1, <2>1
  <2> HIDE DEF frames
  <2> QED
    BY <2>2, <2>3, DepthAssumption DEF WalkFind
<1>3. /\ UNCHANGED <<vars, walker, top, unpacked, archive, history>> /\ phase[w] = "find"
      /\ phase' = [phase EXCEPT ![w] = "loop"] /\ dir' = [dir EXCEPT ![w] = dir[w]]
      /\ stack' = [stack EXCEPT ![w] = frames]
      /\ found' = [found EXCEPT ![w] = found[w]]
      /\ missed' = [missed EXCEPT ![w] = missed[w]]
      /\ twice' \in [Walk -> BOOLEAN]
  BY DEF WalkFind, WalkInv, WalkTyped, rows
<1> HIDE DEF frames
<1> QED
  BY <1>2, <1>3, FramesType, WalkMoves

(* A turn of the loop. *)
LEMMA WalkChildKeeps ==
  ASSUME WalkInv, NEW w \in Walk, phase[w] = "loop", stack[w] # <<>>,
         WalkChild(w), UNCHANGED <<vars, unpacked, archive, history>>
  PROVE  WalkInv'
<1>0. /\ stack[w] \in Seq(SUBSET Mine(walker[w])) /\ Len(stack[w]) <= MaxDepth
      /\ found[w] \in SUBSET {n \in Mine(walker[w]) : ~isFolder[n]}
      /\ missed[w] \in SUBSET {n \in Used : ~isFolder[n]} /\ dir[w] \in Used
  BY FramesType
<1>1. PICK n \in Innermost(w) :
        /\ TakeChild(w, n)
        /\ \/ /\ Recurses(n)
              /\ phase' = [phase EXCEPT ![w] = "get"]
              /\ dir' = [dir EXCEPT ![w] = n]
              /\ UNCHANGED <<found, twice, missed>>
           \/ /\ ~Recurses(n)
              /\ found' = [found EXCEPT ![w] = @ \cup {n}]
              /\ twice' = [twice EXCEPT ![w] = @ \/ n \in found[w]]
              /\ UNCHANGED <<phase, dir, missed>>
           \/ /\ ~Recurses(n)
              /\ missed' = [missed EXCEPT ![w] = @ \cup {n}]
              /\ UNCHANGED <<phase, dir, found, twice>>
        /\ UNCHANGED <<walker, top>>
  BY DEF WalkChild
<1> DEFINE rest == Innermost(w) \ {n}
           frames == Append(Front(stack[w]), rest)
<1>2. n \in Mine(walker[w]) /\ rest \in SUBSET Mine(walker[w])
  <2>1. Last(stack[w]) \in SUBSET Mine(walker[w])
    BY <1>0, FrontLastType, Zenon
  <2> QED
    BY <2>1 DEF Innermost
<1>3. frames \in Seq(SUBSET Mine(walker[w])) /\ Len(frames) <= MaxDepth
  <2> HIDE DEF rest
  <2>1. /\ Front(stack[w]) \in Seq(SUBSET Mine(walker[w]))
        /\ Len(Front(stack[w])) + 1 = Len(stack[w])
    BY <1>0, FrontLastType, Zenon
  <2> QED
    BY <1>0, <1>2, <2>1
<1>4. stack' = [stack EXCEPT ![w] = frames]
  BY <1>1 DEF TakeChild
<1> HIDE DEF frames, rest
<1>5. n \in Used
  BY <1>2 DEF Mine
<1>6. twice \in [Walk -> BOOLEAN] /\ missed \in [Walk -> SUBSET Node]
      /\ phase \in [Walk -> Phases] /\ dir \in [Walk -> Node \cup {None}]
      /\ found \in [Walk -> SUBSET Node]
  BY DEF WalkInv, WalkTyped
<1>8. CASE Recurses(n)
  <2>1. /\ phase' = [phase EXCEPT ![w] = "get"] /\ dir' = [dir EXCEPT ![w] = n]
        /\ found' = [found EXCEPT ![w] = found[w]]
        /\ missed' = [missed EXCEPT ![w] = missed[w]]
        /\ twice' \in [Walk -> BOOLEAN]
    BY <1>1, <1>6, <1>8
  <2> QED
    BY <1>0, <1>1, <1>3, <1>4, <1>5, <2>1, WalkMoves
<1>9. CASE ~Recurses(n)
  <2>1. PICK files \in {found[w], found[w] \cup {n}}, lost \in {missed[w], missed[w] \cup {n}} :
          /\ found' = [found EXCEPT ![w] = files]
          /\ missed' = [missed EXCEPT ![w] = lost]
          /\ phase' = [phase EXCEPT ![w] = "loop"] /\ dir' = [dir EXCEPT ![w] = dir[w]]
    BY <1>1, <1>6, <1>9
  <2>2. /\ files \in SUBSET {m \in Mine(walker[w]) : ~isFolder[m]} /\ found[w] \subseteq files
        /\ lost \in SUBSET {m \in Used : ~isFolder[m]}
    BY <1>0, <1>2, <1>5, <1>9 DEF Recurses
  <2>3. twice' \in [Walk -> BOOLEAN]
    BY <1>1, <1>6, <1>9
  <2> QED
    BY <1>0, <1>1, <1>3, <1>4, <2>1, <2>2, <2>3, WalkMoves
<1> QED
  BY <1>8, <1>9

LEMMA WalkUpKeeps ==
  ASSUME WalkInv, NEW w \in Walk, phase[w] = "loop", stack[w] # <<>>,
         WalkUp(w), UNCHANGED <<vars, unpacked, archive, history>>
  PROVE  WalkInv'
<1> DEFINE frames == Front(stack[w])
<1>1. frames \in Seq(SUBSET Mine(walker[w])) /\ Len(frames) <= MaxDepth
  <2>1. stack[w] \in Seq(SUBSET Mine(walker[w])) /\ Len(stack[w]) <= MaxDepth
    BY FramesType
  <2>2. frames \in Seq(SUBSET Mine(walker[w])) /\ Len(frames) + 1 = Len(stack[w])
    BY <2>1, FrontLastType, Zenon
  <2>3. Len(frames) \in Nat
    BY <2>2
  <2> HIDE DEF frames
  <2> QED
    BY <2>1, <2>2, <2>3, DepthAssumption
<1>2. /\ UNCHANGED <<vars, walker, top, unpacked, archive, history>>
      /\ phase' = [phase EXCEPT ![w] = "loop"] /\ dir' = [dir EXCEPT ![w] = dir[w]]
      /\ stack' = [stack EXCEPT ![w] = frames]
      /\ found' = [found EXCEPT ![w] = found[w]]
      /\ missed' = [missed EXCEPT ![w] = missed[w]]
      /\ twice' \in [Walk -> BOOLEAN]
  BY DEF WalkUp, WalkInv, WalkTyped
<1> HIDE DEF frames
<1> QED
  BY <1>1, <1>2, FramesType, WalkMoves

(* The zip is begun, and written. *)
LEMMA WalkPackKeeps ==
  ASSUME WalkInv, NEW w \in Walk, WalkPack(w)
  PROVE  WalkInv'
<1>1. CASE WalkReturn(w)
  BY <1>1, WalkReturnKeeps DEF WalkPack
<1>2. CASE ~WalkReturn(w)
  <2> USE DEF WalkInv, WalkTyped, WalkOK, history
  <2>1. /\ UNCHANGED vars /\ phase[w] = "loop" /\ stack[w] = <<>>
        /\ phase' = [phase EXCEPT ![w] = "zip"]
        /\ unpacked' = [unpacked EXCEPT ![w] = found[w]]
        /\ UNCHANGED <<walker, top, dir, stack, found, twice, archive, missed, tangled, steady>>
    BY <1>2 DEF WalkPack
  <2>2. WalkTyped'
    BY <2>1 DEF Phases
  <2>3. \A v \in Walk \ {w} : SameWalk(v) /\ steady'[v] = steady[v]
    BY <2>1 DEF SameWalk
  <2>4. WalkOK(w)'
    <3>1. Mine(walker[w])' = Mine(walker[w]) /\ Used' = Used /\ UNCHANGED isFolder
      BY <2>1 DEF Mine, Used, vars, table, columns
    <3>2. phase'[w] = "zip" /\ unpacked'[w] = found[w]
      BY <2>1
    <3> QED
      BY <2>1, <3>1, <3>2
  <2> QED
    BY <2>1, <2>2, <2>3, <2>4, OneWalk
<1> QED
  BY <1>1, <1>2

LEMMA WalkZipKeeps ==
  ASSUME WalkInv, NEW w \in Walk, WalkZip(w)
  PROVE  WalkInv'
<1> USE DEF WalkInv, WalkTyped, WalkOK, history
<1>1. PICK n \in unpacked[w] :
        /\ phase[w] = "zip" /\ Packed(w, n)
        /\ \/ archive' = [archive EXCEPT ![w] = @ \cup {n}] /\ UNCHANGED missed
           \/ missed' = [missed EXCEPT ![w] = @ \cup {n}] /\ UNCHANGED archive
        /\ UNCHANGED <<vars, phase, walker, top, dir, stack, found, twice, tangled, steady>>
  BY DEF WalkZip
<1>2. n \in found[w] /\ n \in Used /\ ~isFolder[n]
  BY DEF Mine
<1>3. /\ unpacked' \in [Walk -> SUBSET Node] /\ unpacked'[w] \subseteq unpacked[w]
      /\ \A v \in Walk \ {w} : unpacked'[v] = unpacked[v]
  BY <1>1 DEF Packed
<1>4. WalkTyped'
  <2>1. archive' \in [Walk -> SUBSET Node] /\ missed' \in [Walk -> SUBSET Node]
    <3>1. n \in Node /\ archive \in [Walk -> SUBSET Node] /\ missed \in [Walk -> SUBSET Node]
      BY <1>2 DEF Used
    <3>2. archive[w] \cup {n} \in SUBSET Node /\ missed[w] \cup {n} \in SUBSET Node
      BY <3>1
    <3> HIDE DEF WalkInv, WalkTyped, WalkOK
    <3>3. CASE archive' = [archive EXCEPT ![w] = @ \cup {n}] /\ UNCHANGED missed
      BY <3>1, <3>2, <3>3
    <3>4. CASE missed' = [missed EXCEPT ![w] = @ \cup {n}] /\ UNCHANGED archive
      BY <3>1, <3>2, <3>4
    <3> QED
      BY <1>1, <3>3, <3>4
  <2>2. \A v \in Walk : Len(stack'[v]) <= MaxDepth
    BY <1>1
  <2> QED
    BY <1>1, <1>3, <2>1, <2>2
<1>5. \A v \in Walk \ {w} : SameWalk(v) /\ steady'[v] = steady[v]
  BY <1>1, <1>3 DEF SameWalk
<1>6. WalkOK(w)'
  <2>1. Mine(walker[w])' = Mine(walker[w]) /\ Used' = Used /\ UNCHANGED isFolder
    BY <1>1 DEF Mine, Used, vars, table, columns
  <2>2. archive'[w] \subseteq archive[w] \cup {n} /\ missed'[w] \subseteq missed[w] \cup {n}
    BY <1>1
  <2> QED
    BY <1>1, <1>2, <1>3, <2>1, <2>2
<1> QED
  BY <1>1, <1>4, <1>5, <1>6, OneWalk

(* The process stops: every handler and every walk is gone, and the table  *)
(* stays as it is.                                                         *)
LEMMA OverflowKeeps ==
  ASSUME WalkInv, NEW w \in Walk, Overflow(w)
  PROVE  WalkInv'
<1> USE DEF WalkInv, Overflow
<1>1. UNCHANGED <<status, owner, parent, name, isFolder, checked>>
  BY DEF table, columns
<1>2. TypeOK'
  <2>1. /\ current' \subseteq Request /\ at' \in [Request -> Stages]
        /\ by' \in [Request -> User \cup {None}] /\ node' \in [Request -> Node \cup {None}]
        /\ dest' \in [Request -> Places \cup {None}]
        /\ label' \in [Request -> Name \cup {None}]
    BY DEF Stages
  <2> QED
    BY <1>1, <2>1 DEF IInv, TypeOK, Used
<1>3. RequestOK'
  BY <1>1 DEF IInv, RequestOK, Used
<1>4. WalkTyped'
  BY DepthAssumption DEF WalkTyped, Phases
<1>5. ASSUME NEW v \in Walk PROVE WalkOK(v)'
  <2>1. /\ phase'[v] = "idle" /\ stack'[v] = <<>> /\ found'[v] = {} /\ steady'[v] = {}
        /\ unpacked'[v] = {} /\ archive'[v] = {} /\ missed'[v] = {}
        /\ Len(stack'[v]) = 0
    OBVIOUS
  <2> QED
    BY <2>1 DEF WalkOK
<1> QED
  BY <1>2, <1>3, <1>4, <1>5 DEF IInv

LEMMA InitWalkInv == DownloadInit => WalkInv
<1> SUFFICES ASSUME DownloadInit PROVE WalkInv
  OBVIOUS
<1> USE DEF DownloadInit
<1>1. IInv
  BY InitIInv
<1>2. WalkTyped
  BY DepthAssumption DEF WalkTyped, Phases
<1>3. ASSUME NEW w \in Walk PROVE WalkOK(w)
  <2>1. /\ phase[w] = "idle" /\ stack[w] = <<>> /\ found[w] = {} /\ steady[w] = {}
        /\ unpacked[w] = {} /\ archive[w] = {} /\ missed[w] = {}
        /\ Len(stack[w]) = 0
    OBVIOUS
  <2> QED
    BY <2>1 DEF WalkOK
<1> QED
  BY <1>1, <1>2, <1>3 DEF WalkInv

LEMMA FilesOfFolder ==
  ASSUME NEW d, NEW u
  PROVE  FilesBelow(d, u) \in SUBSET {n \in Used : ~isFolder[n]}
<1> QED
  BY DEF FilesBelow

LEMMA NextWalkInv == WalkInv /\ [DownloadNext]_downloadVars => WalkInv'
<1> SUFFICES ASSUME WalkInv, [DownloadNext]_downloadVars PROVE WalkInv'
  OBVIOUS
<1>1. ASSUME NEW w \in Walk, WalkLoop(w) PROVE WalkInv'
  BY <1>1, WalkChildKeeps, WalkUpKeeps DEF WalkLoop
<1>2. ASSUME NEW w \in Walk, WalkReply(w) PROVE WalkInv'
  BY <1>2, WalkReturnKeeps DEF WalkReply
<1>3. ASSUME NEW w \in Walk, WalkFails(w) PROVE WalkInv'
  BY <1>3, GivesKeeps, FilesOfFolder DEF WalkFails
<1>4. ASSUME NEW w \in Walk, WalkStep(w) PROVE WalkInv'
  BY <1>1, <1>2, <1>3, <1>4, WalkGetKeeps, WalkFindKeeps, WalkPackKeeps, WalkZipKeeps,
     OverflowKeeps DEF WalkStep
<1>5. CASE UNCHANGED downloadVars
  <2>1. /\ UNCHANGED vars /\ UNCHANGED <<phase, walker, top, dir, stack, found, twice,
                                        unpacked, archive, missed, tangled, steady>>
    BY <1>5 DEF downloadVars, walkState, history
  <2>2. IInv'
    BY <2>1, NextIInv DEF WalkInv
  <2>3. UNCHANGED <<status, owner, isFolder>>
    BY <2>1 DEF vars, table, columns
  <2> QED
    BY <2>1, <2>2, <2>3 DEF WalkInv, WalkTyped, WalkOK, Mine, Used
<1> QED
  BY <1>4, <1>5, TreeStepKeeps, AskWalkKeeps DEF DownloadNext

THEOREM WalkInvariance == DownloadSpec => []WalkInv
<1> QED
  BY InitWalkInv, NextWalkInv, PTL DEF DownloadSpec

(* The type invariant: what frames and archives hold are rows of the table. *)
LEMMA WalksTyped == WalkInv => WalkTypeOK
<1> SUFFICES ASSUME WalkInv PROVE WalkTypeOK
  OBVIOUS
<1>1. ASSUME NEW w \in Walk
      PROVE  /\ Len(stack[w]) \in 0..MaxDepth
             /\ \A i \in DOMAIN stack[w] : stack[w][i] \subseteq Used
             /\ found[w] \cup steady[w] \cup missed[w] \subseteq {n \in Used : ~isFolder[n]}
             /\ unpacked[w] \cup archive[w] \subseteq found[w]
  <2>1. stack[w] \in Seq(SUBSET Node) /\ Len(stack[w]) <= MaxDepth
    BY DEF WalkInv, WalkTyped
  <2>2. DOMAIN stack[w] = 1..Len(stack[w]) /\ Len(stack[w]) \in 0..MaxDepth
    BY <2>1, DepthAssumption
  <2> QED
    BY <2>2 DEF WalkInv, WalkOK, Mine
<1> QED
  BY <1>1 DEF WalkInv, IInv, WalkTyped, WalkTypeOK

THEOREM WalkTypeCorrect == DownloadSpec => []WalkTypeOK
<1> QED
  BY WalksTyped, WalkInvariance, PTL

(* Whoever's folder a client names (file_download_logic.go), the archive   *)
(* holds files of its own user only.                                       *)
THEOREM OnlyOwnFiles == DownloadSpec => []OwnFilesFound
<1>1. WalkInv => OwnFilesFound
  BY DEF WalkInv, WalkOK, Mine, OwnFilesFound
<1> QED
  BY <1>1, WalkInvariance, PTL

(* A walk reads the tree; if it overflows, the rows stay and the handlers  *)
(* forget what they looked at.                                             *)
LEMMA WalksOnlyRead ==
  ASSUME [DownloadNext]_downloadVars
  PROVE  [Next]_vars \/ (UNCHANGED table /\ current' = {})
<1>1. ASSUME NEW w \in Walk, AskWalk(w) \/ WalkStep(w)
      PROVE  UNCHANGED vars \/ (UNCHANGED table /\ current' = {})
  BY <1>1 DEF AskWalk, WalkStep, WalkGet, WalkFind, WalkLoop, WalkReply, WalkFails,
     WalkPack, WalkZip, Overflow
<1> QED
  BY <1>1 DEF DownloadNext, TreeStep, downloadVars

(* A move leaves an entry in its owner's own tree beside walks too: an     *)
(* overflow, which may end it in the middle, writes nothing.               *)
THEOREM OwnTreeBesideWalks == DownloadSpec => MovesStayInOwnTree
<1>1. WalkInv /\ [DownloadNext]_downloadVars => [\A n \in Used :
        parent'[n] # parent[n] =>
          parent'[n] = Root \/ (parent'[n] \in Used /\ owner[parent'[n]] = owner[n])]_vars
  <2> SUFFICES ASSUME WalkInv, [DownloadNext]_downloadVars, NEW n \in Used,
                      parent'[n] # parent[n]
               PROVE  parent'[n] = Root \/ (parent'[n] \in Used /\ owner[parent'[n]] = owner[n])
    OBVIOUS
  <2>1. [Next]_vars
    BY WalksOnlyRead DEF table, columns
  <2> QED
    BY <2>1, ParentStep DEF WalkInv, OwnPlace, Written
<1> QED
  BY <1>1, WalkInvariance, PTL DEF DownloadSpec, MovesStayInOwnTree

-----------------------------------------------------------------------------
(* What lies below an entry, as a least fixed point.                       *)
LEMMA BelowIsClosed ==
  ASSUME NEW d, NEW u
  PROVE  Below(d, u) \in Closed(d, u)
<1>1. ASSUME NEW D \in Closed(d, u)
      PROVE  Kids({d} \cup {n \in Below(d, u) : isFolder[n]}, u) \subseteq D
  <2>1. \A n \in Below(d, u) : n \in D
    BY DEF Below
  <2>2. Kids({d} \cup {n \in Below(d, u) : isFolder[n]}, u)
          \subseteq Kids({d} \cup {n \in D : isFolder[n]}, u)
    BY <2>1 DEF Kids
  <2> QED
    BY <2>2 DEF Closed
<1>2. Kids({d} \cup {n \in Below(d, u) : isFolder[n]}, u) \subseteq Below(d, u)
  BY <1>1 DEF Below, Kids
<1>3. Below(d, u) \in SUBSET Node
  BY DEF Below
<1> QED
  BY <1>2, <1>3 DEF Closed

LEMMA BelowIsLeast ==
  ASSUME NEW d, NEW u, NEW D \in Closed(d, u)
  PROVE  Below(d, u) \subseteq D
<1> QED
  BY DEF Below

(* An entry lies below d if it is a live one of the user's, and its parent *)
(* is d or a folder below d.                                               *)
HangsBelow(z, d, u) ==
  /\ Found(z, u)
  /\ parent[z] = d \/ (parent[z] \in Below(d, u) /\ isFolder[parent[z]])

Unfolding == \A d, u : Below(d, u) = {z \in Node : HangsBelow(z, d, u)}

LEMMA BelowUnfolds == Unfolding
<1> SUFFICES ASSUME NEW d, NEW u PROVE Below(d, u) = {z \in Node : HangsBelow(z, d, u)}
  BY DEF Unfolding
<1> DEFINE D == {z \in Node : HangsBelow(z, d, u)}
<1>1. D \subseteq Below(d, u)
  BY BelowIsClosed DEF Closed, Kids, HangsBelow
<1>2. Kids({d} \cup {n \in D : isFolder[n]}, u) \subseteq D
  BY <1>1 DEF Kids, HangsBelow
<1>3. D \in Closed(d, u)
  BY <1>2 DEF Closed
<1> HIDE DEF D
<1>4. Below(d, u) \subseteq D
  BY <1>3, BelowIsLeast
<1> QED
  BY <1>1, <1>4 DEF D

LEMMA BelowOfFolder ==
  ASSUME NEW d, NEW u, NEW x \in Below(d, u), isFolder[x]
  PROVE  Below(x, u) \subseteq Below(d, u)
<1>1. Kids({x} \cup {n \in Below(d, u) : isFolder[n]}, u) \subseteq Below(d, u)
  BY BelowIsClosed DEF Closed, Kids
<1>2. Below(d, u) \in Closed(x, u)
  BY <1>1 DEF Closed, Below
<1> QED
  BY <1>2, BelowIsLeast

(* What lies below two entries neither of which lies below the other is    *)
(* apart: an entry has one parent.                                         *)
LEMMA BelowApart ==
  ASSUME NEW u, NEW x, NEW y, x # y, x \notin Below(y, u), y \notin Below(x, u)
  PROVE  Below(x, u) \cap Below(y, u) = {}
<1> DEFINE D == Below(x, u) \ Below(y, u)
<1>1. ASSUME NEW z \in Kids({x} \cup {n \in D : isFolder[n]}, u)
      PROVE  z \in D
  <2>1. z \in Below(x, u)
    BY BelowIsClosed DEF Closed, Kids
  <2>2. parent[z] = x \/ parent[z] \in D
    BY DEF Kids
  <2>3. z \in Below(y, u) => parent[z] = y \/ parent[z] \in Below(y, u)
    BY BelowUnfolds DEF Unfolding, HangsBelow
  <2> QED
    BY <2>1, <2>2, <2>3
<1>2. D \in Closed(x, u)
  BY <1>1 DEF Closed, Below
<1> HIDE DEF D
<1>3. Below(x, u) \subseteq D
  BY <1>2, BelowIsLeast
<1> QED
  BY <1>3 DEF D

(* What lies below x by a way that does not pass t: in a tree with a cycle *)
(* through t, what the walk of t owes to its call for x.                   *)
Fenced(x, t, u) == {D \in SUBSET Node :
  Kids({x} \cup {n \in D : isFolder[n] /\ n # t}, u) \subseteq D}
Beneath(x, t, u) == {n \in Node : \A D \in Fenced(x, t, u) : n \in D}

LEMMA BeneathIsClosed ==
  ASSUME NEW x, NEW t, NEW u
  PROVE  Beneath(x, t, u) \in Fenced(x, t, u)
<1>1. ASSUME NEW D \in Fenced(x, t, u)
      PROVE  Kids({x} \cup {n \in Beneath(x, t, u) : isFolder[n] /\ n # t}, u) \subseteq D
  <2>1. \A n \in Beneath(x, t, u) : n \in D
    BY DEF Beneath
  <2>2. Kids({x} \cup {n \in Beneath(x, t, u) : isFolder[n] /\ n # t}, u)
          \subseteq Kids({x} \cup {n \in D : isFolder[n] /\ n # t}, u)
    BY <2>1 DEF Kids
  <2> QED
    BY <2>2 DEF Fenced
<1>2. Kids({x} \cup {n \in Beneath(x, t, u) : isFolder[n] /\ n # t}, u) \subseteq Beneath(x, t, u)
  BY <1>1 DEF Beneath, Kids
<1>3. Beneath(x, t, u) \in SUBSET Node
  BY DEF Beneath
<1> QED
  BY <1>2, <1>3 DEF Fenced

LEMMA BeneathIsLeast ==
  ASSUME NEW x, NEW t, NEW u, NEW D \in Fenced(x, t, u)
  PROVE  Beneath(x, t, u) \subseteq D
<1> QED
  BY DEF Beneath

(* The children of x are beneath it, and those of the folders beneath it   *)
(* but t.                                                                  *)
LEMMA BeneathHolds ==
  ASSUME NEW x, NEW t, NEW u, NEW z \in Node, Found(z, u),
         \/ parent[z] = x
         \/ parent[z] \in Beneath(x, t, u) /\ isFolder[parent[z]] /\ parent[z] # t
  PROVE  z \in Beneath(x, t, u)
<1>1. z \in Kids({x} \cup {n \in Beneath(x, t, u) : isFolder[n] /\ n # t}, u)
  BY DEF Kids
<1> QED
  BY <1>1, BeneathIsClosed DEF Fenced

(* Beneath an entry are its children, and what is beneath those.           *)
LEMMA BeneathByChild ==
  ASSUME NEW x, NEW t, NEW u
  PROVE  \A z \in Beneath(x, t, u) : \E k \in Kids({x}, u) :
           z = k \/ (isFolder[k] /\ k # t /\ z \in Beneath(k, t, u))
<1> DEFINE Via(z, k) == z = k \/ (isFolder[k] /\ k # t /\ z \in Beneath(k, t, u))
           D == {z \in Node : \E k \in Kids({x}, u) : Via(z, k)}
<1>1. ASSUME NEW z \in Kids({x} \cup {n \in D : isFolder[n] /\ n # t}, u)
      PROVE  z \in D
  <2>1. CASE parent[z] = x
    BY <2>1 DEF Kids
  <2>2. CASE parent[z] # x
    <3>1. /\ z \in Node /\ Found(z, u)
          /\ parent[z] \in D /\ isFolder[parent[z]] /\ parent[z] # t
      BY <2>2 DEF Kids
    <3>2. PICK k \in Kids({x}, u) : Via(parent[z], k)
      BY <3>1
    <3>3. z \in Beneath(k, t, u) /\ isFolder[k] /\ k # t
      BY <3>1, <3>2, BeneathHolds
    <3> QED
      BY <3>1, <3>3
  <2> QED
    BY <2>1, <2>2
<1>2. D \in Fenced(x, t, u)
  BY <1>1 DEF Fenced
<1> HIDE DEF D
<1>3. Beneath(x, t, u) \subseteq D
  BY <1>2, BeneathIsLeast
<1> QED
  BY <1>3 DEF D

LEMMA BeneathInBelow ==
  ASSUME NEW x, NEW t, NEW u
  PROVE  Beneath(x, t, u) \subseteq Below(x, u)
<1>1. Kids({x} \cup {n \in Below(x, u) : isFolder[n] /\ n # t}, u) \subseteq Below(x, u)
  BY BelowIsClosed DEF Closed, Kids
<1>2. Below(x, u) \in Fenced(x, t, u)
  BY <1>1 DEF Fenced, Below
<1> QED
  BY <1>2, BeneathIsLeast

(* A way down from t that comes back to t can begin there.                 *)
LEMMA BelowInBeneath ==
  ASSUME NEW t, NEW u
  PROVE  Below(t, u) \subseteq Beneath(t, t, u)
<1> DEFINE D == Beneath(t, t, u)
<1>1. ASSUME NEW z \in Kids({t} \cup {n \in D : isFolder[n]}, u) PROVE z \in D
  BY BeneathHolds DEF Kids
<1>2. D \in Closed(t, u)
  BY <1>1 DEF Closed, Beneath
<1> QED
  BY <1>2, BelowIsLeast

(* From an entry below t that is beneath x as well the way up leads to x   *)
(* before it leads to t: x lies below t itself.                            *)
LEMMA BeneathLeadsUp ==
  ASSUME NEW x, NEW t, NEW u, x # t, NEW z \in Beneath(x, t, u), z \in Below(t, u)
  PROVE  x \in Below(t, u)
<1> DEFINE D == {n \in Node : n \in Below(t, u) => x \in Below(t, u)}
<1>1. ASSUME NEW n \in Kids({x} \cup {m \in D : isFolder[m] /\ m # t}, u) PROVE n \in D
  <2>1. n \in Node /\ (parent[n] = x \/ (parent[n] \in D /\ parent[n] # t))
    BY DEF Kids
  <2>2. n \in Below(t, u) => parent[n] = t \/ parent[n] \in Below(t, u)
    BY BelowUnfolds DEF Unfolding, HangsBelow
  <2> QED
    BY <2>1, <2>2
<1>2. D \in Fenced(x, t, u)
  BY <1>1 DEF Fenced
<1> HIDE DEF D
<1>3. z \in D
  BY <1>2, BeneathIsLeast
<1> QED
  BY <1>3 DEF D

-----------------------------------------------------------------------------
(* A step of the tree in which no entry is moved.                          *)
Unmoved == \A n \in Used : parent'[n] = parent[n]
NoneRevived == \A n \in Used : status'[n] = "live" => status[n] = "live"

LEMMA TreeChange ==
  ASSUME IInv, Next
  PROVE  RowsLast /\ NoneRevived
<1> USE DEF IInv, TypeOK
<1>1. RowsLast
  BY RowsLastStep
<1>2. NoneRevived
  <2>1. CASE UNCHANGED status
    BY <2>1 DEF NoneRevived
  <2>2. ASSUME NEW n \in Free, status' = [status EXCEPT ![n] = "live"] PROVE NoneRevived
    BY <2>2 DEF NoneRevived, Free
  <2>3. ASSUME NEW n \in Node, status' = [status EXCEPT ![n] = "deleted"] PROVE NoneRevived
    BY <2>3 DEF NoneRevived, Used
  <2>4. ASSUME NEW r \in Request, Arrive(r) \/ Fail(r) PROVE NoneRevived
    BY <2>1, <2>4 DEF Arrive, AskCreate, AskRename, AskMove, Ask, Fail, Drop, table
  <2>5. ASSUME NEW r \in Request, Serve(r) PROVE NoneRevived
    <3>1. CASE CreateInsert(r)
      BY <2>2, <3>1 DEF CreateInsert, Insert
    <3>2. CASE ~CreateInsert(r)
      BY <2>1, <2>5, <3>2 DEF Serve, CreateCount, RenameCount, RenameUpdate,
         MoveGetFile, MoveGetParent, MoveUpdate, Drop, table
    <3> QED
      BY <3>1, <3>2
  <2>6. CASE Save
    BY <2>2, <2>6 DEF Save, Insert
  <2>7. CASE Delete
    BY <2>3, <2>7 DEF Delete
  <2> QED
    BY <2>4, <2>5, <2>6, <2>7 DEF Next
<1> QED
  BY <1>1, <1>2

(* Nor does a row come in that rows name as their parent already.  Then    *)
(* nothing that was in the table gets below an entry.                      *)
LEMMA NothingComesBelow ==
  ASSUME IInv, Next, Unmoved, Adopted = {}, NEW d \in Used, NEW u
  PROVE  Below(d, u)' \cap Used \subseteq Below(d, u)
<1>0. PICK D : D = Below(d, u) \cup (Used' \ Used)
  OBVIOUS
<1>1. RowsLast /\ NoneRevived
  BY TreeChange
<1>2. ASSUME NEW z \in Node, Found(z, u)',
             parent'[z] = d \/ (parent'[z] \in D /\ isFolder'[parent'[z]])
      PROVE  z \in D
  <2>0. z \in Used'
    BY <1>2 DEF Found, Used
  <2>1. CASE z \in Used
    <3>1. Found(z, u) /\ parent'[z] = parent[z]
      BY <1>1, <1>2, <2>1 DEF NoneRevived, Unmoved, RowsLast, Found
    <3>2. parent'[z] \notin Used' \ Used
      BY <2>0 DEF Adopted
    <3>3. parent[z] \in Below(d, u) => parent[z] \in Used
      BY BelowUnfolds DEF Unfolding, HangsBelow, Found, Used
    <3>4. parent[z] = d \/ (parent[z] \in Below(d, u) /\ isFolder[parent[z]])
      BY <1>0, <1>1, <1>2, <3>1, <3>2, <3>3 DEF RowsLast
    <3> QED
      BY <1>0, <3>1, <3>4, BelowUnfolds DEF Unfolding, HangsBelow
  <2> QED
    BY <1>0, <2>0, <2>1
<1>3. D \in Closed(d, u)'
  <2>1. D \in SUBSET Node
    BY <1>0 DEF Below, Used
  <2> QED
    BY <1>2, <2>1 DEF Closed, Kids
<1>4. Below(d, u)' \subseteq D
  BY <1>3 DEF Below
<1> QED
  BY <1>0, <1>4

(* What stays below t by the same way stays beneath the entries between.   *)
LEMMA WaysStay ==
  ASSUME IInv, Next, NEW x, NEW t, NEW u
  PROVE  \A z \in Beneath(x, t, u) :
           z \in Below(t, u) /\ z \in Below(t, u)' /\ ~Displaced(z, t, u)
             => z \in Beneath(x, t, u)'
<1> DEFINE Keeps(z) == z \in Below(t, u) /\ z \in Below(t, u)' /\ ~Displaced(z, t, u)
           D == {z \in Node : Keeps(z) => z \in Beneath(x, t, u)'}
<1>0. Unfolding /\ Unfolding'
  BY BelowUnfolds, PTL
<1>1. RowsLast
  BY TreeChange
<1>2. ASSUME NEW z \in Kids({x} \cup {n \in D : isFolder[n] /\ n # t}, u), Keeps(z)
      PROVE  z \in Beneath(x, t, u)'
  <2>1. /\ z \in Node /\ Found(z, u) /\ z \in Used
        /\ parent[z] = x \/ (parent[z] \in D /\ isFolder[parent[z]] /\ parent[z] # t)
    BY DEF Kids, Found, Used
  <2>2. parent'[z] = parent[z]
    BY <1>2, <2>1 DEF Displaced, Moved
  <2>3. Found(z, u)' /\ (parent[z] = t \/ parent[z] \in Below(t, u)')
    BY <1>0, <1>2, <2>2 DEF Unfolding, HangsBelow
  <2>4. CASE parent[z] = x
    BY <2>1, <2>2, <2>3, <2>4 DEF Beneath, Fenced, Kids
  <2>5. CASE parent[z] # x
    <3>1. PICK p : p = parent[z] /\ p \in D /\ isFolder[p] /\ p # t
      BY <2>1, <2>5
    <3>2. p \in Below(t, u) /\ p \in Below(t, u)'
      BY <1>0, <1>2, <2>3, <3>1 DEF Unfolding, HangsBelow
    <3>3. ~Displaced(p, t, u)
      <4> SUFFICES ASSUME NEW m \in Moved \cap Below(t, u), p = m \/ p \in Below(m, u)
                   PROVE  FALSE
        BY DEF Displaced
      <4>1. z \in Below(m, u)
        BY <1>0, <2>1, <3>1 DEF Unfolding, HangsBelow
      <4> QED
        BY <1>2, <4>1 DEF Displaced
    <3>4. p \in Beneath(x, t, u)'
      BY <3>1, <3>2, <3>3
    <3>5. p \in Used /\ isFolder'[p]
      BY <1>0, <1>1, <3>1, <3>2 DEF Unfolding, HangsBelow, Found, Used, RowsLast
    <3> QED
      BY <2>1, <2>2, <2>3, <3>1, <3>4, <3>5 DEF Beneath, Fenced, Kids
  <2> QED
    BY <2>4, <2>5
<1>3. D \in Fenced(x, t, u)
  <2>1. Kids({x} \cup {n \in D : isFolder[n] /\ n # t}, u) \subseteq D
    BY <1>2 DEF Kids
  <2> QED
    BY <2>1 DEF Fenced
<1> HIDE DEF D
<1>4. Beneath(x, t, u) \subseteq D
  BY <1>3, BeneathIsLeast
<1> QED
  BY <1>4 DEF D

-----------------------------------------------------------------------------
(* What a walk may yet come to: the entries in its frames and the one it   *)
(* has called for, and of these what lies below the folders.               *)
Held(s) == UNION {s[i] : i \in 1..Len(s)}
Disjoint(s) == \A i, j \in 1..Len(s) : i # j => s[i] \cap s[j] = {}

Calling(w) == phase[w] \in {"get", "find"}
Pending(w) == Held(stack[w])
Tops(w) == Pending(w) \cup (IF Calling(w) THEN {dir[w]} ELSE {})
Under(w, n) == IF isFolder[n] \/ n = top[w] THEN Below(n, walker[w]) ELSE {}
Due(w) == Tops(w) \cup UNION {Under(w, n) : n \in Tops(w)}

(* A call is for the folder asked for or for a folder of the user; whose   *)
(* the one asked for is has turned out when its children are looked for.   *)
CallOK(w) ==
  /\ phase[w] = "idle" => ~twice[w]
  /\ phase[w] # "idle" => top[w] \in Used
  /\ Calling(w) => dir[w] = top[w] \/ (isFolder[dir[w]] /\ owner[dir[w]] = walker[w])
  /\ Calling(w) /\ stack[w] = <<>> => dir[w] = top[w]
  /\ phase[w] = "find" => owner[dir[w]] = walker[w]

(* No entry is due twice, and the folder asked for is not due again. *)
Apart(w) ==
  /\ \A x, y \in Tops(w) : x \notin Under(w, y)
  /\ \A x \in Tops(w) : top[w] \notin Under(w, x)
  /\ top[w] \notin Pending(w)
  /\ Calling(w) => dir[w] \notin Pending(w)
  /\ Calling(w) /\ stack[w] # <<>> => dir[w] # top[w]
  /\ Disjoint(stack[w])

(* Nor is one that has been collected; and for each frame there is an      *)
(* entry, the folder it was made for, that is no longer due.               *)
Fresh(w) ==
  /\ found[w] \cap Due(w) = {} /\ ~twice[w]
  /\ Cardinality(Used \ Due(w)) >= Len(stack[w])

Untangled(w) == phase[w] # "idle" /\ ~tangled[w] => Apart(w) /\ Fresh(w)

(* In a tree with a cycle what is due may be due several times.  But what  *)
(* the walk still comes to has to do only with the first call for the      *)
(* folder asked for: a call for it that a cycle led to can be left out.    *)
Lead(w, x) == IF (isFolder[x] /\ x # top[w]) \/ (stack[w] = <<>> /\ x = top[w])
              THEN Beneath(x, top[w], walker[w]) ELSE {}
Ahead(w) == Pending(w) \cup UNION {Lead(w, x) : x \in Tops(w)}

(* A file that stays below the folder by the same way is collected, missed *)
(* or ahead; then it waits for the zip, or is in it.                       *)
SteadyOK(w) ==
  /\ phase[w] # "idle" => steady[w] \subseteq Below(top[w], walker[w])
  /\ phase[w] \in {"get", "find", "loop"} =>
       steady[w] \subseteq found[w] \cup missed[w] \cup Ahead(w)
  /\ phase[w] = "zip" => steady[w] \subseteq archive[w] \cup unpacked[w] \cup missed[w]

Collects(w) == CallOK(w) /\ Untangled(w) /\ SteadyOK(w)

CollectInv == WalkInv /\ \A w \in Walk : Collects(w)

(* A step of a walk brings it nearer to the end of the recursion: an entry *)
(* is no longer due, though there may be a frame more and a file collected *)
(* more; a frame is gone; or the call goes on.                             *)
Grows(w) == \E n : found'[w] \subseteq found[w] \cup {n}
Lessens(w) == ~tangled[w] /\ phase'[w] \notin {"idle", "zip"} =>
  /\ Due(w)' \subseteq Due(w)
  /\ \/ Due(w)' # Due(w) /\ Len(stack'[w]) <= Len(stack[w]) + 1 /\ Grows(w)
     \/ /\ phase'[w] = phase[w] /\ found'[w] = found[w]
        /\ Len(stack'[w]) < Len(stack[w])
     \/ /\ <<phase[w], phase'[w]>> \in {<<"loop", "get">>, <<"get", "find">>}
        /\ Len(stack'[w]) = Len(stack[w]) /\ found'[w] = found[w]

-----------------------------------------------------------------------------
LEMMA Pushed ==
  ASSUME NEW S, NEW s \in Seq(SUBSET S), NEW C \in SUBSET S
  PROVE  /\ Held(Append(s, C)) = Held(s) \cup C
         /\ Disjoint(s) /\ C \cap Held(s) = {} => Disjoint(Append(s, C))
         /\ Len(Append(s, C)) = Len(s) + 1 /\ Len(s) \in Nat
<1> DEFINE t == Append(s, C)
<1>1. /\ Len(t) = Len(s) + 1 /\ Len(s) \in Nat
      /\ \A i \in 1..Len(s) : t[i] = s[i]
      /\ t[Len(s) + 1] = C
  OBVIOUS
<1> HIDE DEF t
<1>2. 1..Len(t) = 1..Len(s) \cup {Len(t)}
  BY <1>1
<1>3. Held(t) = Held(s) \cup C
  BY <1>1, <1>2 DEF Held
<1>4. ASSUME Disjoint(s), C \cap Held(s) = {} PROVE Disjoint(t)
  <2>1. \A i \in 1..Len(s) : s[i] \cap C = {}
    BY <1>4 DEF Held
  <2> QED
    BY <1>1, <1>2, <1>4, <2>1 DEF Disjoint
<1> QED
  BY <1>1, <1>3, <1>4 DEF t

LEMMA Popped ==
  ASSUME NEW S, NEW s \in Seq(SUBSET S), s # <<>>
  PROVE  /\ Held(s) = Held(Front(s)) \cup Last(s)
         /\ Disjoint(s) => Disjoint(Front(s)) /\ Last(s) \cap Held(Front(s)) = {}
         /\ Len(Front(s)) + 1 = Len(s)
         /\ Front(s) \in Seq(SUBSET S) /\ Last(s) \in SUBSET S
<1>1. Front(s) \in Seq(SUBSET S) /\ Last(s) \in SUBSET S /\ Len(Front(s)) + 1 = Len(s)
  BY FrontLastType, Zenon
<1>2. Len(s) \in Nat \ {0} /\ Len(Front(s)) \in Nat /\ Last(s) = s[Len(s)]
  BY <1>1 DEF Last
<1>3. \A i \in 1..Len(Front(s)) : Front(s)[i] = s[i]
  BY <1>1, <1>2 DEF Front
<1>4. 1..Len(s) = 1..Len(Front(s)) \cup {Len(s)}
  BY <1>1, <1>2
<1>5. Held(s) = Held(Front(s)) \cup Last(s)
  BY <1>2, <1>3, <1>4 DEF Held
<1>6. ASSUME Disjoint(s) PROVE Disjoint(Front(s)) /\ Last(s) \cap Held(Front(s)) = {}
  <2>1. \A i \in 1..Len(Front(s)) : i # Len(s)
    BY <1>1, <1>2
  <2> QED
    BY <1>2, <1>3, <1>4, <1>6, <2>1 DEF Disjoint, Held
<1> QED
  BY <1>1, <1>5, <1>6

LEMMA CardOfRows ==
  ASSUME NEW B \in SUBSET Node, NEW A \in SUBSET B
  PROVE  /\ IsFiniteSet(A) /\ IsFiniteSet(B)
         /\ Cardinality(A) \in Nat /\ Cardinality(B) \in Nat
         /\ Cardinality(A) <= Cardinality(B)
<1>1. IsFiniteSet(B)
  BY RowsAssumption, FS_Subset
<1> QED
  BY <1>1, FS_Subset, FS_CardinalityType

(* What is due to a walk, as the invariant of its copies has it. *)
LEMMA DueTypes ==
  ASSUME CollectInv, NEW w \in Walk
  PROVE  /\ stack[w] \in Seq(SUBSET Mine(walker[w])) /\ Len(stack[w]) \in Nat
         /\ Pending(w) \subseteq Mine(walker[w])
         /\ phase[w] # "idle" => dir[w] \in Used /\ Tops(w) \subseteq Used
         /\ found[w] \subseteq Used
         /\ \A n : Under(w, n) \subseteq Used
<1>1. /\ stack[w] \in Seq(SUBSET Mine(walker[w])) /\ Len(stack[w]) \in Nat
      /\ phase[w] # "idle" => dir[w] \in Used
      /\ found[w] \subseteq Used
  BY FramesType DEF CollectInv, Mine
<1>2. Pending(w) \subseteq Mine(walker[w])
  BY <1>1 DEF Pending, Held
<1>3. Mine(walker[w]) \subseteq Used
  BY DEF Mine
<1>4. Calling(w) => phase[w] # "idle"
  BY DEF Calling
<1>5. \A n : Under(w, n) \subseteq Used
  BY BelowUnfolds DEF Under, Unfolding, HangsBelow, Found, Used
<1> QED
  BY <1>1, <1>2, <1>3, <1>4, <1>5 DEF Tops

(* While the tree is untouched, a walk with fewer entries at the top has   *)
(* less due.                                                               *)
LEMMA DueShrinks ==
  ASSUME UNCHANGED vars, NEW w \in Walk, top'[w] = top[w], walker'[w] = walker[w],
         Tops(w)' \subseteq Tops(w)
  PROVE  /\ \A n : Under(w, n)' = Under(w, n)
         /\ Due(w)' \subseteq Due(w)
<1>1. UNCHANGED <<status, owner, parent, isFolder>>
  BY DEF vars, table, columns
<1>2. ASSUME NEW n, NEW u PROVE Below(n, u)' = Below(n, u)
  BY <1>1 DEF Below, Closed, Kids, Found
<1>3. \A n : Under(w, n)' = Under(w, n)
  <2>1. \A n : Below(n, walker[w])' = Below(n, walker[w])
    <3>1. PICK u : u = walker[w]
      OBVIOUS
    <3> QED
      BY <1>1, <3>1 DEF Below, Closed, Kids, Found
  <2> QED
    BY <1>1, <2>1 DEF Under
<1> QED
  BY <1>3 DEF Due

(* And what lies below or beneath an entry is the same. *)
LEMMA SameBelow ==
  ASSUME UNCHANGED vars, NEW w \in Walk, top'[w] = top[w], walker'[w] = walker[w]
  PROVE  /\ Below(top[w], walker[w])' = Below(top[w], walker[w])
         /\ \A x : Beneath(x, top[w], walker[w])' = Beneath(x, top[w], walker[w])
<1>1. UNCHANGED <<status, owner, parent, isFolder>>
  BY DEF vars, table, columns
<1> QED
  BY <1>1 DEF Below, Closed, Beneath, Fenced, Kids, Found

LEMMA SameLead ==
  ASSUME UNCHANGED vars, NEW w \in Walk, top'[w] = top[w], walker'[w] = walker[w],
         stack'[w] = stack[w] \/ (stack[w] # <<>> /\ stack'[w] # <<>>)
  PROVE  \A x : Lead(w, x)' = Lead(w, x)
<1>1. UNCHANGED isFolder
  BY DEF vars, table, columns
<1> QED
  BY <1>1, SameBelow DEF Lead

SameInAll(v) == /\ SameWalk(v) /\ top'[v] = top[v] /\ twice'[v] = twice[v]
                /\ tangled'[v] = tangled[v] /\ steady'[v] = steady[v]

(* A walk beside which another takes a step, with the tree untouched. *)
LEMMA SameCollects ==
  ASSUME UNCHANGED vars, NEW v \in Walk, SameInAll(v), Collects(v)
  PROVE  Collects(v)'
<1>1. UNCHANGED <<status, owner, parent, isFolder>> /\ Used' = Used
  BY DEF vars, table, columns, Used
<1>2. /\ Calling(v)' = Calling(v) /\ Pending(v)' = Pending(v) /\ Tops(v)' = Tops(v)
  BY <1>1 DEF SameInAll, SameWalk, Calling, Pending, Tops, Held
<1>3. \A n : Under(v, n)' = Under(v, n)
  BY <1>1, <1>2, DueShrinks DEF SameInAll, SameWalk
<1>4. Due(v)' = Due(v)
  BY <1>2, <1>3 DEF Due
<1>5. CallOK(v)'
  BY <1>1, <1>2 DEF SameInAll, SameWalk, Collects, CallOK
<1>6. Untangled(v)'
  <2>1. Apart(v) => Apart(v)'
    BY <1>1, <1>2, <1>3 DEF SameInAll, SameWalk, Apart, Disjoint
  <2>2. Fresh(v) => Fresh(v)'
    BY <1>1, <1>4 DEF SameInAll, SameWalk, Fresh
  <2> QED
    BY <1>1, <2>1, <2>2 DEF SameInAll, SameWalk, Collects, Untangled
<1>7. SteadyOK(v)'
  <2>1. top'[v] = top[v] /\ walker'[v] = walker[v] /\ stack'[v] = stack[v]
    BY DEF SameInAll, SameWalk
  <2>2. Below(top[v], walker[v])' = Below(top[v], walker[v])
    BY <2>1, SameBelow
  <2>3. \A x : Lead(v, x)' = Lead(v, x)
    BY <2>1, SameLead
  <2>4. Ahead(v)' = Ahead(v)
    BY <1>2, <2>3 DEF Ahead
  <2> QED
    BY <2>2, <2>4 DEF SameInAll, SameWalk, Collects, SteadyOK
<1> QED
  BY <1>5, <1>6, <1>7 DEF Collects

LEMMA OneCollects ==
  ASSUME CollectInv, UNCHANGED vars, WalkInv', NEW w \in Walk,
         \A v \in Walk \ {w} : SameInAll(v), Collects(w)'
  PROVE  CollectInv'
<1> QED
  BY SameCollects DEF CollectInv

-----------------------------------------------------------------------------
(* The steps of a walk.  All but one take entries out of what is due, or   *)
(* leave them where they are.                                              *)
LEMMA StaysUntangled ==
  ASSUME CollectInv, NEW w \in Walk, UNCHANGED vars, phase[w] # "idle",
         top'[w] = top[w], walker'[w] = walker[w], tangled'[w] = tangled[w],
         Tops(w)' \subseteq Tops(w), Pending(w)' \subseteq Pending(w),
         ~tangled[w] /\ Apart(w) =>
           /\ Disjoint(stack'[w])
           /\ Calling(w)' => dir'[w] \notin Pending(w)' /\ dir'[w] # top[w]
           /\ found'[w] \cap Due(w)' \subseteq found[w] \cap Due(w),
         ~tangled[w] /\ Apart(w) /\ Fresh(w) => ~twice'[w],
         Len(stack'[w]) \in Nat, Len(stack'[w]) <= Len(stack[w])
  PROVE  Untangled(w)'
<1>1. (\A n : Under(w, n)' = Under(w, n)) /\ Due(w)' \subseteq Due(w) /\ Used' = Used
  BY DueShrinks DEF vars, table, columns, Used
<1> SUFFICES ASSUME ~tangled[w], Apart(w), Fresh(w) PROVE Apart(w)' /\ Fresh(w)'
  BY DEF CollectInv, Collects, Untangled
<1>2. Apart(w)'
  BY <1>1 DEF Apart
<1>3. Cardinality(Used \ Due(w)) <= Cardinality(Used' \ Due(w)')
  <2>1. Used \ Due(w) \in SUBSET (Used' \ Due(w)') /\ Used' \ Due(w)' \in SUBSET Node
    BY <1>1 DEF Used
  <2> QED
    BY <2>1, CardOfRows
<1>4. Cardinality(Used \ Due(w)) \in Nat /\ Cardinality(Used' \ Due(w)') \in Nat
  <2>1. Used \ Due(w) \in SUBSET Node /\ Used' \ Due(w)' \in SUBSET Node
    BY <1>1 DEF Used
  <2> QED
    BY <2>1, CardOfRows
<1>5. Len(stack[w]) \in Nat
  BY DueTypes
<1>6. Fresh(w)'
  BY <1>3, <1>4, <1>5 DEF Fresh
<1> QED
  BY <1>2, <1>6

LEMMA WalkEndCollects ==
  ASSUME CollectInv, NEW w \in Walk, WalkReturn(w), UNCHANGED vars
  PROVE  CollectInv' /\ Lessens(w)
<1>1. WalkInv'
  BY WalkReturnKeeps DEF CollectInv
<1>2. \A v \in Walk \ {w} : SameInAll(v)
  BY DEF WalkReturn, SameInAll, SameWalk, CollectInv, WalkInv, WalkTyped
<1>3. phase'[w] = "idle" /\ twice'[w] = FALSE
  BY DEF WalkReturn, CollectInv, WalkInv, WalkTyped
<1>4. Collects(w)'
  BY <1>3 DEF Collects, CallOK, Calling, Untangled, SteadyOK
<1> QED
  BY <1>1, <1>2, <1>3, <1>4, OneCollects DEF Lessens

(* A call ends early.  If its folder was gone, nothing that was below it   *)
(* is below the folder asked for any more.                                 *)
LEMMA GivesCollects ==
  ASSUME CollectInv, NEW w \in Walk, Calling(w), UNCHANGED vars,
         NEW lost \in SUBSET {n \in Used : ~isFolder[n]}, Gives(w, lost),
         ~Found(dir[w], walker[w]) \/ lost = FilesBelow(dir[w], walker[w])
  PROVE  CollectInv' /\ Lessens(w)
<1>0. WalkInv'
  BY GivesKeeps DEF CollectInv, Calling
<1>1. CASE WalkReturn(w)
  BY <1>1, WalkEndCollects
<1>2. CASE CallReturns(w) /\ missed' = [missed EXCEPT ![w] = @ \cup lost]
           /\ UNCHANGED <<walker, top, dir, found, twice, unpacked, archive, history>>
  <2>1. /\ phase[w] # "idle" /\ phase'[w] = "loop" /\ stack[w] # <<>>
        /\ UNCHANGED <<walker, top, dir, stack, found, twice, tangled, steady>>
        /\ missed'[w] = missed[w] \cup lost
    BY <1>2 DEF CallReturns, Calling, history, CollectInv, WalkInv, WalkTyped
  <2>2. \A v \in Walk \ {w} : SameInAll(v)
    BY <1>2, <2>1 DEF CallReturns, SameInAll, SameWalk, CollectInv, WalkInv, WalkTyped
  <2>3. /\ ~Calling(w)' /\ Pending(w)' = Pending(w)
        /\ Tops(w)' = Pending(w) /\ Tops(w) = Pending(w) \cup {dir[w]}
    BY <2>1 DEF Calling, Pending, Tops
  <2>4. (\A n : Under(w, n)' = Under(w, n)) /\ Due(w)' \subseteq Due(w)
    BY <2>1, <2>3, DueShrinks
  <2>5. CallOK(w)'
    <3>1. Used' = Used
      BY DEF vars, table, Used
    <3> QED
      BY <2>1, <2>3, <3>1 DEF CallOK, Calling, CollectInv, Collects
  <2>6. Untangled(w)'
    <3>1. Apart(w) => Disjoint(stack'[w])
      BY <2>1 DEF Apart
    <3>2. found'[w] \cap Due(w)' \subseteq found[w] \cap Due(w)
      BY <2>1, <2>4
    <3>3. Fresh(w) => ~twice'[w]
      BY <2>1 DEF Fresh
    <3>4. Len(stack'[w]) \in Nat /\ Len(stack'[w]) <= Len(stack[w])
      BY <2>1, DueTypes
    <3>5. top'[w] = top[w] /\ walker'[w] = walker[w] /\ tangled'[w] = tangled[w]
      BY <2>1
    <3> QED
      BY <2>1, <2>3, <3>1, <3>2, <3>3, <3>4, <3>5, StaysUntangled
  <2>7. SteadyOK(w)'
    <3>1. Below(top[w], walker[w])' = Below(top[w], walker[w])
      BY <2>1, SameBelow
    <3>2. \A x : Lead(w, x)' = Lead(w, x)
      BY <2>1, SameLead
    <3>3. /\ steady[w] \subseteq Below(top[w], walker[w])
          /\ steady[w] \subseteq found[w] \cup missed[w] \cup Ahead(w)
          /\ steady[w] \subseteq {n \in Used : ~isFolder[n]}
      BY <2>1 DEF Calling, CollectInv, Collects, SteadyOK, WalkInv, WalkOK
    <3>4. ASSUME NEW n \in steady[w], n \in Lead(w, dir[w]) PROVE n \in lost
      <4>1. dir[w] # top[w] /\ n \in Beneath(dir[w], top[w], walker[w])
        BY <2>1, <3>4 DEF Lead
      <4>2. dir[w] \in Below(top[w], walker[w])
        BY <3>3, <4>1, BeneathLeadsUp
      <4>3. Found(dir[w], walker[w])
        BY <4>2, BelowUnfolds DEF Unfolding, HangsBelow
      <4>4. n \in Below(dir[w], walker[w])
        BY <4>1, BeneathInBelow
      <4> QED
        BY <3>3, <4>3, <4>4 DEF FilesBelow
    <3>5. Ahead(w) = Ahead(w)' \cup Lead(w, dir[w])
      BY <2>3, <3>2 DEF Ahead
    <3>6. steady[w] \subseteq found[w] \cup missed'[w] \cup Ahead(w)'
      BY <2>1, <3>3, <3>4, <3>5
    <3> QED
      BY <2>1, <3>1, <3>3, <3>6 DEF SteadyOK
  <2>8. Lessens(w)
    <3> SUFFICES ASSUME ~tangled[w] PROVE dir[w] \in Due(w) \ Due(w)'
      BY <2>1, <2>4, DueTypes DEF Lessens, Grows
    <3>1. Apart(w)
      BY <2>1 DEF CollectInv, Collects, Untangled
    <3> QED
      BY <2>3, <2>4, <3>1 DEF Apart, Due
  <2> QED
    BY <1>0, <2>2, <2>5, <2>6, <2>7, <2>8, OneCollects DEF Collects
<1> QED
  BY <1>1, <1>2 DEF Gives

LEMMA GetCollects ==
  ASSUME CollectInv, NEW w \in Walk, WalkGet(w)
  PROVE  CollectInv' /\ Lessens(w)
<1>1. CASE ~Found(dir[w], walker[w]) /\ Gives(w, {})
  BY <1>1, GivesCollects DEF WalkGet, Calling
<1>2. CASE Found(dir[w], walker[w])
  <2>0. WalkInv'
    BY WalkGetKeeps DEF CollectInv
  <2>1. /\ phase[w] = "get" /\ phase'[w] = "find"
        /\ UNCHANGED <<vars, walker, top, dir, stack, found, twice, missed, tangled, steady>>
    BY <1>2 DEF WalkGet, history, CollectInv, WalkInv, WalkTyped
  <2>2. \A v \in Walk \ {w} : SameInAll(v)
    BY <1>2, <2>1 DEF WalkGet, SameInAll, SameWalk, CollectInv, WalkInv, WalkTyped
  <2>3. /\ Calling(w) /\ Calling(w)' /\ Pending(w)' = Pending(w) /\ Tops(w)' = Tops(w)
    BY <2>1 DEF Calling, Pending, Tops
  <2>4. /\ \A n : Under(w, n)' = Under(w, n)
        /\ Due(w)' = Due(w)
    BY <2>1, <2>3, DueShrinks DEF Due
  <2>5. CallOK(w)'
    <3>1. Used' = Used /\ UNCHANGED <<owner, isFolder>>
      BY <2>1 DEF vars, table, columns, Used
    <3> QED
      BY <1>2, <2>1, <2>3, <2>4, <3>1 DEF Found, CollectInv, Collects, CallOK
  <2>6. Untangled(w)'
    <3>1. Used' = Used
      BY <2>1 DEF vars, table, Used
    <3>2. Apart(w) => Apart(w)'
      BY <2>1, <2>3, <2>4 DEF Apart
    <3>3. Fresh(w) => Fresh(w)'
      BY <2>1, <2>4, <3>1 DEF Fresh
    <3> QED
      BY <2>1, <3>2, <3>3 DEF CollectInv, Collects, Untangled
  <2>7. Lessens(w)
    BY <2>1, <2>4 DEF Lessens
  <2>8. SteadyOK(w)'
    <3>1. Below(top[w], walker[w])' = Below(top[w], walker[w])
      BY <2>1, SameBelow
    <3>2. \A x : Lead(w, x)' = Lead(w, x)
      BY <2>1, SameLead
    <3>3. Ahead(w)' = Ahead(w)
      BY <2>3, <3>2 DEF Ahead
    <3> QED
      BY <2>1, <3>1, <3>3 DEF CollectInv, Collects, SteadyOK
  <2> QED
    BY <2>0, <2>1, <2>2, <2>5, <2>6, <2>7, <2>8, OneCollects DEF Collects
<1> QED
  BY <1>1, <1>2 DEF WalkGet

(* The children of a folder take its place: they, and what lies below      *)
(* them, lie below it, and all of it is among them.                        *)
LEMMA FindCollects ==
  ASSUME CollectInv, NEW w \in Walk, WalkFind(w)
  PROVE  CollectInv' /\ Lessens(w)
<1> DEFINE C == Children(dir[w], walker[w])
           d == dir[w]
           u == walker[w]
<1>0. WalkInv'
  BY WalkFindKeeps DEF CollectInv
<1>1. /\ phase[w] = "find" /\ phase'[w] = "loop" /\ stack' = [stack EXCEPT ![w] = Append(@, C)]
      /\ stack'[w] = Append(stack[w], C)
      /\ UNCHANGED <<vars, walker, top, dir, found, twice, missed, tangled, steady>>
  BY DEF WalkFind, history, CollectInv, WalkInv, WalkTyped
<1>2. \A v \in Walk \ {w} : SameInAll(v)
  BY <1>1 DEF WalkFind, SameInAll, SameWalk, CollectInv, WalkInv, WalkTyped
<1>3. /\ C \in SUBSET Mine(walker[w])
      /\ \A x \in C : parent[x] = d /\ x \in Below(d, u)
      /\ C = Kids({d}, u)
  BY BelowUnfolds DEF Children, Kids, Found, Mine, Used, Unfolding, HangsBelow
<1> HIDE DEF C
<1>4. /\ Pending(w)' = Pending(w) \cup C
      /\ Disjoint(stack[w]) /\ C \cap Pending(w) = {} => Disjoint(stack'[w])
      /\ Len(stack'[w]) = Len(stack[w]) + 1 /\ Len(stack[w]) \in Nat
  <2>1. stack[w] \in Seq(SUBSET Mine(walker[w])) /\ C \in SUBSET Mine(walker[w])
    BY <1>3, DueTypes
  <2>2. /\ Held(Append(stack[w], C)) = Held(stack[w]) \cup C
        /\ Disjoint(stack[w]) /\ C \cap Held(stack[w]) = {} => Disjoint(Append(stack[w], C))
        /\ Len(Append(stack[w], C)) = Len(stack[w]) + 1 /\ Len(stack[w]) \in Nat
    BY <2>1, Pushed, Zenon
  <2> QED
    BY <1>1, <2>2 DEF Pending
<1>5. /\ Calling(w) /\ ~Calling(w)'
      /\ Tops(w) = Pending(w) \cup {d} /\ Tops(w)' = Pending(w) \cup C
  BY <1>1, <1>4 DEF Calling, Tops
<1>6. Used' = Used /\ UNCHANGED <<status, owner, parent, isFolder>>
  BY <1>1 DEF vars, table, columns, Used
<1>7. \A n : Under(w, n)' = Under(w, n)
  <2>1. \A n : Below(n, walker[w])' = Below(n, walker[w])
    BY <1>1, <1>6 DEF Below, Closed, Kids, Found
  <2> QED
    BY <1>1, <1>6, <2>1 DEF Under
<1>8. /\ top[w] \in Used /\ d \in Used /\ owner[d] = walker[w]
      /\ Under(w, d) = Below(d, u)
  BY <1>1, <1>5, DueTypes DEF CollectInv, Collects, CallOK, Under
<1>9. CallOK(w)'
  BY <1>1, <1>5, <1>6, <1>8 DEF CallOK, Calling
<1>10. ASSUME ~tangled[w]
       PROVE  /\ Apart(w) /\ Fresh(w)
              /\ d \notin Below(d, u) /\ top[w] \notin Below(d, u) /\ d \notin Pending(w)
              /\ \A x \in C : Under(w, x) \subseteq Below(d, u)
  <2>1. Apart(w) /\ Fresh(w)
    BY <1>1, <1>10 DEF CollectInv, Collects, Untangled
  <2>2. d \notin Below(d, u) /\ top[w] \notin Below(d, u) /\ d \notin Pending(w)
    BY <1>5, <1>8, <2>1 DEF Apart
  <2>3. \A x \in C : Under(w, x) \subseteq Below(d, u)
    BY <1>3, <2>2, BelowOfFolder DEF Under
  <2> QED
    BY <2>1, <2>2, <2>3
<1>11. ASSUME ~tangled[w]
       PROVE  Due(w)' \subseteq Due(w) \ {d}
  <2>1. ASSUME NEW n \in Due(w)' PROVE n \in Due(w) /\ n # d
    <3>1. CASE n \in C \/ \E x \in C : n \in Under(w, x)
      <4>1. n \in Below(d, u)
        BY <1>3, <1>10, <1>11, <3>1
      <4> QED
        BY <1>5, <1>8, <1>10, <1>11, <4>1 DEF Due
    <3>2. CASE n \in Pending(w) \/ \E x \in Pending(w) : n \in Under(w, x)
      BY <1>5, <1>10, <1>11, <3>2 DEF Due, Apart
    <3> QED
      BY <1>5, <1>7, <3>1, <3>2 DEF Due
  <2> QED
    BY <2>1
<1>12. Untangled(w)'
  <2> SUFFICES ASSUME ~tangled[w] PROVE Apart(w)' /\ Fresh(w)'
    BY <1>1 DEF Untangled
  <2> USE <1>10
  <2>1. ASSUME NEW x \in Pending(w) \cup C, NEW y \in Pending(w) \cup C
        PROVE  x \notin Under(w, y)
    <3>1. CASE x \in Pending(w) /\ y \in Pending(w)
      BY <1>5, <3>1 DEF Apart
    <3>2. CASE x \in Pending(w) /\ y \in C
      BY <1>5, <1>8, <3>2 DEF Apart
    <3>3. CASE x \in C /\ y \in Pending(w)
      <4>1. y # d /\ y \notin Below(d, u) /\ d \notin Under(w, y)
        BY <1>5, <1>8, <3>3 DEF Apart
      <4>2. Under(w, y) = {} \/ Under(w, y) = Below(y, u)
        BY DEF Under
      <4>3. Under(w, y) \cap Below(d, u) = {}
        BY <4>1, <4>2, BelowApart
      <4> QED
        BY <1>3, <3>3, <4>3
    <3>4. CASE x \in C /\ y \in C
      <4>1. SUFFICES ASSUME x \in Under(w, y) PROVE FALSE
        OBVIOUS
      <4>2. parent[x] = d /\ x \in Below(y, u)
        BY <1>3, <3>4, <4>1 DEF Under
      <4>3. d = y \/ d \in Below(y, u)
        BY <4>2, BelowUnfolds DEF Unfolding, HangsBelow
      <4>4. Below(y, u) = Under(w, y)
        BY <4>1 DEF Under
      <4> QED
        BY <1>3, <3>4, <4>3, <4>4
    <3> QED
      BY <3>1, <3>2, <3>3, <3>4
  <2>2. ASSUME NEW x \in Pending(w) \cup C PROVE top[w] \notin Under(w, x)
    BY <1>5 DEF Apart
  <2>3. top[w] \notin Pending(w) \cup C /\ C \cap Pending(w) = {}
    <3>1. \A x \in C : x \in Under(w, d) /\ x # top[w]
      BY <1>3, <1>8
    <3> QED
      BY <1>5, <3>1 DEF Apart
  <2>4. Apart(w)'
    BY <1>1, <1>4, <1>5, <1>7, <2>1, <2>2, <2>3 DEF Apart
  <2>5. Cardinality(Used' \ Due(w)') >= Len(stack'[w])
    <3> DEFINE A == Used \ Due(w)
               B == Used' \ Due(w)'
    <3>1. d \in Due(w) /\ d \notin A /\ A \cup {d} \subseteq B
      BY <1>5, <1>6, <1>8, <1>11 DEF Due
    <3>2. A \in SUBSET Node /\ B \in SUBSET Node
      BY <1>6 DEF Used
    <3>3. Cardinality(A) >= Len(stack[w])
      BY DEF Fresh
    <3> HIDE DEF A, B
    <3>4. IsFiniteSet(A) /\ Cardinality(A) \in Nat
      BY <3>2, CardOfRows
    <3>5. Cardinality(A \cup {d}) = Cardinality(A) + 1
      BY <3>1, <3>4, FS_AddElement
    <3>6. Cardinality(A \cup {d}) <= Cardinality(B) /\ Cardinality(B) \in Nat
      BY <3>1, <3>2, CardOfRows
    <3>7. Cardinality(B) >= Len(stack'[w])
      BY <1>4, <3>3, <3>4, <3>5, <3>6
    <3> QED
      BY <3>7 DEF B
  <2>6. Fresh(w)'
    BY <1>1, <1>11, <2>5 DEF Fresh
  <2> QED
    BY <2>4, <2>6
<1>13. SteadyOK(w)'
  <2>0. PICK t : t = top[w]
    OBVIOUS
  <2>1. /\ steady[w] \subseteq Below(top[w], u) /\ Below(top[w], walker[w])' = Below(top[w], u)
        /\ steady[w] \subseteq found[w] \cup missed[w] \cup Ahead(w)
    BY <1>1, SameBelow DEF CollectInv, Collects, SteadyOK
  <2>2. stack'[w] # <<>>
    BY <1>4
  <2>3. \A x : Beneath(x, top[w], walker[w])' = Beneath(x, top[w], u)
    BY <1>1, SameBelow
  <2>4. \A x : Lead(w, x)' = IF isFolder[x] /\ x # t THEN Beneath(x, t, u) ELSE {}
    BY <1>1, <1>6, <2>0, <2>2, <2>3 DEF Lead
  <2>5. ASSUME NEW n \in Ahead(w) PROVE n \in Ahead(w)'
    <3>1. CASE n \in Pending(w)
      BY <1>4, <3>1 DEF Ahead
    <3>2. ASSUME NEW x \in Pending(w), n \in Lead(w, x) PROVE n \in Ahead(w)'
      <4>1. stack[w] # <<>>
        <5> SUFFICES ASSUME stack[w] = <<>> PROVE FALSE
          OBVIOUS
        <5>1. Len(stack[w]) = 0
          OBVIOUS
        <5> QED
          BY <3>2, <5>1 DEF Pending, Held
      <4>2. n \in Lead(w, x)'
        BY <2>0, <2>4, <3>2, <4>1 DEF Lead
      <4> QED
        BY <1>5, <3>2, <4>2 DEF Ahead
    <3>3. CASE n \in Lead(w, d)
      <4>1. n \in Beneath(d, t, u)
        BY <2>0, <3>3 DEF Lead
      <4>2. PICK k \in Kids({d}, u) : n = k \/ (isFolder[k] /\ k # t /\ n \in Beneath(k, t, u))
        BY <4>1, BeneathByChild
      <4>3. n = k \/ n \in Lead(w, k)'
        BY <2>4, <4>2
      <4> QED
        BY <1>3, <1>4, <1>5, <4>2, <4>3 DEF Ahead
    <3> QED
      BY <1>5, <3>1, <3>2, <3>3 DEF Ahead
  <2> QED
    BY <1>1, <2>1, <2>5 DEF SteadyOK
<1>14. Lessens(w)
  <2>1. d \in Due(w)
    BY <1>5 DEF Due
  <2> QED
    BY <1>1, <1>4, <1>11, <2>1 DEF Lessens, Grows
<1> QED
  BY <1>0, <1>1, <1>2, <1>9, <1>12, <1>13, <1>14, OneCollects DEF Collects

LEMMA ChildCollects ==
  ASSUME CollectInv, NEW w \in Walk, phase[w] = "loop", stack[w] # <<>>,
         WalkChild(w), UNCHANGED <<vars, unpacked, archive, history>>
  PROVE  CollectInv' /\ Lessens(w)
<1>0. WalkInv'
  BY WalkChildKeeps DEF CollectInv
<1>1. PICK n \in Innermost(w) :
        /\ TakeChild(w, n)
        /\ \/ /\ Recurses(n)
              /\ phase' = [phase EXCEPT ![w] = "get"]
              /\ dir' = [dir EXCEPT ![w] = n]
              /\ UNCHANGED <<found, twice, missed>>
           \/ /\ ~Recurses(n)
              /\ found' = [found EXCEPT ![w] = @ \cup {n}]
              /\ twice' = [twice EXCEPT ![w] = @ \/ n \in found[w]]
              /\ UNCHANGED <<phase, dir, missed>>
           \/ /\ ~Recurses(n)
              /\ missed' = [missed EXCEPT ![w] = @ \cup {n}]
              /\ UNCHANGED <<phase, dir, found, twice>>
        /\ UNCHANGED <<walker, top>>
  BY DEF WalkChild
<1> DEFINE rest == Last(stack[w]) \ {n}
           frames == Append(Front(stack[w]), rest)
<1>2. /\ stack'[w] = frames
      /\ UNCHANGED <<vars, walker, top, tangled, steady>>
      /\ \A v \in Walk \ {w} : SameInAll(v)
  BY <1>1 DEF TakeChild, Innermost, history, SameInAll, SameWalk, CollectInv, WalkInv, WalkTyped
<1>3. \/ /\ isFolder[n] /\ phase'[w] = "get" /\ dir'[w] = n
         /\ UNCHANGED <<found, twice, missed>>
      \/ /\ ~isFolder[n] /\ found'[w] = found[w] \cup {n}
         /\ twice'[w] = (twice[w] \/ n \in found[w])
         /\ UNCHANGED <<phase, dir, missed>>
      \/ /\ ~isFolder[n] /\ missed'[w] = missed[w] \cup {n}
         /\ UNCHANGED <<phase, dir, found, twice>>
  BY <1>1 DEF Recurses, CollectInv, WalkInv, WalkTyped
<1>4. /\ Pending(w) = Held(Front(stack[w])) \cup Last(stack[w])
      /\ Disjoint(stack[w]) =>
           Disjoint(Front(stack[w])) /\ Last(stack[w]) \cap Held(Front(stack[w])) = {}
      /\ Len(Front(stack[w])) + 1 = Len(stack[w]) /\ Len(stack[w]) \in Nat
      /\ Front(stack[w]) \in Seq(SUBSET Mine(walker[w]))
      /\ Last(stack[w]) \in SUBSET Mine(walker[w])
  <2>1. stack[w] \in Seq(SUBSET Mine(walker[w])) /\ Len(stack[w]) \in Nat
    BY DueTypes
  <2>2. /\ Held(stack[w]) = Held(Front(stack[w])) \cup Last(stack[w])
        /\ Disjoint(stack[w]) =>
             Disjoint(Front(stack[w])) /\ Last(stack[w]) \cap Held(Front(stack[w])) = {}
        /\ Len(Front(stack[w])) + 1 = Len(stack[w])
        /\ Front(stack[w]) \in Seq(SUBSET Mine(walker[w]))
        /\ Last(stack[w]) \in SUBSET Mine(walker[w])
    BY <2>1, Popped, Zenon
  <2> QED
    BY <2>1, <2>2 DEF Pending
<1>5. /\ Held(frames) = Held(Front(stack[w])) \cup rest
      /\ Disjoint(Front(stack[w])) /\ rest \cap Held(Front(stack[w])) = {} => Disjoint(frames)
      /\ Len(frames) = Len(Front(stack[w])) + 1
  <2>1. rest \in SUBSET Mine(walker[w])
    BY <1>4
  <2>2. Front(stack[w]) \in Seq(SUBSET Mine(walker[w]))
    BY <1>4
  <2> HIDE DEF rest
  <2>3. /\ Held(Append(Front(stack[w]), rest)) = Held(Front(stack[w])) \cup rest
        /\ Disjoint(Front(stack[w])) /\ rest \cap Held(Front(stack[w])) = {}
             => Disjoint(Append(Front(stack[w]), rest))
        /\ Len(Append(Front(stack[w]), rest)) = Len(Front(stack[w])) + 1
        /\ Len(Front(stack[w])) \in Nat
    BY <2>1, <2>2, Pushed, Zenon
  <2> QED
    BY <2>3
<1> HIDE DEF frames
<1>6. n \in Last(stack[w]) /\ n \in Pending(w) /\ owner[n] = walker[w]
  BY <1>4 DEF Innermost, Mine
<1>7. Pending(w)' \subseteq Pending(w) /\ Pending(w) \subseteq Pending(w)' \cup {n}
  BY <1>2, <1>4, <1>5 DEF Pending
<1>8. Disjoint(stack[w]) => Disjoint(stack'[w]) /\ n \notin Pending(w)'
  BY <1>2, <1>4, <1>5, <1>6 DEF Pending
<1>9. Len(stack'[w]) = Len(stack[w])
  BY <1>2, <1>4, <1>5
<1> HIDE DEF rest
<1>10. /\ ~Calling(w) /\ Tops(w) = Pending(w)
       /\ isFolder[n] => Calling(w)' /\ Tops(w)' = Pending(w)
       /\ ~isFolder[n] => ~Calling(w)' /\ Tops(w)' = Pending(w)'
  BY <1>3, <1>6, <1>7 DEF Calling, Tops
<1>11. Tops(w)' \subseteq Tops(w)
  BY <1>7, <1>10
<1>12. (\A x : Under(w, x)' = Under(w, x)) /\ Due(w)' \subseteq Due(w)
  BY <1>2, <1>11, DueShrinks
<1>13. Used' = Used /\ UNCHANGED <<owner, isFolder>>
  BY <1>2 DEF vars, table, columns, Used
<1>14. CallOK(w)'
  <2>1. /\ phase'[w] # "idle" /\ phase'[w] # "find" /\ top'[w] \in Used'
        /\ stack'[w] # <<>>
    BY <1>2, <1>3, <1>4, <1>5, <1>13 DEF CollectInv, Collects, CallOK
  <2> QED
    BY <1>2, <1>3, <1>6, <1>10, <1>13, <2>1 DEF CallOK
<1>15. ASSUME Apart(w), ~isFolder[n] PROVE n \notin Due(w)'
  <2>1. n \notin Tops(w)'
    BY <1>8, <1>10, <1>15 DEF Apart
  <2>2. \A x \in Tops(w)' : n \notin Under(w, x)
    BY <1>6, <1>10, <1>11, <1>15 DEF Apart
  <2> QED
    BY <1>12, <2>1, <2>2 DEF Due
<1>16. Untangled(w)'
  <2>1. ASSUME Apart(w)
        PROVE  /\ Disjoint(stack'[w])
               /\ Calling(w)' => dir'[w] \notin Pending(w)' /\ dir'[w] # top[w]
               /\ found'[w] \cap Due(w)' \subseteq found[w] \cap Due(w)
    <3>1. Disjoint(stack'[w]) /\ n \notin Pending(w)'
      BY <1>8, <2>1 DEF Apart
    <3>2. Calling(w)' => dir'[w] = n /\ n # top[w]
      BY <1>3, <1>6, <1>10, <2>1 DEF Apart
    <3>3. found'[w] \cap Due(w)' \subseteq found[w] \cap Due(w)
      BY <1>3, <1>12, <1>15, <2>1
    <3> QED
      BY <3>1, <3>2, <3>3
  <2>2. ASSUME Apart(w), Fresh(w) PROVE ~twice'[w]
    <3>1. ~twice[w] /\ n \notin found[w]
      BY <1>6, <1>10, <2>2 DEF Fresh, Due
    <3> QED
      BY <1>3, <3>1
  <2>3. top'[w] = top[w] /\ walker'[w] = walker[w] /\ tangled'[w] = tangled[w] /\ phase[w] # "idle"
        /\ Len(stack'[w]) \in Nat /\ Len(stack'[w]) <= Len(stack[w])
    BY <1>2, <1>4, <1>9
  <2> QED
    BY <1>2, <1>7, <1>11, <2>1, <2>2, <2>3, StaysUntangled
<1>17. SteadyOK(w)'
  <2>1. /\ steady[w] \subseteq Below(top[w], walker[w])
        /\ Below(top[w], walker[w])' = Below(top[w], walker[w])
        /\ steady[w] \subseteq found[w] \cup missed[w] \cup Ahead(w)
        /\ \A x \in steady[w] : ~isFolder[x]
    BY <1>2, SameBelow DEF CollectInv, Collects, SteadyOK, WalkInv, WalkOK
  <2>2. stack'[w] # <<>>
    BY <1>4, <1>9
  <2>3. \A x : Lead(w, x)' = Lead(w, x)
    BY <1>2, <2>2, SameLead
  <2>4. ~isFolder[n] => Lead(w, n) = {}
    BY DEF Lead
  <2>5. ASSUME NEW x \in steady[w], x \in Ahead(w)
        PROVE  x \in Ahead(w)' \/ (x = n /\ ~isFolder[n])
    <3>1. CASE x \in Pending(w)
      BY <1>7, <2>1, <3>1 DEF Ahead
    <3>2. ASSUME NEW y \in Tops(w), x \in Lead(w, y) PROVE x \in Ahead(w)'
      <4>1. y \in Tops(w)'
        BY <1>7, <1>10, <2>4, <3>2
      <4> QED
        BY <2>3, <3>2, <4>1 DEF Ahead
    <3> QED
      BY <2>5, <3>1, <3>2 DEF Ahead
  <2>6. ~isFolder[n] => n \in found'[w] \cup missed'[w]
    BY <1>3
  <2>7. found[w] \subseteq found'[w] /\ missed[w] \subseteq missed'[w]
    BY <1>3
  <2>8. phase'[w] # "zip"
    BY <1>3
  <2> QED
    BY <1>2, <2>1, <2>5, <2>6, <2>7, <2>8 DEF SteadyOK
<1>18. Lessens(w)
  <2>1. CASE isFolder[n]
    BY <1>3, <1>9, <1>12, <2>1 DEF Lessens
  <2>2. CASE ~isFolder[n] /\ ~tangled[w]
    <3>1. n \in Due(w) \ Due(w)'
      BY <1>6, <1>10, <1>15, <2>2 DEF Due, CollectInv, Collects, Untangled
    <3>2. found'[w] \subseteq found[w] \cup {n}
      BY <1>3, <2>2
    <3>3. Len(stack'[w]) <= Len(stack[w]) + 1
      BY <1>4, <1>9
    <3> QED
      BY <1>12, <3>1, <3>2, <3>3 DEF Lessens, Grows
  <2> QED
    BY <2>1, <2>2 DEF Lessens
<1> QED
  BY <1>0, <1>2, <1>14, <1>16, <1>17, <1>18, OneCollects DEF Collects

LEMMA UpCollects ==
  ASSUME CollectInv, NEW w \in Walk, phase[w] = "loop", stack[w] # <<>>,
         WalkUp(w), UNCHANGED <<vars, unpacked, archive, history>>
  PROVE  CollectInv' /\ Lessens(w)
<1>0. WalkInv'
  BY WalkUpKeeps DEF CollectInv
<1>1. /\ stack'[w] = Front(stack[w]) /\ Last(stack[w]) = {}
      /\ UNCHANGED <<vars, phase, walker, top, dir, found, twice, missed, tangled, steady>>
      /\ \A v \in Walk \ {w} : SameInAll(v)
  BY DEF WalkUp, Innermost, history, SameInAll, SameWalk, CollectInv, WalkInv, WalkTyped
<1>2. /\ Pending(w)' = Pending(w)
      /\ Disjoint(stack[w]) => Disjoint(stack'[w])
      /\ Len(stack'[w]) \in Nat /\ Len(stack'[w]) < Len(stack[w])
      /\ Len(stack'[w]) <= Len(stack[w])
  <2>1. stack[w] \in Seq(SUBSET Mine(walker[w])) /\ Len(stack[w]) \in Nat
    BY DueTypes
  <2>2. /\ Held(stack[w]) = Held(Front(stack[w])) \cup Last(stack[w])
        /\ Disjoint(stack[w]) => Disjoint(Front(stack[w]))
        /\ Len(Front(stack[w])) + 1 = Len(stack[w])
        /\ Front(stack[w]) \in Seq(SUBSET Mine(walker[w]))
    BY <2>1, Popped, Zenon
  <2>3. Len(Front(stack[w])) \in Nat
    BY <2>2
  <2> QED
    BY <1>1, <2>1, <2>2, <2>3 DEF Pending
<1>3. ~Calling(w) /\ ~Calling(w)' /\ Tops(w)' = Tops(w)
  BY <1>1, <1>2 DEF Calling, Tops
<1>4. (\A x : Under(w, x)' = Under(w, x)) /\ Due(w)' = Due(w)
  BY <1>1, <1>3, DueShrinks DEF Due
<1>5. CallOK(w)'
  <2>1. Used' = Used
    BY <1>1 DEF vars, table, Used
  <2> QED
    BY <1>1, <1>3, <2>1 DEF CollectInv, Collects, CallOK
<1>6. SteadyOK(w)'
  <2>1. Below(top[w], walker[w])' = Below(top[w], walker[w])
    BY <1>1, SameBelow
  <2>2. Ahead(w) \subseteq Ahead(w)'
    <3>1. CASE stack'[w] # <<>>
      <4>1. \A x : Lead(w, x)' = Lead(w, x)
        BY <1>1, <3>1, SameLead
      <4> QED
        BY <1>2, <1>3, <4>1 DEF Ahead
    <3>2. CASE stack'[w] = <<>>
      <4>1. Len(stack'[w]) = 0
        BY <3>2
      <4>2. Pending(w)' = {}
        BY <4>1 DEF Pending, Held
      <4> QED
        BY <1>2, <1>3, <4>2 DEF Ahead, Tops
    <3> QED
      BY <3>1, <3>2
  <2> QED
    BY <1>1, <2>1, <2>2 DEF CollectInv, Collects, SteadyOK
<1>7. Untangled(w)'
  <2>1. Apart(w) => Disjoint(stack'[w])
    BY <1>2 DEF Apart
  <2>2. Fresh(w) => ~twice'[w]
    BY <1>1 DEF Fresh
  <2>3. top'[w] = top[w] /\ walker'[w] = walker[w] /\ tangled'[w] = tangled[w] /\ phase[w] # "idle"
    BY <1>1
  <2>4. found'[w] \cap Due(w)' \subseteq found[w] \cap Due(w)
    BY <1>1, <1>4
  <2> QED
    BY <1>1, <1>2, <1>3, <2>1, <2>2, <2>3, <2>4, StaysUntangled
<1>8. Lessens(w)
  BY <1>1, <1>2, <1>4 DEF Lessens
<1> QED
  BY <1>0, <1>1, <1>5, <1>6, <1>7, <1>8, OneCollects DEF Collects

(* The zip is begun with what was collected, and written. *)
LEMMA PackCollects ==
  ASSUME CollectInv, NEW w \in Walk, WalkPack(w)
  PROVE  CollectInv'
<1>0. WalkInv'
  BY WalkPackKeeps DEF CollectInv
<1>1. CASE WalkReturn(w)
  BY <1>1, WalkEndCollects DEF WalkPack
<1>2. CASE ~WalkReturn(w)
  <2>1. /\ phase[w] = "loop" /\ stack[w] = <<>>
        /\ phase'[w] = "zip" /\ unpacked'[w] = found[w]
        /\ UNCHANGED <<vars, walker, top, dir, stack, found, twice, missed, tangled, steady>>
        /\ \A v \in Walk \ {w} : SameInAll(v)
    BY <1>2 DEF WalkPack, history, SameInAll, SameWalk, CollectInv, WalkInv, WalkTyped
  <2>2. /\ ~Calling(w) /\ ~Calling(w)' /\ Pending(w)' = Pending(w) /\ Pending(w) = {}
    <3>1. Len(stack[w]) = 0
      BY <2>1
    <3> QED
      BY <2>1, <3>1 DEF Calling, Pending, Held
  <2>3. Tops(w) = {} /\ Tops(w)' = {}
    BY <2>2 DEF Tops
  <2>4. CallOK(w)'
    <3>1. Used' = Used
      BY <2>1 DEF vars, table, Used
    <3> QED
      BY <2>1, <2>2, <3>1 DEF CollectInv, Collects, CallOK
  <2>5. Untangled(w)'
    <3>1. Due(w)' = Due(w)
      BY <2>3 DEF Due
    <3>2. Len(stack'[w]) \in Nat /\ Len(stack'[w]) <= Len(stack[w])
      BY <2>1, DueTypes
    <3>3. Apart(w) => Disjoint(stack'[w])
      BY <2>1 DEF Apart
    <3>4. Fresh(w) => ~twice'[w]
      BY <2>1 DEF Fresh
    <3> QED
      BY <2>1, <2>2, <2>3, <3>1, <3>2, <3>3, <3>4, StaysUntangled
  <2>6. SteadyOK(w)'
    <3>1. Below(top[w], walker[w])' = Below(top[w], walker[w])
      BY <2>1, SameBelow
    <3>2. Ahead(w) = {}
      BY <2>2, <2>3 DEF Ahead
    <3> QED
      BY <2>1, <3>1, <3>2 DEF CollectInv, Collects, SteadyOK
  <2> QED
    BY <1>0, <2>1, <2>4, <2>5, <2>6, OneCollects DEF Collects
<1> QED
  BY <1>1, <1>2

LEMMA ZipCollects ==
  ASSUME CollectInv, NEW w \in Walk, WalkZip(w)
  PROVE  /\ CollectInv'
         /\ phase'[w] = "zip" /\ UNCHANGED vars
         /\ ~tangled[w] => \E n \in unpacked[w] : unpacked'[w] = unpacked[w] \ {n}
<1>0. WalkInv'
  BY WalkZipKeeps DEF CollectInv
<1>1. PICK n \in unpacked[w] :
        /\ phase[w] = "zip" /\ Packed(w, n)
        /\ \/ archive' = [archive EXCEPT ![w] = @ \cup {n}] /\ UNCHANGED missed
           \/ missed' = [missed EXCEPT ![w] = @ \cup {n}] /\ UNCHANGED archive
        /\ UNCHANGED <<vars, phase, walker, top, dir, stack, found, twice, history>>
  BY DEF WalkZip
<1>2. UNCHANGED <<tangled, steady>>
  BY <1>1 DEF history
<1>3. /\ archive[w] \cup missed[w] \cup {n} \subseteq archive'[w] \cup missed'[w]
      /\ \A v \in Walk \ {w} : archive'[v] = archive[v] /\ missed'[v] = missed[v]
  BY <1>1 DEF CollectInv, WalkInv, WalkTyped
<1>4. PICK once \in {TRUE, ~twice[w]} :
        unpacked' = [unpacked EXCEPT ![w] = IF once THEN @ \ {n} ELSE @]
  BY <1>1 DEF Packed
<1>5. /\ unpacked[w] \subseteq unpacked'[w] \cup {n}
      /\ ~twice[w] => unpacked'[w] = unpacked[w] \ {n}
      /\ \A v \in Walk \ {w} : unpacked'[v] = unpacked[v]
  BY <1>4 DEF CollectInv, WalkInv, WalkTyped
<1>6. \A v \in Walk \ {w} : SameInAll(v)
  BY <1>1, <1>2, <1>3, <1>5 DEF SameInAll, SameWalk
<1>7. /\ ~Calling(w) /\ ~Calling(w)' /\ Pending(w)' = Pending(w) /\ Tops(w)' = Tops(w)
  BY <1>1 DEF Calling, Pending, Tops
<1>8. Due(w)' \subseteq Due(w)
  BY <1>1, <1>7, DueShrinks
<1>9. CallOK(w)'
  <2>1. Used' = Used
    BY <1>1 DEF vars, table, Used
  <2> QED
    BY <1>1, <1>7, <2>1 DEF CollectInv, Collects, CallOK
<1>10. Untangled(w)'
  <2>1. Len(stack'[w]) \in Nat /\ Len(stack'[w]) <= Len(stack[w])
    BY <1>1, DueTypes
  <2>2. Apart(w) => Disjoint(stack'[w])
    BY <1>1 DEF Apart
  <2>3. Fresh(w) => ~twice'[w]
    BY <1>1 DEF Fresh
  <2>4. found'[w] \cap Due(w)' \subseteq found[w] \cap Due(w)
    BY <1>1, <1>8
  <2> QED
    BY <1>1, <1>2, <1>7, <2>1, <2>2, <2>3, <2>4, StaysUntangled
<1>11. SteadyOK(w)'
  <2>1. Below(top[w], walker[w])' = Below(top[w], walker[w])
    BY <1>1, SameBelow
  <2>2. steady[w] \subseteq archive[w] \cup unpacked[w] \cup missed[w]
    BY <1>1 DEF CollectInv, Collects, SteadyOK
  <2>3. steady[w] \subseteq archive'[w] \cup unpacked'[w] \cup missed'[w]
    BY <1>3, <1>5, <2>2
  <2> QED
    BY <1>1, <1>2, <2>1, <2>3 DEF CollectInv, Collects, SteadyOK
<1>12. ~tangled[w] => ~twice[w]
  BY <1>1 DEF CollectInv, Collects, Untangled, Fresh
<1> QED
  BY <1>0, <1>1, <1>5, <1>6, <1>9, <1>10, <1>11, <1>12, OneCollects DEF Collects

(* The process stops, and every walk with it. *)
LEMMA OverflowCollects ==
  ASSUME CollectInv, NEW w \in Walk, Overflow(w)
  PROVE  CollectInv'
<1>1. WalkInv'
  BY OverflowKeeps DEF CollectInv
<1>2. ASSUME NEW v \in Walk PROVE Collects(v)'
  <2>1. phase'[v] = "idle" /\ ~twice'[v]
    BY DEF Overflow
  <2> QED
    BY <2>1 DEF Collects, CallOK, Calling, Untangled, SteadyOK
<1> QED
  BY <1>1, <1>2 DEF CollectInv

(* A walk begins with all that is below the folder due. *)
LEMMA AskCollects ==
  ASSUME CollectInv, NEW w \in Walk, AskWalk(w)
  PROVE  CollectInv'
<1>0. WalkInv'
  BY AskWalkKeeps DEF CollectInv
<1>1. PICK u \in User, n \in Used :
        /\ phase[w] = "idle" /\ phase'[w] = "get"
        /\ walker'[w] = u /\ top'[w] = n /\ dir'[w] = n
        /\ tangled'[w] = (n \in Below(n, u)) /\ steady'[w] = FilesBelow(n, u)
        /\ UNCHANGED <<vars, stack, found, twice, missed>>
        /\ \A v \in Walk \ {w} : SameInAll(v)
  BY DEF AskWalk, SameInAll, SameWalk, CollectInv, WalkInv, WalkTyped
<1>2. stack'[w] = <<>> /\ found'[w] = {} /\ ~twice'[w]
  BY <1>1 DEF CollectInv, WalkInv, WalkOK, Collects, CallOK
<1>3. Used' = Used /\ UNCHANGED <<status, owner, parent, isFolder>>
  BY <1>1 DEF vars, table, columns, Used
<1>4. /\ Calling(w)' /\ Pending(w)' = {} /\ Tops(w)' = {n} /\ Disjoint(stack'[w])
      /\ Len(stack'[w]) = 0
  BY <1>1, <1>2 DEF Calling, Pending, Held, Tops, Disjoint
<1>5. /\ Below(n, walker[w])' = Below(n, u) /\ Below(top[w], walker[w])' = Below(n, u)
      /\ Beneath(n, top[w], walker[w])' = Beneath(n, n, u)
  BY <1>1, <1>3 DEF Below, Closed, Beneath, Fenced, Kids, Found
<1>6. Under(w, n)' = Below(n, u) /\ Due(w)' = {n} \cup Below(n, u)
  BY <1>1, <1>4, <1>5 DEF Under, Due
<1>7. CallOK(w)'
  BY <1>1, <1>2, <1>3 DEF CallOK
<1>8. Untangled(w)'
  <2> SUFFICES ASSUME n \notin Below(n, u) PROVE Apart(w)' /\ Fresh(w)'
    BY <1>1 DEF Untangled
  <2>1. Apart(w)'
    BY <1>1, <1>2, <1>4, <1>6 DEF Apart
  <2>2. Cardinality(Used' \ Due(w)') \in Nat
    BY <1>3, CardOfRows DEF Used
  <2> QED
    BY <1>2, <1>4, <2>1, <2>2 DEF Fresh
<1>9. SteadyOK(w)'
  <2>1. Lead(w, n)' = Beneath(n, n, u)
    BY <1>1, <1>2, <1>5 DEF Lead
  <2>2. Beneath(n, n, u) \subseteq Ahead(w)'
    BY <1>4, <2>1 DEF Ahead
  <2>3. steady'[w] \subseteq Below(n, u) /\ Below(n, u) \subseteq Beneath(n, n, u)
    BY <1>1, BelowInBeneath DEF FilesBelow
  <2> QED
    BY <1>1, <1>5, <2>2, <2>3 DEF SteadyOK
<1> QED
  BY <1>0, <1>1, <1>7, <1>8, <1>9, OneCollects DEF Collects

(* A step of another handler.  A file that stays below the folder by the   *)
(* same way stays beneath the entry it is ahead with.  And as long as no   *)
(* entry is moved or adopted, what was in the table gets below nothing it  *)
(* was not below.                                                          *)
LEMMA TreeCollects ==
  ASSUME CollectInv, TreeStep
  PROVE  /\ CollectInv'
         /\ \A w \in Walk : phase[w] # "idle" /\ ~tangled'[w] =>
              Due(w)' \cap Used \subseteq Due(w)
<1>0. WalkInv' /\ IInv /\ Next
  BY TreeStepKeeps DEF CollectInv, WalkInv, TreeStep
<1>1. RowsLast
  BY <1>0, TreeChange
<1>2. UNCHANGED <<phase, walker, top, dir, stack, found, twice, unpacked, archive, missed>>
  BY DEF TreeStep, walkState
<1>3. ASSUME NEW w \in Walk
      PROVE  /\ Collects(w)'
             /\ phase[w] # "idle" /\ ~tangled'[w] => Due(w)' \cap Used \subseteq Due(w)
  <2>0. Collects(w)
    BY DEF CollectInv
  <2>1. PICK t, u : t = top[w] /\ u = walker[w]
    OBVIOUS
  <2>2. /\ tangled'[w] = (phase[w] # "idle" /\ (tangled[w] \/ Moved # {} \/ Adopted # {}))
        /\ steady'[w] = {n \in steady[w] : n \in Below(t, u)' /\ ~Displaced(n, t, u)}
    <3>1. /\ tangled'[w] = (phase[w] # "idle" /\ (tangled[w] \/ Moved # {} \/ Adopted # {}))
          /\ steady'[w] = {n \in steady[w] : /\ n \in Below(top[w], walker[w])'
                                            /\ ~Displaced(n, top[w], walker[w])}
      BY DEF TreeStep
    <3>2. Below(top[w], walker[w])' = Below(t, u)'
      BY <1>2, <2>1 DEF Below, Closed, Kids, Found
    <3> QED
      BY <2>1, <3>1, <3>2
  <2>3. /\ Calling(w)' = Calling(w) /\ Pending(w)' = Pending(w) /\ Tops(w)' = Tops(w)
    BY <1>2 DEF Calling, Pending, Tops, Held
  <2>4. /\ phase[w] # "idle" => dir[w] \in Used /\ top[w] \in Used /\ Tops(w) \subseteq Used
        /\ found[w] \subseteq Used
    BY <2>0, DueTypes DEF Collects, CallOK
  <2>5. CallOK(w)'
    BY <1>1, <1>2, <2>0, <2>3, <2>4 DEF RowsLast, Collects, CallOK, Calling
  <2>6. SteadyOK(w)'
    <3>1. CASE phase[w] = "idle"
      BY <1>2, <3>1 DEF SteadyOK
    <3>2. CASE phase[w] # "idle"
      <4>1. steady[w] \subseteq Below(t, u)
        BY <2>0, <2>1, <3>2 DEF Collects, SteadyOK
      <4>2. steady'[w] \subseteq Below(top[w], walker[w])'
        <5>1. Below(top[w], walker[w])' = Below(t, u)'
          BY <1>2, <2>1 DEF Below, Closed, Kids, Found
        <5> QED
          BY <2>2, <5>1
      <4>3. ASSUME NEW n \in steady'[w], n \in Ahead(w) PROVE n \in Ahead(w)'
        <5>1. CASE n \in Pending(w)
          BY <2>3, <5>1 DEF Ahead
        <5>2. ASSUME NEW x \in Tops(w), n \in Lead(w, x) PROVE n \in Ahead(w)'
          <6>1. n \in Beneath(x, t, u) /\ ((isFolder[x] /\ x # t) \/ (stack[w] = <<>> /\ x = t))
            BY <2>1, <5>2 DEF Lead
          <6>2. n \in Beneath(x, t, u)'
            BY <1>0, <2>2, <4>1, <4>3, <6>1, WaysStay
          <6>3. Beneath(x, top[w], walker[w])' = Beneath(x, t, u)'
            BY <1>2, <2>1 DEF Beneath, Fenced, Kids, Found
          <6>4. isFolder'[x] = isFolder[x]
            BY <1>1, <2>4, <3>2, <5>2 DEF RowsLast
          <6>5. n \in Lead(w, x)'
            BY <1>2, <2>1, <6>1, <6>2, <6>3, <6>4 DEF Lead
          <6> QED
            BY <2>3, <5>2, <6>5 DEF Ahead
        <5> QED
          BY <4>3, <5>1, <5>2 DEF Ahead
      <4>4. steady'[w] \subseteq steady[w]
        BY <2>2
      <4> QED
        BY <1>2, <2>0, <4>2, <4>3, <4>4 DEF Collects, SteadyOK
    <3> QED
      BY <3>1, <3>2
  <2>7. CASE phase[w] = "idle" \/ tangled'[w]
    BY <1>2, <2>5, <2>6, <2>7 DEF Collects, Untangled
  <2>8. CASE phase[w] # "idle" /\ ~tangled'[w]
    <3>1. Unmoved /\ Adopted = {} /\ ~tangled[w] /\ Apart(w) /\ Fresh(w)
      BY <2>0, <2>2, <2>8 DEF Unmoved, Moved, Collects, Untangled
    <3>2. ASSUME NEW x \in Tops(w)
          PROVE  Under(w, x)' \cap Used \subseteq Under(w, x)
      <4>1. x \in Used /\ isFolder'[x] = isFolder[x]
        BY <1>1, <2>4, <2>8 DEF RowsLast
      <4>2. Below(x, u)' \cap Used \subseteq Below(x, u)
        BY <1>0, <3>1, <4>1, NothingComesBelow
      <4>3. Below(x, walker[w])' = Below(x, u)'
        BY <1>2, <2>1 DEF Below, Closed, Kids, Found
      <4> QED
        BY <1>2, <2>1, <4>1, <4>2, <4>3 DEF Under
    <3>3. Due(w)' \cap Used \subseteq Due(w)
      BY <2>3, <3>2 DEF Due
    <3>4. Apart(w)'
      <4>1. \A x, y \in Tops(w) : x \notin Under(w, y)'
        BY <2>4, <2>8, <3>1, <3>2 DEF Apart
      <4>2. \A x \in Tops(w) : top[w] \notin Under(w, x)'
        BY <2>4, <2>8, <3>1, <3>2 DEF Apart
      <4> QED
        BY <1>2, <2>3, <3>1, <4>1, <4>2 DEF Apart
    <3>5. Fresh(w)'
      <4>1. Used \subseteq Used'
        BY <1>1 DEF RowsLast
      <4>2. Used \ Due(w) \in SUBSET (Used' \ Due(w)') /\ Used' \ Due(w)' \in SUBSET Node
        BY <3>3, <4>1 DEF Used
      <4>3. Cardinality(Used \ Due(w)) <= Cardinality(Used' \ Due(w)')
            /\ Cardinality(Used \ Due(w)) \in Nat /\ Cardinality(Used' \ Due(w)') \in Nat
        BY <4>2, CardOfRows
      <4>4. Len(stack[w]) \in Nat
        BY DueTypes
      <4> QED
        BY <1>2, <2>4, <3>1, <3>3, <4>3, <4>4 DEF Fresh
    <3> QED
      BY <2>5, <2>6, <3>3, <3>4, <3>5 DEF Collects, Untangled
  <2> QED
    BY <2>7, <2>8
<1> QED
  BY <1>0, <1>3 DEF CollectInv

LEMMA InitCollectInv == DownloadInit => CollectInv
<1> SUFFICES ASSUME DownloadInit PROVE CollectInv
  OBVIOUS
<1>1. WalkInv
  BY InitWalkInv
<1>2. ASSUME NEW w \in Walk PROVE Collects(w)
  <2>1. phase[w] = "idle" /\ ~twice[w]
    BY DEF DownloadInit
  <2> QED
    BY <2>1 DEF Collects, CallOK, Calling, Untangled, SteadyOK
<1> QED
  BY <1>1, <1>2 DEF CollectInv

LEMMA NextCollectInv == CollectInv /\ [DownloadNext]_downloadVars => CollectInv'
<1> SUFFICES ASSUME CollectInv, [DownloadNext]_downloadVars PROVE CollectInv'
  OBVIOUS
<1>1. ASSUME NEW w \in Walk, WalkLoop(w) PROVE CollectInv'
  BY <1>1, ChildCollects, UpCollects DEF WalkLoop
<1>2. ASSUME NEW w \in Walk, WalkReply(w) PROVE CollectInv'
  BY <1>2, WalkEndCollects DEF WalkReply
<1>3. ASSUME NEW w \in Walk, WalkFails(w) PROVE CollectInv'
  BY <1>3, GivesCollects, FilesOfFolder DEF WalkFails, Calling
<1>4. ASSUME NEW w \in Walk, WalkStep(w) PROVE CollectInv'
  BY <1>1, <1>2, <1>3, <1>4, GetCollects, FindCollects, PackCollects,
     ZipCollects, OverflowCollects DEF WalkStep
<1>5. CASE UNCHANGED downloadVars
  <2>1. UNCHANGED vars /\ UNCHANGED <<phase, walker, top, dir, stack, found, twice,
                                      unpacked, archive, missed, tangled, steady>>
    BY <1>5 DEF downloadVars, walkState, history
  <2>2. WalkInv'
    BY <1>5, NextWalkInv DEF CollectInv
  <2>3. \A v \in Walk : SameInAll(v)
    BY <2>1 DEF SameInAll, SameWalk
  <2> QED
    BY <2>1, <2>2, <2>3, SameCollects DEF CollectInv
<1> QED
  BY <1>4, <1>5, TreeCollects, AskCollects DEF DownloadNext

(* What is collected, what is due and what is done fit together. *)
THEOREM CollectInvariance == DownloadSpec => []CollectInv
<1> QED
  BY InitCollectInv, NextCollectInv, PTL DEF DownloadSpec

(* A walk at its end has nothing on its stack, and so nothing ahead. *)
LEMMA NothingAheadAtEnd == CollectInv => SteadyFilesFound
<1> SUFFICES ASSUME CollectInv, NEW w \in Walk, Answers(w)
             PROVE  steady[w] \subseteq archive[w] \cup missed[w]
  BY DEF SteadyFilesFound
<1>1. CASE phase[w] = "zip" /\ unpacked[w] = {}
  BY <1>1 DEF CollectInv, Collects, SteadyOK
<1>2. CASE phase[w] = "loop" /\ stack[w] = <<>> /\ found[w] = {}
  <2>1. Len(stack[w]) = 0
    BY <1>2
  <2>2. Ahead(w) = {}
    BY <1>2, <2>1 DEF Ahead, Tops, Pending, Held, Calling
  <2> QED
    BY <1>2, <2>2 DEF CollectInv, Collects, SteadyOK
<1> QED
  BY <1>1, <1>2 DEF Answers

(* The archive (file_download_logic.go) has every file that was below the  *)
(* folder by the same way all the time, in any tree, with cycles too, and  *)
(* whatever other handlers did, but those that a failing call cost it.     *)
THEOREM SteadyFilesAreFound == DownloadSpec => []SteadyFilesFound
<1> QED
  BY NothingAheadAtEnd, CollectInvariance, PTL

(* What a walk collects is no longer due, so it is not collected again. *)
LEMMA NoneCollectedAgain == CollectInv => FoundOnce
<1> QED
  BY DEF CollectInv, WalkInv, WalkTyped, FoundOnce, Collects, CallOK, Untangled, Fresh

(* The archive has no file twice (file_download_logic.go adds one to       *)
(* allFiles for every row of the loop), but for the reasons of the tree:   *)
(* the folder lay below itself, or an entry was moved or adopted.          *)
THEOREM FilesFoundOnce == DownloadSpec => []FoundOnce
<1> QED
  BY NoneCollectedAgain, CollectInvariance, PTL

(* Every frame has one row that is no longer due, and the call another.    *)
LEMMA FramesAreRows == CollectInv => OverflowForCause
<1> SUFFICES ASSUME CollectInv, NEW w \in Walk, phase[w] = "find", ~tangled[w],
                    Len(stack[w]) >= Cardinality(Node)
             PROVE  FALSE
  BY DEF OverflowForCause, CollectInv, WalkInv, WalkTyped
<1> DEFINE A == Used \ Due(w)
<1>1. Cardinality(A) >= Len(stack[w]) /\ Len(stack[w]) \in Nat
  BY DueTypes DEF CollectInv, Collects, Untangled, Fresh
<1>2. dir[w] \in Node /\ dir[w] \notin A
  BY DueTypes DEF Calling, Tops, Due, Used
<1>3. A \in SUBSET Node
  BY DEF Used
<1> HIDE DEF A
<1>4. A \cup {dir[w]} \in SUBSET Node
  BY <1>2, <1>3
<1>5. Cardinality(A \cup {dir[w]}) = Cardinality(A) + 1
  BY <1>2, <1>3, CardOfRows, FS_AddElement
<1>6. /\ Cardinality(A) \in Nat /\ Cardinality(Node) \in Nat
      /\ Cardinality(A \cup {dir[w]}) <= Cardinality(Node)
  BY <1>3, <1>4, CardOfRows
<1> QED
  BY <1>1, <1>5, <1>6

(* The recursion (file_download_logic.go) gets as deep as the table has    *)
(* rows for the same reasons only: a process whose stack has room for      *)
(* that many frames is stopped by nothing else.                            *)
THEOREM OverflowHasCause == DownloadSpec => []OverflowForCause
<1> QED
  BY FramesAreRows, CollectInvariance, PTL

-----------------------------------------------------------------------------
(* CheckedNamesDistinct holds although an overflow may end a create or a   *)
(* rename between its look for clashes and its write.                      *)
THEOREM NamesBesideWalks == DownloadSpec => []CheckedNamesDistinct
<1>1. DownloadInit => NameInv
  BY DEF DownloadInit, Init, NameInv, CheckedNamesDistinct, NameStillFree, CurrentLooks
<1>2. WalkInv /\ NameInv /\ [DownloadNext]_downloadVars => NameInv'
  <2>1. ASSUME NameInv, UNCHANGED table, current' = {} PROVE NameInv'
    BY <2>1 DEF NameInv, CheckedNamesDistinct, NameStillFree, CurrentLooks, table, columns
  <2> QED
    BY <2>1, WalksOnlyRead, NameStep DEF WalkInv
<1>3. NameInv => CheckedNamesDistinct
  BY DEF NameInv
<1> QED
  BY <1>1, <1>2, <1>3, WalkInvariance, PTL DEF DownloadSpec

(* ChangedByOwner holds beside walks too: an overflow writes nothing. *)
THEOREM OwnersChangeBesideWalks == DownloadSpec => ChangedByOwner
<1>1. WalkInv /\ [DownloadNext]_downloadVars => [\A n \in Used :
        parent'[n] # parent[n] \/ name'[n] # name[n] =>
          \E r \in Request : by[r] = owner[n] /\ node[r] = n]_vars
  BY WalksOnlyRead, OwnerStep DEF WalkInv, table, columns
<1> QED
  BY <1>1, WalkInvariance, PTL DEF DownloadSpec, ChangedByOwner

-----------------------------------------------------------------------------
(* A folder gets below itself in two ways only: a move takes an entry into *)
(* a folder that lies below it when the update is written                  *)
(* (user_file_move_logic.go compares the two ends, no more), or a row      *)
(* comes in with an id that has been given as a parent before, its own     *)
(* perhaps (user_folder_create_logic.go and user_repository_save_logic.go  *)
(* take any parent_id).                                                    *)
CyclesHaveCause == [][\A u \in User, d \in Node :
  isFolder'[d] /\ d \in Below(d, u)' /\ d \notin Below(d, u) =>
    \/ Adopted # {}
    \/ \E r \in Request : MoveUpdate(r) /\ dest[r] \in Below(node[r], u)]_downloadVars

(* What the comparison of the two ends is good for. *)
NotOntoItself == \A r \in Request : at[r] = "moveUpdate" => dest[r] # node[r]

LEMMA NotOntoItselfStep ==
  ASSUME WalkInv, NotOntoItself, [DownloadNext]_downloadVars
  PROVE  NotOntoItself'
<1> USE DEF WalkInv, IInv, TypeOK, NotOntoItself
<1>1. CASE at' = [r \in Request |-> "idle"] \/ UNCHANGED vars
  BY <1>1 DEF vars, request
<1>2. ASSUME NEW r \in Request, Arrive(r) \/ Serve(r) \/ Fail(r) PROVE NotOntoItself'
  <2>1. CASE Arrive(r)
    BY <2>1 DEF Arrive, AskCreate, AskRename, AskMove, Ask
  <2>2. CASE at'[r] # "moveUpdate" /\ (Return(r) \/ \E s : Goto(r, s))
    BY <2>2 DEF Return, Goto
  <2>3. CASE MoveGetFile(r) /\ Goto(r, "moveUpdate")
    <3>1. dest[r] = Root /\ node[r] \in Node
      BY <2>3 DEF MoveGetFile, Goto, Return, RequestOK, Used
    <3> QED
      BY <2>3, <3>1, RootAssumption DEF Goto
  <2>4. CASE MoveGetParent(r) /\ Goto(r, "moveUpdate")
    BY <2>4 DEF MoveGetParent, Goto, Return
  <2> QED
    BY <1>2, <2>1, <2>2, <2>3, <2>4 DEF Serve, Fail, Drop, CreateCount, CreateInsert,
       RenameCount, RenameUpdate, MoveGetFile, MoveGetParent, MoveUpdate, Checks,
       Goto, Return
<1>3. CASE Save \/ Delete
  BY <1>3 DEF Save, Delete, request
<1>4. ASSUME NEW w \in Walk, AskWalk(w) \/ WalkStep(w) PROVE NotOntoItself'
  BY <1>1, <1>4 DEF AskWalk, WalkStep, WalkGet, WalkFind, WalkLoop, WalkReply, WalkFails,
     WalkPack, WalkZip, Overflow
<1> QED
  BY <1>1, <1>2, <1>3, <1>4 DEF DownloadNext, TreeStep, Next, downloadVars

(* A move into a folder that does not lie below the entry makes no cycle:  *)
(* what comes below a folder by it is the entry and what lies below that.  *)
LEMMA MoveElsewhere ==
  ASSUME IInv, NEW u, NEW r \in Request, MoveUpdate(r), dest[r] # node[r],
         dest[r] \notin Below(node[r], u),
         NEW d \in Used, isFolder[d], d \notin Below(d, u)
  PROVE  d \notin Below(d, u)'
<1>1. PICK n \in Node, p \in {dest[r]} : n = node[r] /\ p = dest[r]
  BY DEF IInv, RequestOK, MoveUpdate, Used
<1>2. /\ UNCHANGED <<status, owner, isFolder>>
      /\ \A z \in Node \ {n} : parent'[z] = parent[z]
      /\ parent'[n] \in {parent[n], p}
  BY <1>1 DEF MoveUpdate, IInv, TypeOK
<1>3. Unfolding
  BY BelowUnfolds
<1>4. ASSUME NEW D \in SUBSET Node, d \notin D,
             \A z \in Node : /\ Found(z, u)
                             /\ parent'[z] = d \/ (parent'[z] \in D /\ isFolder[parent'[z]])
                             => z \in D
      PROVE  d \notin Below(d, u)'
  <2>1. D \in Closed(d, u)'
    BY <1>2, <1>4 DEF Closed, Kids, Found
  <2> QED
    BY <1>4, <2>1 DEF Below
<1>5. CASE d # n /\ d \notin Below(n, u)
  <2> DEFINE D == Below(d, u) \cup {n} \cup Below(n, u)
  <2>1. D \in SUBSET Node /\ d \notin D
    BY <1>5 DEF Below
  <2>2. ASSUME NEW z \in Node, Found(z, u),
               parent'[z] = d \/ (parent'[z] \in D /\ isFolder[parent'[z]])
        PROVE  z \in D
    <3>1. CASE z # n
      BY <1>2, <1>3, <2>2, <3>1 DEF Unfolding, HangsBelow
    <3> QED
      BY <3>1
  <2> HIDE DEF D
  <2> QED
    BY <1>4, <2>1, <2>2
<1>6. CASE d = n \/ d \in Below(n, u)
  <2>1. Below(d, u) \subseteq Below(n, u)
    BY <1>6, BelowOfFolder
  <2>2. ASSUME NEW z \in Node, Found(z, u),
               parent'[z] = d \/ (parent'[z] \in Below(d, u) /\ isFolder[parent'[z]])
        PROVE  z \in Below(d, u)
    <3>1. parent'[z] # p
      BY <1>1, <1>6, <2>1, <2>2
    <3>2. parent'[z] = parent[z]
      BY <1>2, <3>1
    <3> QED
      BY <1>3, <2>2, <3>2 DEF Unfolding, HangsBelow
  <2>3. Below(d, u) \in SUBSET Node
    BY DEF Below
  <2> QED
    BY <1>4, <2>2, <2>3
<1> QED
  BY <1>5, <1>6

(* A way down begins with a child. *)
HasChild == \A d, u : Below(d, u) # {} => \E k \in Node : Found(k, u) /\ parent[k] = d

LEMMA WaysBegin == HasChild
<1> SUFFICES ASSUME NEW d, NEW u, ~\E k \in Node : Found(k, u) /\ parent[k] = d
             PROVE  Below(d, u) = {}
  BY DEF HasChild
<1>1. {} \in Closed(d, u)
  BY DEF Closed, Kids
<1> QED
  BY <1>1, BelowIsLeast

(* So user_file_move_logic.go lacks one check against cycles, of the whole *)
(* way up from the destination, that holds when the update is written;     *)
(* and a client can make one without a move by naming an id to come.       *)
THEOREM CyclesComeOfTwo == DownloadSpec => CyclesHaveCause
<1>1. DownloadInit => NotOntoItself
  BY DEF DownloadInit, Init, NotOntoItself
<1>2. ASSUME WalkInv, NotOntoItself, [DownloadNext]_downloadVars, NEW u \in User, NEW d \in Node,
             isFolder'[d], d \in Below(d, u)', d \notin Below(d, u), Adopted = {}
      PROVE  \E r \in Request : MoveUpdate(r) /\ dest[r] \in Below(node[r], u)
  <2>1. CASE UNCHANGED table
    <3>1. UNCHANGED <<status, owner, parent, isFolder>>
      BY <2>1 DEF table, columns
    <3> QED
      BY <1>2, <3>1 DEF Below, Closed, Kids, Found
  <2>2. CASE Next
    <3>0. Unfolding' /\ HasChild'
      BY BelowUnfolds, WaysBegin, PTL
    <3>1. d \in Used' /\ \E k \in Used' : parent'[k] = d
      BY <1>2, <3>0 DEF Unfolding, HangsBelow, HasChild, Found, Used
    <3>2. d \in Used
      BY <1>2, <3>1 DEF Adopted
    <3>3. IInv /\ ~Unmoved
      BY <1>2, <2>2, <3>2, NothingComesBelow DEF WalkInv
    <3>4. PICK n \in Used : parent'[n] # parent[n]
      BY <3>3 DEF Unmoved
    <3>5. PICK r \in Request : MoveUpdate(r)
      BY <2>2, <3>3, <3>4, ParentStep
    <3>6. dest[r] # node[r] /\ isFolder[d]
      BY <1>2, <3>5 DEF NotOntoItself, MoveUpdate
    <3> QED
      BY <1>2, <3>2, <3>3, <3>5, <3>6, MoveElsewhere
  <2> QED
    BY <1>2, <2>1, <2>2, WalksOnlyRead DEF vars
<1>3. WalkInv /\ NotOntoItself /\ [DownloadNext]_downloadVars => [\A u \in User, d \in Node :
        isFolder'[d] /\ d \in Below(d, u)' /\ d \notin Below(d, u) =>
          \/ Adopted # {}
          \/ \E r \in Request : MoveUpdate(r) /\ dest[r] \in Below(node[r], u)]_downloadVars
  BY <1>2
<1>4. WalkInv /\ NotOntoItself /\ [DownloadNext]_downloadVars => NotOntoItself'
  BY NotOntoItselfStep
<1> QED
  BY <1>1, <1>3, <1>4, WalkInvariance, PTL DEF DownloadSpec, CyclesHaveCause

-----------------------------------------------------------------------------
(* A walk ends: the rows that are due or not inserted yet, the files it    *)
(* has collected, the frames and the phase of the call bound the steps it  *)
(* has left, a row counting five times as its call may end with a frame    *)
(* and a file more and in the first phase.  The zip has a step for a file. *)
ToCome(w) == Due(w) \cup (Node \ Used)
Turns == [idle |-> 0, zip |-> 0, find |-> 1, get |-> 2, loop |-> 3]
ToWalk(w) == 5 * Cardinality(ToCome(w)) + Cardinality(found[w]) + Len(stack[w])
               + Turns[phase[w]]
StepsLeft(w) == IF phase[w] = "idle" THEN 0
                ELSE IF phase[w] = "zip" THEN Cardinality(unpacked[w]) + 1
                ELSE ToWalk(w)

StepsTyped == \A w \in Walk :
  /\ StepsLeft(w) \in Nat /\ Cardinality(ToCome(w)) \in Nat /\ Len(stack[w]) \in Nat
  /\ Cardinality(found[w]) \in Nat /\ Cardinality(unpacked[w]) \in Nat
  /\ phase[w] # "idle" => Due(w) \subseteq Used
  /\ ToCome(w) \subseteq Node
  /\ Turns[phase[w]] \in 0..3

LEMMA StepsType == CollectInv => StepsTyped
<1> SUFFICES ASSUME CollectInv, NEW w \in Walk
             PROVE  /\ StepsLeft(w) \in Nat /\ Cardinality(ToCome(w)) \in Nat
                    /\ Len(stack[w]) \in Nat
                    /\ Cardinality(found[w]) \in Nat /\ Cardinality(unpacked[w]) \in Nat
                    /\ phase[w] # "idle" => Due(w) \subseteq Used
                    /\ ToCome(w) \subseteq Node
                    /\ Turns[phase[w]] \in 0..3
  BY DEF StepsTyped
<1>1. Len(stack[w]) \in Nat
  BY DueTypes
<1>2. Turns[phase[w]] \in 0..3
  BY DEF CollectInv, WalkInv, WalkTyped, Phases, Turns
<1>3. Due(w) \subseteq Node
  <2>1. Pending(w) \subseteq Node /\ \A n : Under(w, n) \subseteq Node
    BY DueTypes DEF Mine, Used
  <2>2. Calling(w) => dir[w] \in Node
    BY DueTypes DEF Calling, Used
  <2> QED
    BY <2>1, <2>2 DEF Due, Tops
<1>4. ToCome(w) \in SUBSET Node /\ Cardinality(ToCome(w)) \in Nat
  BY <1>3, CardOfRows DEF ToCome
<1>5. phase[w] # "idle" => Due(w) \subseteq Used
  BY DueTypes DEF Due
<1>6. Cardinality(found[w]) \in Nat /\ Cardinality(unpacked[w]) \in Nat
  <2>1. found[w] \in SUBSET Node /\ unpacked[w] \in SUBSET Node
    BY DEF CollectInv, WalkInv, WalkTyped
  <2> QED
    BY <2>1, CardOfRows
<1>7. ToWalk(w) \in Nat
  <2>1. \A c, f, l \in Nat, t \in 0..3 : 5 * c + f + l + t \in Nat
    OBVIOUS
  <2> QED
    BY <1>1, <1>2, <1>4, <1>6, <2>1, Zenon DEF ToWalk
<1>8. StepsLeft(w) \in Nat
  BY <1>6, <1>7 DEF StepsLeft
<1> QED
  BY <1>1, <1>2, <1>4, <1>5, <1>6, <1>8

LEMMA Weights ==
  \A b, c, f, g, k, l \in Nat, s, t \in 0..3 :
    /\ b + 1 <= c /\ g <= f + 1 /\ k <= l + 1 /\ t > 0
         => 5 * b + g + k + s < 5 * c + f + l + t
    /\ b <= c /\ g = f /\ k < l /\ s = t => 5 * b + g + k + s < 5 * c + f + l + t
    /\ b <= c /\ g = f /\ k = l /\ s < t => 5 * b + g + k + s < 5 * c + f + l + t
    /\ b <= c => 5 * b + f + l + t <= 5 * c + f + l + t
<1> QED
  OBVIOUS

(* What a walk has left is less after a step of its own, *)
LEMMA OwnStepsCount ==
  ASSUME CollectInv, StepsTyped, StepsTyped', NEW w \in Walk, UNCHANGED vars,
         phase[w] \in {"get", "find", "loop"}, phase'[w] # "zip", ~tangled[w], Lessens(w)
  PROVE  StepsLeft(w)' < StepsLeft(w)
<1>1. /\ StepsLeft(w) \in Nat /\ Cardinality(ToCome(w)) \in Nat /\ Len(stack[w]) \in Nat
      /\ Cardinality(found[w]) \in Nat
      /\ Due(w) \subseteq Used /\ ToCome(w) \in SUBSET Node
      /\ Turns[phase[w]] \in 0..3 /\ Turns[phase[w]] > 0
  BY DEF StepsTyped, Turns
<1>2. /\ StepsLeft(w)' \in Nat /\ Cardinality(ToCome(w)') \in Nat /\ Len(stack'[w]) \in Nat
      /\ Cardinality(found'[w]) \in Nat
      /\ ToCome(w)' \in SUBSET Node /\ Turns[phase'[w]] \in 0..3
  BY DEF StepsTyped
<1>3. StepsLeft(w) = 5 * Cardinality(ToCome(w)) + Cardinality(found[w]) + Len(stack[w])
                       + Turns[phase[w]]
  BY DEF StepsLeft, ToWalk
<1>4. CASE phase'[w] = "idle"
  <2>1. StepsLeft(w)' = 0
    BY <1>4 DEF StepsLeft
  <2> QED
    BY <1>1, <1>3, <2>1
<1>5. CASE phase'[w] # "idle"
  <2>1. StepsLeft(w)' = 5 * Cardinality(ToCome(w)') + Cardinality(found'[w]) + Len(stack'[w])
                          + Turns[phase'[w]]
    BY <1>5 DEF StepsLeft, ToWalk
  <2>2. Due(w)' \subseteq Due(w) /\ ToCome(w)' \in SUBSET ToCome(w)
    BY <1>5 DEF Lessens, ToCome, Used, vars, table
  <2>3. Cardinality(ToCome(w)') <= Cardinality(ToCome(w))
    BY <1>1, <2>2, CardOfRows
  <2> DEFINE c == Cardinality(ToCome(w))
             f == Cardinality(found[w])
             l == Len(stack[w])
             t == Turns[phase[w]]
             b == Cardinality(ToCome(w)')
             g == Cardinality(found'[w])
             k == Len(stack'[w])
             s == Turns[phase'[w]]
  <2>4. StepsLeft(w) = 5 * c + f + l + t /\ StepsLeft(w)' = 5 * b + g + k + s /\ b <= c
    BY <1>3, <2>1, <2>3
  <2>5. /\ b \in Nat /\ c \in Nat /\ f \in Nat /\ g \in Nat /\ k \in Nat /\ l \in Nat
        /\ s \in 0..3 /\ t \in 0..3
    BY <1>1, <1>2
  <2>6. CASE Due(w)' # Due(w) /\ Len(stack'[w]) <= Len(stack[w]) + 1 /\ Grows(w)
    <3>1. PICK n \in Due(w) : n \notin Due(w)'
      BY <2>2, <2>6
    <3>2. n \in ToCome(w) /\ n \notin ToCome(w)'
      BY <1>1, <3>1 DEF ToCome, Used, vars, table
    <3>3. Cardinality(ToCome(w)') + 1 <= Cardinality(ToCome(w))
      <4>1. ToCome(w)' \cup {n} \in SUBSET ToCome(w) /\ IsFiniteSet(ToCome(w)')
        BY <1>2, <2>2, <3>2, CardOfRows
      <4>2. Cardinality(ToCome(w)' \cup {n}) = Cardinality(ToCome(w)') + 1
        BY <3>2, <4>1, FS_AddElement
      <4>3. Cardinality(ToCome(w)' \cup {n}) <= Cardinality(ToCome(w))
        BY <1>1, <4>1, CardOfRows
      <4> QED
        BY <4>2, <4>3
    <3>4. Cardinality(found'[w]) <= Cardinality(found[w]) + 1
      <4>1. PICK m : found'[w] \subseteq found[w] \cup {m}
        BY <2>6 DEF Grows
      <4>2. found[w] \in SUBSET Node /\ found'[w] \in SUBSET (found[w] \cup {m})
        BY <4>1 DEF CollectInv, WalkInv, WalkTyped
      <4>3. IsFiniteSet(found[w]) /\ IsFiniteSet(found[w] \cup {m})
        BY <4>2, CardOfRows, FS_AddElement
      <4>4. Cardinality(found[w] \cup {m}) <= Cardinality(found[w]) + 1
        <5>1. CASE m \in found[w]
          <6>1. found[w] \cup {m} = found[w]
            BY <5>1
          <6>2. Cardinality(found[w] \cup {m}) = Cardinality(found[w])
            BY <6>1, Zenon
          <6> QED
            BY <1>1, <6>2
        <5>2. CASE m \notin found[w]
          <6>1. Cardinality(found[w] \cup {m}) = Cardinality(found[w]) + 1
            BY <4>3, <5>2, FS_AddElement
          <6> QED
            BY <1>1, <6>1
        <5> QED
          BY <5>1, <5>2
      <4>5. Cardinality(found'[w]) <= Cardinality(found[w] \cup {m})
        BY <4>2, <4>3, FS_Subset
      <4>6. Cardinality(found[w] \cup {m}) \in Nat
        BY <4>3, FS_CardinalityType
      <4> QED
        BY <1>1, <1>2, <4>4, <4>5, <4>6
    <3>5. b + 1 <= c /\ g <= f + 1 /\ k <= l + 1 /\ t > 0
      BY <1>1, <2>6, <3>3, <3>4
    <3> HIDE DEF b, c, f, g, k, l, s, t
    <3> QED
      BY <2>4, <2>5, <3>5, Weights
  <2>7. CASE phase'[w] = phase[w] /\ found'[w] = found[w] /\ Len(stack'[w]) < Len(stack[w])
    <3>1. g = f /\ k < l /\ s = t
      BY <2>7
    <3> HIDE DEF b, c, f, g, k, l, s, t
    <3> QED
      BY <2>4, <2>5, <3>1, Weights
  <2>8. CASE /\ <<phase[w], phase'[w]>> \in {<<"loop", "get">>, <<"get", "find">>}
             /\ Len(stack'[w]) = Len(stack[w]) /\ found'[w] = found[w]
    <3>1. Turns[phase'[w]] < Turns[phase[w]]
      BY <2>8 DEF Turns
    <3>2. g = f /\ k = l /\ s < t
      BY <2>8, <3>1
    <3> HIDE DEF b, c, f, g, k, l, s, t
    <3> QED
      BY <2>4, <2>5, <3>2, Weights
  <2> QED
    BY <1>5, <2>6, <2>7, <2>8 DEF Lessens
<1> QED
  BY <1>4, <1>5

(* with the turn to the zip, whose files were counted already, *)
LEMMA PackCounts ==
  ASSUME CollectInv, StepsTyped, StepsTyped', NEW w \in Walk, WalkPack(w)
  PROVE  StepsLeft(w)' < StepsLeft(w)
<1>1. /\ Cardinality(ToCome(w)) \in Nat /\ Cardinality(found[w]) \in Nat
      /\ Len(stack[w]) \in Nat
  BY DEF StepsTyped
<1>2. phase[w] = "loop"
  BY DEF WalkPack
<1>3. StepsLeft(w) = 5 * Cardinality(ToCome(w)) + Cardinality(found[w]) + Len(stack[w]) + 3
  BY <1>2 DEF StepsLeft, ToWalk, Turns
<1>4. phase'[w] = "idle" \/ (phase'[w] = "zip" /\ unpacked'[w] = found[w])
  BY DEF WalkPack, WalkReturn, CollectInv, WalkInv, WalkTyped
<1>5. StepsLeft(w)' = 0 \/ StepsLeft(w)' = Cardinality(found[w]) + 1
  BY <1>4 DEF StepsLeft
<1> QED
  BY <1>1, <1>3, <1>5

(* with each file of the zip, *)
LEMMA ZipCounts ==
  ASSUME CollectInv, StepsTyped, StepsTyped', NEW w \in Walk, WalkZip(w), ~tangled[w]
  PROVE  StepsLeft(w)' < StepsLeft(w)
<1>1. PICK n \in unpacked[w] : unpacked'[w] = unpacked[w] \ {n}
  BY ZipCollects
<1>2. phase[w] = "zip" /\ phase'[w] = "zip"
  BY ZipCollects DEF WalkZip
<1>3. IsFiniteSet(unpacked[w])
  <2>1. unpacked[w] \in SUBSET Node
    BY DEF CollectInv, WalkInv, WalkTyped
  <2> QED
    BY <2>1, CardOfRows
<1>4. Cardinality(unpacked'[w]) = Cardinality(unpacked[w]) - 1
  BY <1>1, <1>3, FS_RemoveElement
<1>5. Cardinality(unpacked[w]) \in Nat
  BY DEF StepsTyped
<1> QED
  BY <1>2, <1>4, <1>5 DEF StepsLeft

(* and with the answer; *)
LEMMA ReplyCounts ==
  ASSUME CollectInv, StepsTyped, NEW w \in Walk, WalkReply(w)
  PROVE  StepsLeft(w)' < StepsLeft(w)
<1>1. phase[w] = "zip" /\ phase'[w] = "idle"
  BY DEF WalkReply, WalkReturn, CollectInv, WalkInv, WalkTyped
<1>2. StepsLeft(w) = Cardinality(unpacked[w]) + 1 /\ StepsLeft(w)' = 0
  BY <1>1 DEF StepsLeft
<1>3. Cardinality(unpacked[w]) \in Nat
  BY DEF StepsTyped
<1> QED
  BY <1>2, <1>3

(* and no more after a step of another walk or handler, which may put rows *)
(* below the folder that were not in the table before. *)
LEMMA OthersAddNoSteps ==
  ASSUME CollectInv, StepsTyped, StepsTyped', NEW w \in Walk, phase[w] # "idle",
         phase'[w] = phase[w], stack'[w] = stack[w], found'[w] = found[w],
         unpacked'[w] = unpacked[w], Used \subseteq Used', Due(w)' \cap Used \subseteq Due(w)
  PROVE  StepsLeft(w)' <= StepsLeft(w)
<1>1. ToCome(w)' \in SUBSET ToCome(w) /\ ToCome(w) \in SUBSET Node
  BY DEF StepsTyped, ToCome
<1>2. Cardinality(ToCome(w)') <= Cardinality(ToCome(w))
  BY <1>1, CardOfRows
<1>3. /\ Cardinality(ToCome(w)) \in Nat /\ Cardinality(ToCome(w)') \in Nat
      /\ Cardinality(found[w]) \in Nat /\ Cardinality(unpacked[w]) \in Nat
      /\ Len(stack[w]) \in Nat /\ Turns[phase[w]] \in 0..3
  BY DEF StepsTyped
<1>4. CASE phase[w] = "zip"
  <2>1. /\ StepsLeft(w) = Cardinality(unpacked[w]) + 1
        /\ StepsLeft(w)' = Cardinality(unpacked[w]) + 1
    BY <1>4 DEF StepsLeft
  <2> QED
    BY <1>3, <2>1
<1>5. CASE phase[w] # "zip"
  <2> DEFINE c == Cardinality(ToCome(w))
             b == Cardinality(ToCome(w)')
             f == Cardinality(found[w])
             l == Len(stack[w])
             t == Turns[phase[w]]
  <2>1. StepsLeft(w) = 5 * c + f + l + t /\ StepsLeft(w)' = 5 * b + f + l + t
    BY <1>5 DEF StepsLeft, ToWalk
  <2>2. b \in Nat /\ c \in Nat /\ f \in Nat /\ l \in Nat /\ t \in 0..3 /\ b <= c
    BY <1>2, <1>3
  <2> HIDE DEF b, c, f, l, t
  <2> QED
    BY <2>1, <2>2, Weights
<1> QED
  BY <1>4, <1>5

LEMMA OtherWalksStay ==
  ASSUME WalkInv, NEW v \in Walk, WalkStep(v) \/ AskWalk(v), ~Overflow(v),
         NEW w \in Walk, w # v
  PROVE  UNCHANGED vars /\ SameInAll(w)
<1> USE DEF SameInAll, SameWalk, history, WalkInv, WalkTyped
<1>1. CASE AskWalk(v)
  BY <1>1 DEF AskWalk
<1>2. CASE WalkGet(v) \/ WalkFails(v)
  BY <1>2 DEF WalkGet, WalkFails, Gives, CallReturns, WalkReturn
<1>3. CASE WalkFind(v)
  BY <1>3 DEF WalkFind
<1>4. CASE WalkLoop(v)
  BY <1>4 DEF WalkLoop, WalkChild, WalkUp, TakeChild
<1>5. CASE WalkReply(v)
  BY <1>5 DEF WalkReply, WalkReturn
<1>6. CASE WalkPack(v)
  BY <1>6 DEF WalkPack, WalkReturn
<1>7. CASE WalkZip(v)
  BY <1>7 DEF WalkZip, Packed
<1> QED
  BY <1>1, <1>2, <1>3, <1>4, <1>5, <1>6, <1>7 DEF WalkStep

LEMMA OwnStepsLessen ==
  ASSUME CollectInv, StepsTyped, StepsTyped', NEW w \in Walk, WalkStep(w), ~Overflow(w),
         ~tangled[w]
  PROVE  StepsLeft(w)' < StepsLeft(w)
<1>1. CASE WalkLoop(w)
  <2>1. phase[w] = "loop" /\ UNCHANGED vars /\ (phase'[w] \in {"get", "loop"})
    BY <1>1 DEF WalkLoop, WalkChild, WalkUp, CollectInv, WalkInv, WalkTyped
  <2> QED
    BY <1>1, <2>1, ChildCollects, UpCollects, OwnStepsCount DEF WalkLoop
<1>2. CASE WalkFails(w)
  <2>1. phase[w] \in {"get", "find"} /\ UNCHANGED vars /\ Calling(w)
    BY <1>2 DEF WalkFails, Calling
  <2>2. phase'[w] \in {"loop", "idle"}
    BY <1>2 DEF WalkFails, Gives, CallReturns, WalkReturn, CollectInv, WalkInv, WalkTyped
  <2> QED
    BY <1>2, <2>1, <2>2, GivesCollects, FilesOfFolder, OwnStepsCount DEF WalkFails
<1>3. CASE WalkGet(w)
  <2>1. phase[w] = "get" /\ UNCHANGED vars
    BY <1>3 DEF WalkGet
  <2>2. phase'[w] \in {"find", "loop", "idle"}
    BY <1>3 DEF WalkGet, Gives, CallReturns, WalkReturn, CollectInv, WalkInv, WalkTyped
  <2> QED
    BY <1>3, <2>1, <2>2, GetCollects, OwnStepsCount
<1>4. CASE WalkFind(w)
  <2>1. phase[w] = "find" /\ UNCHANGED vars
    BY <1>4 DEF WalkFind
  <2>2. phase'[w] = "loop"
    BY <1>4 DEF WalkFind, CollectInv, WalkInv, WalkTyped
  <2> QED
    BY <1>4, <2>1, <2>2, FindCollects, OwnStepsCount
<1> QED
  BY <1>1, <1>2, <1>3, <1>4, PackCounts, ZipCounts, ReplyCounts DEF WalkStep

(* A walk has a few steps for each row of the table.  While no entry is    *)
(* moved or adopted and the folder does not lie below itself, each of its  *)
(* steps leaves it fewer, and no other handler ever adds one, not by       *)
(* creating folders below it nor by deleting them.                         *)
WindsDown(w) ==
  /\ AskWalk(w) => StepsLeft(w)' <= 5 * Cardinality(Node) + 2
  /\ phase[w] # "idle" /\ ~tangled[w] /\ ~tangled'[w] =>
       /\ StepsLeft(w)' <= StepsLeft(w)
       /\ WalkStep(w) => StepsLeft(w)' < StepsLeft(w)

WalksWindDown == [][\A w \in Walk : WindsDown(w)]_downloadVars

LEMMA SameStepsLeft ==
  ASSUME CollectInv, StepsTyped, StepsTyped', UNCHANGED vars, NEW w \in Walk,
         SameInAll(w), phase[w] # "idle"
  PROVE  StepsLeft(w)' <= StepsLeft(w)
<1>1. UNCHANGED status /\ Used' = Used
  BY DEF vars, table, Used
<1>2. /\ phase'[w] = phase[w] /\ stack'[w] = stack[w] /\ dir'[w] = dir[w] /\ top'[w] = top[w]
      /\ walker'[w] = walker[w] /\ found'[w] = found[w] /\ unpacked'[w] = unpacked[w]
  BY DEF SameInAll, SameWalk
<1>3. Tops(w)' = Tops(w)
  BY <1>2 DEF Tops, Pending, Held, Calling
<1>4. Due(w)' \subseteq Due(w)
  BY <1>2, <1>3, DueShrinks
<1> QED
  BY <1>1, <1>2, <1>4, OthersAddNoSteps

LEMMA StartCounts ==
  ASSUME CollectInv, StepsTyped', NEW w \in Walk, AskWalk(w)
  PROVE  StepsLeft(w)' <= 5 * Cardinality(Node) + 2
<1>1. phase'[w] = "get" /\ stack'[w] = <<>> /\ found'[w] = {}
  BY DEF AskWalk, CollectInv, WalkInv, WalkTyped, WalkOK
<1>2. /\ Cardinality(ToCome(w)') \in Nat /\ Cardinality(Node) \in Nat
      /\ Cardinality(ToCome(w)') <= Cardinality(Node)
  BY CardOfRows DEF StepsTyped
<1>3. Cardinality(found'[w]) = 0
  BY <1>1, FS_EmptySet
<1>4. StepsLeft(w)' = 5 * Cardinality(ToCome(w)') + 0 + 0 + 2
  BY <1>1, <1>3 DEF StepsLeft, ToWalk, Turns
<1> QED
  BY <1>2, <1>4

LEMMA WindsDownStep ==
  ASSUME CollectInv, StepsTyped, StepsTyped', [DownloadNext]_downloadVars, NEW w \in Walk,
         phase[w] # "idle", ~tangled[w], ~tangled'[w]
  PROVE  /\ StepsLeft(w)' <= StepsLeft(w)
         /\ WalkStep(w) => StepsLeft(w)' < StepsLeft(w)
<1>0. StepsLeft(w) \in Nat /\ StepsLeft(w)' \in Nat
  BY DEF StepsTyped
<1>1. ASSUME NEW v \in Walk, Overflow(v)
      PROVE  StepsLeft(w)' < StepsLeft(w)
  <2>1. phase'[w] = "idle"
    BY <1>1 DEF Overflow
  <2>2. StepsLeft(w)' = 0
    BY <2>1 DEF StepsLeft
  <2>3. StepsLeft(w) > 0
    <3>1. CASE phase[w] = "zip"
      BY <3>1 DEF StepsLeft, StepsTyped
    <3>2. CASE phase[w] # "zip"
      <4>1. phase[w] \in {"get", "find", "loop"}
        BY <3>2 DEF CollectInv, WalkInv, WalkTyped, Phases
      <4>2. Turns[phase[w]] \in 1..3
        BY <4>1 DEF Turns
      <4>3. StepsLeft(w) = 5 * Cardinality(ToCome(w)) + Cardinality(found[w])
                             + Len(stack[w]) + Turns[phase[w]]
        BY <4>1 DEF StepsLeft, ToWalk
      <4>4. /\ Cardinality(ToCome(w)) \in Nat /\ Cardinality(found[w]) \in Nat
            /\ Len(stack[w]) \in Nat
        BY DEF StepsTyped
      <4> QED
        BY <4>2, <4>3, <4>4
    <3> QED
      BY <3>1, <3>2
  <2> QED
    BY <2>2, <2>3
<1>2. ASSUME WalkStep(w), ~Overflow(w) PROVE StepsLeft(w)' < StepsLeft(w)
  BY <1>2, OwnStepsLessen
<1>3. ASSUME NEW v \in Walk, v # w, WalkStep(v) \/ AskWalk(v), ~Overflow(v)
      PROVE  StepsLeft(w)' <= StepsLeft(w)
  BY <1>3, OtherWalksStay, SameStepsLeft DEF CollectInv
<1>4. ~AskWalk(w)
  BY DEF AskWalk
<1>5. CASE TreeStep
  <2>1. Used \subseteq Used' /\ Due(w)' \cap Used \subseteq Due(w)
    BY <1>5, TreeCollects, RowsLastStep DEF TreeStep, RowsLast, CollectInv, WalkInv
  <2>2. /\ phase'[w] = phase[w] /\ stack'[w] = stack[w]
        /\ found'[w] = found[w] /\ unpacked'[w] = unpacked[w]
    BY <1>5 DEF TreeStep, walkState
  <2>3. StepsLeft(w)' <= StepsLeft(w)
    BY <2>1, <2>2, OthersAddNoSteps
  <2> QED
    BY <1>1, <1>2, <2>3
<1>6. CASE UNCHANGED downloadVars
  <2>1. UNCHANGED vars /\ SameInAll(w)
    BY <1>6 DEF downloadVars, walkState, history, SameInAll, SameWalk
  <2>2. StepsLeft(w)' <= StepsLeft(w)
    BY <2>1, SameStepsLeft
  <2> QED
    BY <1>1, <1>2, <2>2
<1>7. ASSUME StepsLeft(w)' < StepsLeft(w) PROVE StepsLeft(w)' <= StepsLeft(w)
  BY <1>0, <1>7
<1> QED
  BY <1>1, <1>2, <1>3, <1>4, <1>5, <1>6, <1>7 DEF DownloadNext

(* A download of a folder (file_download_logic.go) is over, its zip packed *)
(* too, after a number of steps that the table bounds, whatever other      *)
(* handlers do meanwhile, unless an entry is moved or adopted or the       *)
(* folder lies below itself.                                               *)
THEOREM WalksComeToAnEnd == DownloadSpec => WalksWindDown
<1>1. CollectInv => StepsTyped
  BY StepsType
<1>2. ASSUME CollectInv, StepsTyped, StepsTyped', [DownloadNext]_downloadVars
      PROVE  \A w \in Walk : WindsDown(w)
  BY <1>2, StartCounts, WindsDownStep DEF WindsDown
<1>3. StepsTyped /\ StepsTyped' /\ CollectInv /\ [DownloadNext]_downloadVars =>
        [\A w \in Walk : WindsDown(w)]_downloadVars
  BY <1>2
<1> QED
  BY <1>1, <1>3, CollectInvariance, PTL DEF DownloadSpec, WalksWindDown
=============================================================================
