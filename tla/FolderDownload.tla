--------------------------- MODULE FolderDownload ---------------------------
(***************************************************************************)
(* /user/file/download/folder (file_download_logic.go): the walk that      *)
(* collects the files below a folder, beside the handlers that change the  *)
(* tree, and the loop that packs them into a zip.  The walk is a recursion *)
(* with two queries for each folder; its call stack is a sequence of       *)
(* frames, each the children that query returned and the loop has not come *)
(* to yet.  The rows of a frame are a copy: what they say may have changed *)
(* when the loop gets to them.                                             *)
(***************************************************************************)
EXTENDS UserRepository, SequencesExt

CONSTANTS
  Walk,        \* slots for downloads in flight
  MaxDepth     \* the frames the stack of a goroutine has room for

ASSUME DepthAssumption == MaxDepth \in Nat \ {0}
ASSUME RowsAssumption == IsFiniteSet(Node)

VARIABLES
  phase,       \* phase[w]: what walk w does next
  walker,      \* walker[w]: the user who asked
  top,         \* top[w]: the folder asked for
  dir,         \* dir[w]: the folder the current call has been given
  stack,       \* stack[w]: the frames, the innermost last
  found,       \* found[w]: the files collected (allFiles)
  twice,       \* twice[w]: whether a file was collected more than once
  unpacked,    \* unpacked[w]: the files the zip loop has not come to
  archive,     \* archive[w]: the files that are in the zip, whole
  missed,      \* missed[w]: the files that the failing calls of w cost it
  tangled,     \* tangled[w]: whether the folder lay below itself when w began, or
               \* an entry was moved or adopted since
  steady       \* steady[w]: the files below the folder by the same way ever
               \* since w began

walkState == <<phase, walker, top, dir, stack, found, twice, unpacked, archive, missed>>
history == <<tangled, steady>>
downloadVars == <<vars, walkState, history>>

Phases == {"idle", "get", "find", "loop", "zip"}

(* Mutant of Children: the query loses its condition on parent_id. *)
AnyChildren(d, u) == {n \in Node : Found(n, u)}

Children(d, u) == {n \in Node : Found(n, u) /\ parent[n] = d}

(* The user's live entries below one, through live folders of the user:    *)
(* what the walk is to collect, said without a walk, as the least set that *)
(* has the entry's children in it and those of each of its folders.        *)
Kids(D, u) == {n \in Node : Found(n, u) /\ parent[n] \in D}
Closed(d, u) == {D \in SUBSET Node : Kids({d} \cup {n \in D : isFolder[n]}, u) \subseteq D}
Below(d, u) == LET all == Closed(d, u)
               IN  {n \in Node : \A D \in all : n \in D}
FilesBelow(d, u) == {n \in Used : ~isFolder[n] /\ n \in Below(d, u)}

DownloadInit ==
  /\ Init
  /\ phase = [w \in Walk |-> "idle"]
  /\ walker = [w \in Walk |-> None]
  /\ top = [w \in Walk |-> None]
  /\ dir = [w \in Walk |-> None]
  /\ stack = [w \in Walk |-> <<>>]
  /\ found = [w \in Walk |-> {}]
  /\ twice = [w \in Walk |-> FALSE]
  /\ unpacked = [w \in Walk |-> {}]
  /\ archive = [w \in Walk |-> {}]
  /\ missed = [w \in Walk |-> {}]
  /\ tangled = [w \in Walk |-> FALSE]
  /\ steady = [w \in Walk |-> {}]

AskWalk(w) == \E u \in User, n \in Used :
  /\ phase[w] = "idle"
  /\ phase' = [phase EXCEPT ![w] = "get"]
  /\ walker' = [walker EXCEPT ![w] = u]
  /\ top' = [top EXCEPT ![w] = n]
  /\ dir' = [dir EXCEPT ![w] = n]
  /\ tangled' = [tangled EXCEPT ![w] = n \in Below(n, u)]
  /\ steady' = [steady EXCEPT ![w] = FilesBelow(n, u)]
  /\ UNCHANGED <<vars, stack, found, twice, unpacked, archive, missed>>

(* The walk is over, with an answer or an error. *)
WalkReturn(w) ==
  /\ phase' = [phase EXCEPT ![w] = "idle"]
  /\ walker' = [walker EXCEPT ![w] = None]
  /\ top' = [top EXCEPT ![w] = None]
  /\ dir' = [dir EXCEPT ![w] = None]
  /\ stack' = [stack EXCEPT ![w] = <<>>]
  /\ found' = [found EXCEPT ![w] = {}]
  /\ twice' = [twice EXCEPT ![w] = FALSE]
  /\ unpacked' = [unpacked EXCEPT ![w] = {}]
  /\ archive' = [archive EXCEPT ![w] = {}]
  /\ missed' = [missed EXCEPT ![w] = {}]
  /\ tangled' = [tangled EXCEPT ![w] = FALSE]
  /\ steady' = [steady EXCEPT ![w] = {}]

(* Mutant of CallReturns: the caller gives up its other children too. *)
CallerReturns(w) ==
  /\ stack[w] # <<>>
  /\ phase' = [phase EXCEPT ![w] = "loop"]
  /\ stack' = [stack EXCEPT ![w] = Front(@)]

(* A call of the recursion returns an error: a caller in the walk drops it *)
(* and goes on with its loop.                                              *)
CallReturns(w) ==
  /\ stack[w] # <<>>
  /\ phase' = [phase EXCEPT ![w] = "loop"]
  /\ UNCHANGED stack

(* The first call's error ends the request. *)
Gives(w, lost) ==
  \/ /\ CallReturns(w)
     /\ missed' = [missed EXCEPT ![w] = @ \cup lost]
     /\ UNCHANGED <<walker, top, dir, found, twice, unpacked, archive, history>>
  \/ stack[w] = <<>> /\ WalkReturn(w)

(* Get the row of the folder; it may be gone since it was listed. *)
WalkGet(w) ==
  /\ phase[w] = "get"
  /\ \/ /\ Found(dir[w], walker[w])
        /\ phase' = [phase EXCEPT ![w] = "find"]
        /\ UNCHANGED <<walker, top, dir, stack, found, twice, unpacked, archive,
                       missed, history>>
     \/ ~Found(dir[w], walker[w]) /\ Gives(w, {})
  /\ UNCHANGED vars

(* Find its children; the loop over them starts. *)
WalkFind(w) ==
  /\ phase[w] = "find"
  /\ Len(stack[w]) < MaxDepth
  /\ phase' = [phase EXCEPT ![w] = "loop"]
  /\ stack' = [stack EXCEPT ![w] = Append(@, Children(dir[w], walker[w]))]
  /\ UNCHANGED <<vars, walker, top, dir, found, twice, unpacked, archive, missed,
                 history>>

(* A query of the recursion fails; all that is below the folder is lost. *)
WalkFails(w) ==
  /\ phase[w] \in {"get", "find"}
  /\ Gives(w, FilesBelow(dir[w], walker[w]))
  /\ UNCHANGED vars

(* The stack of a goroutine has no room for another frame: the Go runtime  *)
(* stops the process, and every handler with it.                           *)
Overflow(w) ==
  /\ phase[w] = "find"
  /\ Len(stack[w]) = MaxDepth
  /\ at' = [r \in Request |-> "idle"]
  /\ by' = [r \in Request |-> None]
  /\ node' = [r \in Request |-> None]
  /\ dest' = [r \in Request |-> None]
  /\ label' = [r \in Request |-> None]
  /\ current' = {}
  /\ phase' = [v \in Walk |-> "idle"]
  /\ walker' = [v \in Walk |-> None]
  /\ top' = [v \in Walk |-> None]
  /\ dir' = [v \in Walk |-> None]
  /\ stack' = [v \in Walk |-> <<>>]
  /\ found' = [v \in Walk |-> {}]
  /\ twice' = [v \in Walk |-> FALSE]
  /\ unpacked' = [v \in Walk |-> {}]
  /\ archive' = [v \in Walk |-> {}]
  /\ missed' = [v \in Walk |-> {}]
  /\ tangled' = [v \in Walk |-> FALSE]
  /\ steady' = [v \in Walk |-> {}]
  /\ UNCHANGED table

(* The loop comes to a child: a folder is a call of the recursion, a file  *)
(* is looked up in repository_pool and collected (left out if that fails). *)
Innermost(w) == Last(stack[w])

\* Mutant of TakeChild: the loop does not get past the child.
StayAtChild(w, n) == UNCHANGED stack

TakeChild(w, n) == stack' = [stack EXCEPT ![w] =
  Append(Front(@), Innermost(w) \ {n})]

(* Mutant of Recurses: the two columns that tell a folder are not looked at. *)
NeverRecurses(n) == FALSE

Recurses(n) == isFolder[n]

WalkChild(w) == \E n \in Innermost(w) :
  /\ TakeChild(w, n)
  /\ \/ /\ Recurses(n)
        /\ phase' = [phase EXCEPT ![w] = "get"]
        /\ dir' = [dir EXCEPT ![w] = n]
        /\ UNCHANGED <<found, twice, missed>>
     \/ /\ ~Recurses(n)
        /\ found' = [found EXCEPT ![w] = @ \cup {n}]
        /\ twice' = [twice EXCEPT ![w] = @ \/ n \in found[w]]
        /\ UNCHANGED <<phase, dir, missed>>
     \/ /\ ~Recurses(n)
        /\ missed' = [missed EXCEPT ![w] = @ \cup {n}]
        /\ UNCHANGED <<phase, dir, found, twice>>
  /\ UNCHANGED <<walker, top>>

(* The children are done: the call returns. *)
WalkUp(w) ==
  /\ Innermost(w) = {}
  /\ stack' = [stack EXCEPT ![w] = Front(@)]
  /\ UNCHANGED <<phase, walker, top, dir, found, twice, missed>>

WalkLoop(w) ==
  /\ phase[w] = "loop" /\ stack[w] # <<>>
  /\ WalkChild(w) \/ WalkUp(w)
  /\ UNCHANGED <<vars, unpacked, archive, history>>

(* The first call has returned: begin the zip, or answer with an error if  *)
(* no file was found.                                                      *)
WalkPack(w) ==
  /\ phase[w] = "loop" /\ stack[w] = <<>>
  /\ \/ found[w] = {} /\ WalkReturn(w)
     \/ /\ found[w] # {}
        /\ phase' = [phase EXCEPT ![w] = "zip"]
        /\ unpacked' = [unpacked EXCEPT ![w] = found[w]]
        /\ UNCHANGED <<walker, top, dir, stack, found, twice, archive, missed, history>>
  /\ UNCHANGED vars

(* Mutant of Packed: the loop ends with its first file. *)
PackedFirst(w, n) == unpacked' = [unpacked EXCEPT ![w] = {}]

(* A file that was collected twice comes up again. *)
Packed(w, n) == \E once \in {TRUE, ~twice[w]} :
  unpacked' = [unpacked EXCEPT ![w] = IF once THEN @ \ {n} ELSE @]

(* One file is fetched and written into the zip.  If its object cannot be  *)
(* had or written, the file is left out or cut short, and nothing is said. *)
WalkZip(w) == \E n \in unpacked[w] :
  /\ phase[w] = "zip"
  /\ Packed(w, n)
  /\ \/ archive' = [archive EXCEPT ![w] = @ \cup {n}] /\ UNCHANGED missed
     \/ missed' = [missed EXCEPT ![w] = @ \cup {n}] /\ UNCHANGED archive
  /\ UNCHANGED <<vars, phase, walker, top, dir, stack, found, twice, history>>

(* The zip is done: answer with it, whatever is in it. *)
WalkReply(w) ==
  /\ phase[w] = "zip" /\ unpacked[w] = {}
  /\ WalkReturn(w)
  /\ UNCHANGED vars

WalkStep(w) == WalkGet(w) \/ WalkFind(w) \/ WalkLoop(w) \/ WalkFails(w)
               \/ Overflow(w) \/ WalkPack(w) \/ WalkZip(w) \/ WalkReply(w)

(* What a step does to the tree.  A row can come in with an id that some   *)
(* row, itself perhaps, has been given as its parent before.               *)
Moved == {n \in Used : parent'[n] # parent[n]}
Adopted == {n \in Used' \ Used : \E m \in Used' : parent'[m] = n}

(* Whether n is moved, or an entry between d and n is. *)
Displaced(n, d, u) == \E m \in Moved \cap Below(d, u) : n = m \/ n \in Below(m, u)

(* A step of another handler; the walks see what it does to the tree. *)
TreeStep ==
  /\ Next
  /\ UNCHANGED walkState
  /\ tangled' = [w \in Walk |->
       phase[w] # "idle" /\ (tangled[w] \/ Moved # {} \/ Adopted # {})]
  /\ steady' = [w \in Walk |->
       {n \in steady[w] : /\ n \in Below(top[w], walker[w])'
                         /\ ~Displaced(n, top[w], walker[w])}]

DownloadNext == TreeStep \/ \E w \in Walk : AskWalk(w) \/ WalkStep(w)

DownloadSpec == DownloadInit /\ [][DownloadNext]_downloadVars

-----------------------------------------------------------------------------
WalkTypeOK ==
  /\ TypeOK
  /\ phase \in [Walk -> Phases]
  /\ walker \in [Walk -> User \cup {None}]
  /\ top \in [Walk -> Node \cup {None}]
  /\ dir \in [Walk -> Node \cup {None}]
  /\ \A w \in Walk : /\ Len(stack[w]) \in 0..MaxDepth
                     /\ \A i \in DOMAIN stack[w] : stack[w][i] \subseteq Used
                     /\ found[w] \cup steady[w] \cup missed[w]
                          \subseteq {n \in Used : ~isFolder[n]}
                     /\ unpacked[w] \cup archive[w] \subseteq found[w]
  /\ twice \in [Walk -> BOOLEAN]
  /\ tangled \in [Walk -> BOOLEAN]

(* Whether the download is about to be answered, with a zip or an error. *)
Answers(w) == \/ phase[w] = "zip" /\ unpacked[w] = {}
              \/ phase[w] = "loop" /\ stack[w] = <<>> /\ found[w] = {}

(* A file that was below the folder by the same way all the time the       *)
(* download took is in the zip when it is answered, whatever was created,  *)
(* saved, renamed, deleted or moved around it, unless a call for this file *)
(* or for a folder above it failed.  Errors are dropped at every level     *)
(* (file_download_logic.go:209, 215, 220, 266, 271): each costs what it is *)
(* about and no more.                                                      *)
SteadyFilesFound == \A w \in Walk :
  Answers(w) => steady[w] \subseteq archive[w] \cup missed[w]

(* No file gets into the zip twice unless the folder lay below itself      *)
(* (user_file_move_logic.go lets it), or during the walk an entry was      *)
(* moved, or came in with an id that had been named as a parent before.    *)
FoundOnce == \A w \in Walk : twice[w] => tangled[w]

(* The recursion goes deeper than the tree, up to the end of the stack and *)
(* of the process, only for the same reasons.                              *)
OverflowForCause == \A w \in Walk :
  phase[w] = "find" /\ Len(stack[w]) >= Cardinality(Node) => tangled[w]
=============================================================================
