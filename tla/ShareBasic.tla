----------------------------- MODULE ShareBasic -----------------------------
(***************************************************************************)
(* From an identity a client was handed to the bytes somebody else gets:   *)
(* saved entries, shares of entries, copies made from shares, downloads.   *)
(*   /user/repository/save         (user_repository_save_logic.go)         *)
(*   /share/basic/create           (share_basic_create_logic.go)           *)
(*   /share/basic/detail           (share_basic_detail_logic.go)           *)
(*   /share/basic/save             (share_basic_save_logic.go)             *)
(*   /user/file/download[/batch]   (file_download_logic.go)                *)
(* Uploads are steps of the abstract ContentStore, which RepositoryPool    *)
(* implements.  Of user_repository the columns deleted_at and              *)
(* repository_identity are kept: names, levels and owners are the matter   *)
(* of UserRepository, and no handler here but delete looks at the owner.   *)
(***************************************************************************)
EXTENDS Integers, FiniteSets, SequencesExt

CONSTANTS
  Identity, Content,
  Node,        \* the rows user_repository can get
  Share,       \* the rows share_basic can get
  Request,     \* slots for requests in flight
  Lasting,     \* the values of expired_time clients ask for, in ticks
  MaxAge,      \* bound: the age of a share is not counted further
  MaxList,     \* bound: how many entries a batch asks for
  MaxViews,    \* bound: how often a share is asked for
  MaxFaults,   \* bound: how many calls fail
  Cut,         \* what is left of a file when its copying broke off
  None         \* no value

ASSUME LastingAssumption == /\ MaxAge \in Nat
                            /\ Lasting \subseteq 0..MaxAge - 1
ASSUME BoundsAssumption == /\ MaxList \in Nat \ {0}
                           /\ MaxViews \in Nat /\ MaxFaults \in Nat
ASSUME NoneAssumption == None \notin Identity \cup Content \cup Node \cup Share
ASSUME CutAssumption == Cut \notin Content \cup {None}

VARIABLES
  bound,       \* bound[i]: the content of repository_pool's row i, or None
  promised,    \* the pairs of a file and the identity its client was handed
  status,      \* status[n]: not inserted yet, live, or soft-deleted
  holds,       \* holds[n]: the repository_identity of n; None for a folder
  meant,       \* meant[n]: the file the user saw when he saved n
  entry,       \* entry[s]: the user_repository_identity of share s
  captured,    \* captured[s]: its repository_identity
  lasts,       \* lasts[s]: its expired_time, 0 for ever
  age,         \* age[s]: the ticks since its created_at
  clicks,      \* clicks[s]: its click_num
  views,       \* views[s]: how often s was shown
  seen,        \* the pairs of a file and an identity that details showed
  at,          \* at[r]: the next call of request r
  node,        \* node[r]: the entry to share
  share,       \* share[r]: the share asked for
  pair,        \* pair[r]: the file and the identity r works with
  list,        \* list[r]: the entries a download has still to come to
  asked,       \* asked[r]: the entries it was asked for
  got,         \* got[r]: what it has got of them
  late,        \* late[r]: whether the share had run out when r arrived
  broken,      \* broken[r]: the entries of a download that a call failed for
  faults       \* how many calls have failed

pool == <<bound, promised>>
entries == <<status, holds, meant>>
shares == <<entry, captured, lasts, age, clicks, views>>
request == <<at, node, share, pair, list, asked, got, late, broken>>
vars == <<pool, entries, shares, seen, request, faults>>

Store == INSTANCE ContentStore

Stages == {"idle", "createGet", "createInsert", "detailGet", "detailClick",
           "saveGet", "saveInsert", "get", "pool", "object",
           "batchGet", "batchPool", "batchObject", "answer"}
DownloadStages == {"get", "pool", "object", "batchGet", "batchPool", "batchObject"}

Pair == [content : Content, identity : Identity]
NoPair == [content |-> None, identity |-> None]

Used == {n \in Node : status[n] # "free"}
Made == {s \in Share : entry[s] # None}
Rows(S) == {i \in Identity : bound[i] # None} \cap S

(* Bound: a row is asked for only while one is left. *)
RowLeft == Cardinality(Node \ Used) >
  Cardinality({r \in Request : at[r] \in {"saveGet", "saveInsert"}})
ShareLeft == Cardinality(Share \ Made) >
  Cardinality({r \in Request : at[r] \in {"createGet", "createInsert"}})

-----------------------------------------------------------------------------
Init ==
  /\ Store!Init
  /\ status = [n \in Node |-> "free"]
  /\ holds = [n \in Node |-> None]
  /\ meant = [n \in Node |-> None]
  /\ entry = [s \in Share |-> None]
  /\ captured = [s \in Share |-> None]
  /\ lasts = [s \in Share |-> 0]
  /\ age = [s \in Share |-> 0]
  /\ clicks = [s \in Share |-> 0]
  /\ views = [s \in Share |-> 0]
  /\ seen = {}
  /\ at = [r \in Request |-> "idle"]
  /\ node = [r \in Request |-> None]
  /\ share = [r \in Request |-> None]
  /\ pair = [r \in Request |-> NoPair]
  /\ list = [r \in Request |-> <<>>]
  /\ asked = [r \in Request |-> {}]
  /\ got = [r \in Request |-> {}]
  /\ late = [r \in Request |-> FALSE]
  /\ broken = [r \in Request |-> {}]
  /\ faults = 0

Arrive(r, stage) == at[r] = "idle" /\ at' = [at EXCEPT ![r] = stage]

Goto(r, stage) == /\ at' = [at EXCEPT ![r] = stage]
                  /\ UNCHANGED <<node, share, asked, late>>

Return(r) == /\ at' = [at EXCEPT ![r] = "idle"]
             /\ node' = [node EXCEPT ![r] = None]
             /\ share' = [share EXCEPT ![r] = None]
             /\ pair' = [pair EXCEPT ![r] = NoPair]
             /\ list' = [list EXCEPT ![r] = <<>>]
             /\ asked' = [asked EXCEPT ![r] = {}]
             /\ got' = [got EXCEPT ![r] = {}]
             /\ late' = [late EXCEPT ![r] = FALSE]
             /\ broken' = [broken EXCEPT ![r] = {}]

Fault == faults < MaxFaults /\ faults' = faults + 1
NoFault == faults' = faults

-----------------------------------------------------------------------------
(* Uploads, and the one-statement handlers of user_repository.             *)

Upload == Store!Next /\ UNCHANGED <<entries, shares, seen, request, faults>>

Insert(n, i, c) == /\ status[n] = "free"
                   /\ status' = [status EXCEPT ![n] = "live"]
                   /\ holds' = [holds EXCEPT ![n] = i]
                   /\ meant' = [meant EXCEPT ![n] = c]

(* A client saves an identity it was handed; a folder has none. *)
Save(n) ==
  /\ RowLeft
  /\ \/ \E p \in promised : Insert(n, p.identity, p.content)
     \/ Insert(n, None, None)
  /\ UNCHANGED <<pool, shares, seen, request, faults>>

Delete(n) ==
  /\ status[n] = "live"
  /\ status' = [status EXCEPT ![n] = "deleted"]
  /\ UNCHANGED <<pool, holds, meant, shares, seen, request, faults>>

-----------------------------------------------------------------------------
(* /share/basic/create: get the entry, whosever it is, and insert a share  *)
(* with the repository_identity it had.                                    *)
AskCreate(r) == \E n \in Used :
  /\ ShareLeft
  /\ Arrive(r, "createGet")
  /\ node' = [node EXCEPT ![r] = n]
  /\ UNCHANGED <<pool, entries, shares, seen, share, pair, list, asked, got,
                 late, broken, faults>>

\* Mutant of EntryFor: the lookup loses its condition on the identity.
AnyEntry(n) == {m \in Node : status[m] = "live"}

EntryFor(n) == {m \in {n} : status[m] = "live"}

CreateGet(r) ==
  /\ at[r] = "createGet"
  /\ \/ /\ \E n \in EntryFor(node[r]) :
             pair' = [pair EXCEPT ![r].identity = holds[n]]
        /\ Goto(r, "createInsert")
        /\ UNCHANGED <<list, got, broken>>
     \/ EntryFor(node[r]) = {} /\ Return(r)
  /\ UNCHANGED <<pool, entries, shares, seen, faults>>

CreateInsert(r) ==
  /\ at[r] = "createInsert"
  /\ \E s \in Share \ Made, t \in Lasting :
       /\ entry' = [entry EXCEPT ![s] = node[r]]
       /\ captured' = [captured EXCEPT ![s] = pair[r].identity]
       /\ lasts' = [lasts EXCEPT ![s] = t]
       /\ age' = [age EXCEPT ![s] = 0]
  /\ Return(r)
  /\ UNCHANGED <<pool, entries, clicks, views, seen, faults>>

-----------------------------------------------------------------------------
(* /share/basic/detail: one query over the three tables, the check of the  *)
(* time, the count of the click, the answer.                               *)
PastItsTime(s) == lasts[s] # 0 /\ lasts[s] < age[s]

\* Bound: a share is asked for while it has been shown less than MaxViews.
AskDetail(r) == \E s \in Made :
  /\ Arrive(r, "detailGet")
  /\ views[s] + Cardinality({q \in Request : share[q] = s}) < MaxViews
  /\ share' = [share EXCEPT ![r] = s]
  /\ late' = [late EXCEPT ![r] = PastItsTime(s)]
  /\ UNCHANGED <<pool, entries, shares, seen, node, pair, list, asked, got,
                 broken, faults>>

(* Mutant of Expired: a share with a time never runs out. *)
NeverExpired(s) == FALSE

(* The time is over when now is after created_at + expired_time. *)
Expired(s) == lasts[s] > 0 /\ age[s] > lasts[s]

\* Mutant of DetailGet: the click is counted before the time is looked at.
DetailGetCounts(r) ==
  /\ at[r] = "detailGet"
  /\ clicks' = [clicks EXCEPT ![share[r]] = @ + 1]
  /\ \/ /\ ~Expired(share[r])
        /\ Goto(r, "detailClick")
        /\ UNCHANGED <<pair, list, got, broken>>
     \/ Expired(share[r]) /\ Return(r)
  /\ UNCHANGED <<pool, entries, entry, captured, lasts, age, views, seen, faults>>

(* Mutant of Joined: the join loses its condition on the identity. *)
JoinedToAny(i) == {[content |-> bound[j], identity |-> i] : j \in Rows(Identity)}

(* The columns of repository_pool are NULL when the share has no identity. *)
Joined(i) == IF i = None THEN {NoPair}
             ELSE {[content |-> bound[i], identity |-> i]}

DetailGet(r) ==
  /\ at[r] = "detailGet"
  /\ \/ /\ ~Expired(share[r])
        /\ \E p \in Joined(captured[share[r]]) : pair' = [pair EXCEPT ![r] = p]
        /\ Goto(r, "detailClick")
        /\ UNCHANGED <<list, got, broken>>
     \/ Expired(share[r]) /\ Return(r)
  /\ UNCHANGED <<pool, entries, shares, seen, faults>>

(* click_num = click_num + 1 in one statement, whose error is ignored; the *)
(* answer may be lost.                                                     *)
DetailClick(r) ==
  /\ at[r] = "detailClick"
  /\ \/ clicks' = [clicks EXCEPT ![share[r]] = @ + 1] /\ NoFault
     \/ UNCHANGED clicks /\ Fault
  /\ views' = [views EXCEPT ![share[r]] = @ + 1]
  /\ seen' \in {seen, seen \cup ({pair[r]} \ {NoPair})}
  /\ Return(r)
  /\ UNCHANGED <<pool, entries, entry, captured, lasts, age>>

-----------------------------------------------------------------------------
(* /share/basic/save: the identity a detail showed is saved as an entry.   *)
(* The share is not looked at again.                                       *)
AskSave(r) == \E p \in seen \cup {NoPair} :
  /\ RowLeft
  /\ Arrive(r, "saveGet")
  /\ pair' = [pair EXCEPT ![r] = p]
  /\ UNCHANGED <<pool, entries, shares, seen, node, share, list, asked, got,
                 late, broken, faults>>

SaveGet(r) ==
  /\ at[r] = "saveGet"
  /\ \/ /\ pair[r].identity \in Rows(Identity)
        /\ Goto(r, "saveInsert")
        /\ UNCHANGED <<pair, list, got, broken>>
     \/ pair[r].identity \notin Rows(Identity) /\ Return(r)
  /\ UNCHANGED <<pool, entries, shares, seen, faults>>

SaveInsert(r) ==
  /\ at[r] = "saveInsert"
  /\ \E n \in Node : Insert(n, pair[r].identity, pair[r].content)
  /\ Return(r)
  /\ UNCHANGED <<pool, shares, seen, faults>>

-----------------------------------------------------------------------------
(* /user/file/download and .../batch: for each entry asked for, whosever   *)
(* it is, get the entry, get its row of repository_pool, and copy the      *)
(* object.                                                                 *)
AskDownload(r) == \E n \in Used :
  /\ Arrive(r, "get")
  /\ list' = [list EXCEPT ![r] = <<n>>]
  /\ asked' = [asked EXCEPT ![r] = {n}]
  /\ UNCHANGED <<pool, entries, shares, seen, node, share, pair, got, late,
                 broken, faults>>

Lists == UNION {[1..k -> Used] : k \in 1..MaxList}
AskBatch(r) == \E l \in Lists :
  /\ Arrive(r, "batchGet")
  /\ list' = [list EXCEPT ![r] = l]
  /\ asked' = [asked EXCEPT ![r] = ToSet(l)]
  /\ UNCHANGED <<pool, entries, shares, seen, node, share, pair, got, late,
                 broken, faults>>

Batch(r) == at[r] \in {"batchGet", "batchPool", "batchObject"}

(* Mutant of Advance: the entry stays in the list. *)
AdvanceNowhere(r) ==
  /\ pair' = [pair EXCEPT ![r] = NoPair]
  /\ UNCHANGED list
  /\ Goto(r, IF Len(list[r]) > 1 THEN "batchGet" ELSE "answer")

(* The next entry of the loop, or the end of it. *)
Advance(r) ==
  /\ pair' = [pair EXCEPT ![r] = NoPair]
  /\ list' = [list EXCEPT ![r] = Tail(@)]
  /\ Goto(r, IF Len(list[r]) > 1 THEN "batchGet" ELSE "answer")

(* Mutant of Skip: the batch ends with the first entry it cannot have. *)
SkipAll(r, lost) ==
  \/ ~Batch(r) /\ Return(r)
  \/ /\ Batch(r) /\ Goto(r, "answer")
     /\ pair' = [pair EXCEPT ![r] = NoPair]
     /\ list' = [list EXCEPT ![r] = <<>>]
     /\ broken' = [broken EXCEPT ![r] = @ \cup lost]
     /\ UNCHANGED got

(* The entry cannot be had: the single download ends with an error, the    *)
(* batch leaves the entry out.                                             *)
Skip(r, lost) ==
  \/ ~Batch(r) /\ Return(r)
  \/ /\ Batch(r) /\ Advance(r)
     /\ broken' = [broken EXCEPT ![r] = @ \cup lost]
     /\ UNCHANGED got

Current(r) == Head(list[r])

DownloadGet(r) ==
  /\ at[r] \in {"get", "batchGet"}
  /\ LET n == Current(r)
         file == status[n] = "live" /\ holds[n] # None
     IN  \/ /\ file
            /\ pair' = [pair EXCEPT ![r].identity = holds[n]]
            /\ Goto(r, IF Batch(r) THEN "batchPool" ELSE "pool")
            /\ UNCHANGED <<list, got, broken>>
         \/ ~file /\ Skip(r, {})
  /\ NoFault
  /\ UNCHANGED <<pool, entries, shares, seen>>

(* Mutant of RowFor: the lookup loses its condition on the identity. *)
AnyRow(i) == Rows(Identity)

RowFor(i) == Rows({i})

DownloadPool(r) ==
  /\ at[r] \in {"pool", "batchPool"}
  /\ \/ \E i \in RowFor(pair[r].identity) :
          /\ pair' = [pair EXCEPT ![r].content = bound[i]]
          /\ Goto(r, IF Batch(r) THEN "batchObject" ELSE "object")
          /\ UNCHANGED <<list, got, broken>>
     \/ RowFor(pair[r].identity) = {} /\ Skip(r, {})
  /\ NoFault
  /\ UNCHANGED <<pool, entries, shares, seen>>

Gets(r, data) == got' = [got EXCEPT ![r] = @ \cup {<<Current(r), data>>}]

(* The object is copied into the answer or the archive. *)
DownloadObject(r) ==
  /\ at[r] \in {"object", "batchObject"}
  /\ Gets(r, pair[r].content)
  /\ Advance(r)
  /\ NoFault
  /\ UNCHANGED <<pool, entries, shares, seen, broken>>

(* A call fails: the entry cannot be had.  If its copying has begun, what  *)
(* was copied so far stays in the archive; the single download has         *)
(* streamed it to the client, whom the text of the error reaches after it. *)
DownloadFails(r) ==
  /\ at[r] \in DownloadStages
  /\ \/ Skip(r, {Current(r)})
     \/ /\ at[r] \in {"object", "batchObject"}
        /\ Gets(r, Cut)
        /\ Advance(r)
        /\ broken' = [broken EXCEPT ![r] = @ \cup {Current(r)}]
  /\ Fault
  /\ UNCHANGED <<pool, entries, shares, seen>>

Answer(r) ==
  /\ at[r] = "answer"
  /\ Return(r)
  /\ UNCHANGED <<pool, entries, shares, seen, faults>>

-----------------------------------------------------------------------------
(* A statement fails, or the process stops. *)
Fail(r) ==
  /\ at[r] \notin DownloadStages \cup {"idle", "answer", "detailClick"}
  /\ Return(r)
  /\ Fault
  /\ UNCHANGED <<pool, entries, shares, seen>>

Older(a) == IF a < MaxAge THEN a + 1 ELSE a
Tick == /\ age' = [s \in Share |-> IF s \in Made THEN Older(age[s]) ELSE age[s]]
        /\ UNCHANGED <<pool, entries, entry, captured, lasts, clicks, views,
                       seen, request, faults>>

Ask(r) == \/ AskCreate(r) \/ AskDetail(r) \/ AskSave(r)
          \/ AskDownload(r) \/ AskBatch(r)
Serve(r) == \/ CreateGet(r) \/ CreateInsert(r)
            \/ DetailGet(r) \/ DetailClick(r)
            \/ SaveGet(r) \/ SaveInsert(r)
            \/ DownloadGet(r) \/ DownloadPool(r) \/ DownloadObject(r)
            \/ DownloadFails(r) \/ Answer(r)

Next == \/ Upload \/ Tick
        \/ \E n \in Node : Save(n) \/ Delete(n)
        \/ \E r \in Request : Ask(r) \/ Serve(r) \/ Fail(r)

Spec == Init /\ [][Next]_vars

-----------------------------------------------------------------------------
(* Entries, shares and requests have all the fields their kind needs. *)
TypeOK ==
  /\ bound \in [Identity -> Content \cup {None}]
  /\ promised \subseteq Pair
  /\ status \in [Node -> {"free", "live", "deleted"}]
  /\ holds \in [Node -> Identity \cup {None}]
  /\ meant \in [Node -> Content \cup {None}]
  /\ entry \in [Share -> Node \cup {None}]
  /\ captured \in [Share -> Identity \cup {None}]
  /\ lasts \in [Share -> Lasting \cup {0}]
  /\ age \in [Share -> 0..MaxAge]
  /\ clicks \in [Share -> Nat]
  /\ views \in [Share -> Nat]
  /\ seen \subseteq Pair
  /\ at \in [Request -> Stages]
  /\ node \in [Request -> Node \cup {None}]
  /\ share \in [Request -> Share \cup {None}]
  /\ pair \in [Request -> [content : Content \cup {None},
                           identity : Identity \cup {None}]]
  /\ list \in [Request -> Seq(Node)]
  /\ \A r \in Request : /\ ToSet(list[r]) \subseteq Used /\ Len(list[r]) <= MaxList
                        /\ at[r] \in DownloadStages <=> list[r] # <<>>
  /\ asked \in [Request -> SUBSET Node]
  /\ got \in [Request -> SUBSET (Node \X (Content \cup {Cut}))]
  /\ late \in [Request -> BOOLEAN]
  /\ broken \in [Request -> SUBSET Node]
  /\ faults \in 0..MaxFaults

(* An entry leads to the file its user saw when he saved it, whether he    *)
(* uploaded it or took it over from a share, by any number of hands: the   *)
(* identity travels through clients and is not checked on the way.         *)
EntriesLeadToMeant == \A n \in Node :
  holds[n] # None => bound[holds[n]] = meant[n]

(* A share goes on to lead to the file of the entry it was made from, also *)
(* when the entry was deleted before the insert or after it.               *)
SharesLeadToMeant == \A s \in Made :
  IF captured[s] = None THEN meant[entry[s]] = None
                        ELSE bound[captured[s]] = meant[entry[s]]

(* What a download delivers for an entry is the file its user meant, or    *)
(* the beginning of it if a call failed for this entry.                    *)
DownloadsDeliverMeant == \A r \in Request : \A d \in got[r] :
  IF d[2] = Cut THEN d[1] \in broken[r] ELSE d[2] = meant[d[1]]

(* A download has the whole file of every entry it was asked for, unless   *)
(* that entry was deleted meanwhile or a call failed for it: what happens  *)
(* to one entry of a batch costs no other.                                 *)
ArchiveComplete == \A r \in Request : at[r] = "answer" =>
  \A n \in asked[r] \ broken[r] :
    status[n] = "live" /\ holds[n] # None => <<n, meant[n]>> \in got[r]

(* Nobody who asks after a share has run out gets to see it. *)
ShownInTime == \A r \in Request : at[r] = "detailClick" => ~late[r]

(* The clicks of a share are the times it was shown, whoever else looked   *)
(* at it at the same time, but for updates that failed.                    *)
ClicksCounted == \A s \in Share :
  views[s] - faults <= clicks[s] /\ clicks[s] <= views[s]
=============================================================================
