-------------------------- MODULE ShareBasicProofs --------------------------
(***************************************************************************)
(* Proofs about ShareBasic, for any number of files, entries, shares,      *)
(* requests and faults: an identity leads to the file that was meant,      *)
(* through every hand it goes; archives are complete; shares end in time.  *)
(***************************************************************************)
EXTENDS ShareBasic, SequenceTheorems, TLAPS

-----------------------------------------------------------------------------
(* The invariant: what the tables hold, and what each request goes by.     *)
TablesTyped ==
  /\ bound \in [Identity -> Content \cup {None}]
  /\ promised \subseteq Pair
  /\ status \in [Node -> {"free", "live", "deleted"}]
  /\ holds \in [Node -> Identity \cup {None}]
  /\ meant \in [Node -> Content \cup {None}]
  /\ entry \in [Share -> Node \cup {None}]
  /\ captured \in [Share -> Identity \cup {None}]
  /\ lasts \in [Share -> Lasting \cup {0}]
  /\ age \in [Share -> 0..MaxAge]
  /\ clicks \in [Share -> Nat]
  /\ views \in [Share -> Nat]
  /\ seen \subseteq Pair
  /\ faults \in 0..MaxFaults

RequestsTyped ==
  /\ at \in [Request -> Stages]
  /\ node \in [Request -> Node \cup {None}]
  /\ share \in [Request -> Share \cup {None}]
  /\ pair \in [Request -> [content : Content \cup {None},
                           identity : Identity \cup {None}]]
  /\ list \in [Request -> Seq(Node)]
  /\ asked \in [Request -> SUBSET Node]
  /\ got \in [Request -> SUBSET (Node \X (Content \cup {Cut}))]
  /\ late \in [Request -> BOOLEAN]
  /\ broken \in [Request -> SUBSET Node]

(* A pair leads to the file it names: that is all a client goes by.        *)
Faithful(p) == bound[p.identity] = p.content

(* A share keeps the identity its entry had, and no entry changes its own. *)
TablesOK ==
  /\ \A p \in promised \cup seen : Faithful(p)
  /\ \A n \in Node : holds[n] = None <=> meant[n] = None
  /\ EntriesLeadToMeant
  /\ \A s \in Made : entry[s] \in Used /\ captured[s] = holds[entry[s]]
  /\ ClicksCounted

(* What a request found before its next call. *)
CarriesOK(r) ==
  /\ at[r] \in {"createGet", "createInsert"} => node[r] \in Used
  /\ at[r] = "createInsert" => pair[r].identity = holds[node[r]]
  /\ at[r] \in {"detailGet", "detailClick"} => share[r] \in Made
  /\ at[r] \in {"detailClick", "saveGet", "saveInsert"} =>
       pair[r] = NoPair \/ (pair[r] \in Pair /\ Faithful(pair[r]))

(* A share that had run out has run out for good. *)
LateOK(r) ==
  /\ at[r] = "detailGet" /\ late[r] => Expired(share[r])
  /\ at[r] = "detailClick" => ~late[r]

(* The entry at the head of the list is the one being downloaded. *)
ListOK(r) ==
  /\ ToSet(list[r]) \cup asked[r] \subseteq Used /\ Len(list[r]) <= MaxList
  /\ at[r] \in DownloadStages <=> list[r] # <<>>
  /\ at[r] \in {"pool", "batchPool", "object", "batchObject"} =>
       pair[r].identity = holds[Head(list[r])] /\ pair[r].identity # None
  /\ at[r] \in {"object", "batchObject"} => pair[r].content = meant[Head(list[r])]

DeliversMeant(r) == \A d \in got[r] :
  d[1] \in Used /\ IF d[2] = Cut THEN d[1] \in broken[r] ELSE d[2] = meant[d[1]]

(* An entry asked for is still to come, or has been dealt with. *)
Gotten(r, n) == status[n] = "live" /\ holds[n] # None => <<n, meant[n]>> \in got[r]
ArchiveOK(r) ==
  at[r] \in DownloadStages \cup {"answer"} =>
    \A n \in asked[r] \ broken[r] : n \in ToSet(list[r]) \/ Gotten(r, n)

Good(r) == CarriesOK(r) /\ LateOK(r) /\ ListOK(r) /\ DeliversMeant(r) /\ ArchiveOK(r)

IInv == TablesTyped /\ RequestsTyped /\ TablesOK /\ \A r \in Request : Good(r)

-----------------------------------------------------------------------------
(* What no step takes back, and what that means for the requests a step    *)
(* does not concern.                                                       *)
Lasts ==
  /\ \A i \in Identity : bound[i] # None => bound'[i] = bound[i]
  /\ \A n \in Used : /\ n \in Used' /\ holds'[n] = holds[n] /\ meant'[n] = meant[n]
                     /\ status'[n] = "live" => status[n] = "live"
  /\ \A s \in Made : /\ s \in Made' /\ entry'[s] = entry[s]
                     /\ captured'[s] = captured[s] /\ (Expired(s) => Expired(s)')

Same(r) ==
  /\ at'[r] = at[r] /\ node'[r] = node[r] /\ share'[r] = share[r]
  /\ pair'[r] = pair[r] /\ list'[r] = list[r] /\ asked'[r] = asked[r]
  /\ got'[r] = got[r] /\ late'[r] = late[r] /\ broken'[r] = broken[r]

LEMMA OthersStay ==
  ASSUME IInv, Lasts, NEW r \in Request, Same(r)
  PROVE  Good(r)'
<1> USE DEF IInv, Same
<1>0. Good(r)
  OBVIOUS
<1>1. CarriesOK(r)'
  <2>1. pair[r] \in Pair /\ Faithful(pair[r]) => Faithful(pair[r])'
    BY NoneAssumption DEF Lasts, Faithful, Pair
  <2> QED
    BY <1>0, <2>1 DEF Good, CarriesOK, Lasts, Faithful
<1>2. LateOK(r)'
  BY <1>0 DEF Good, CarriesOK, LateOK, Lasts, Expired
<1>3. ListOK(r)'
  <2>1. list[r] # <<>> => Head(list[r]) \in ToSet(list[r])
    BY DEF RequestsTyped, ToSet
  <2>2. at[r] \in {"pool", "batchPool", "object", "batchObject"} => Head(list[r]) \in Used
    BY <1>0, <2>1 DEF Good, ListOK, DownloadStages
  <2>3. ToSet(list[r]) \cup asked[r] \subseteq Used'
    BY <1>0 DEF Good, ListOK, Lasts
  <2> QED
    BY <1>0, <2>2, <2>3 DEF Good, ListOK, Lasts
<1>4. DeliversMeant(r)'
  BY <1>0 DEF Good, DeliversMeant, Lasts
<1>5. ArchiveOK(r)'
  BY <1>0 DEF Good, ArchiveOK, ListOK, Gotten, Lasts
<1> QED
  BY <1>1, <1>2, <1>3, <1>4, <1>5 DEF Good

(* A step of one request that leaves the tables alone. *)
LEMMA QuietKeeps ==
  ASSUME IInv, UNCHANGED <<pool, entries, shares, seen>>, faults' \in faults..MaxFaults,
         NEW r \in Request, RequestsTyped', Good(r)', \A d \in Request \ {r} : Same(d)
  PROVE  IInv'
<1> USE DEF IInv
<1>1. UNCHANGED <<bound, promised, status, holds, meant, entry, captured, lasts, age,
                  clicks, views>> /\ UNCHANGED seen
  BY DEF pool, entries, shares
<1>2. Lasts
  BY <1>1 DEF Lasts, Used, Made, Expired
<1>3. TablesTyped'
  BY <1>1, BoundsAssumption DEF TablesTyped
<1>4. TablesOK'
  <2>1. ClicksCounted'
    BY <1>1, BoundsAssumption DEF TablesOK, TablesTyped, ClicksCounted
  <2> QED
    BY <1>1, <2>1 DEF TablesOK, Faithful, EntriesLeadToMeant, Made, Used
<1>5. \A d \in Request : Good(d)'
  BY <1>2, OthersStay
<1> QED
  BY <1>3, <1>4, <1>5

(* A step that changes the tables and no request, or ends one. *)
LEMMA TablesKeep ==
  ASSUME IInv, Lasts, TablesTyped', TablesOK', RequestsTyped',
         \A r \in Request : Same(r) \/ Good(r)'
  PROVE  IInv'
BY OthersStay DEF IInv

LEMMA ReturnKeeps ==
  ASSUME RequestsTyped, NEW r \in Request, Return(r)
  PROVE  RequestsTyped' /\ Good(r)' /\ \A d \in Request \ {r} : Same(d)
<1>1. RequestsTyped'
  BY DEF RequestsTyped, Return, Stages, NoPair
<1>2. /\ at'[r] = "idle" /\ list'[r] = <<>> /\ asked'[r] = {} /\ got'[r] = {}
  BY DEF RequestsTyped, Return
<1>3. Good(r)'
  <2>1. ToSet(list[r])' = {} /\ Len(list'[r]) = 0
    BY <1>2 DEF ToSet
  <2> QED
    BY <1>2, <2>1, BoundsAssumption DEF Good, CarriesOK, LateOK, ListOK, DeliversMeant,
       ArchiveOK, DownloadStages
<1>4. \A d \in Request \ {r} : Same(d)
  BY DEF Same, Return, RequestsTyped
<1> QED
  BY <1>1, <1>3, <1>4

LEMMA FaultsGrow ==
  ASSUME TablesTyped, Fault \/ NoFault \/ UNCHANGED faults
  PROVE  faults' \in faults..MaxFaults
BY BoundsAssumption DEF TablesTyped, Fault, NoFault

-----------------------------------------------------------------------------
(* A request that arrives.                                                 *)
LEMMA AskCreateKeeps ==
  ASSUME IInv, NEW r \in Request, AskCreate(r)
  PROVE  IInv'
<1> USE DEF IInv
<1>1. PICK n \in Used : node' = [node EXCEPT ![r] = n]
  BY DEF AskCreate
<1>2. /\ at[r] = "idle" /\ at' = [at EXCEPT ![r] = "createGet"]
      /\ UNCHANGED <<pool, entries, shares, seen, share, pair, list, asked, got, late,
                     broken, faults>>
  BY DEF AskCreate, Arrive
<1>3. RequestsTyped'
  BY <1>1, <1>2 DEF RequestsTyped, Stages, Used
<1>4. \A d \in Request \ {r} : Same(d)
  BY <1>1, <1>2 DEF Same, RequestsTyped
<1>5. at'[r] = "createGet" /\ node'[r] = n
  BY <1>1, <1>2 DEF RequestsTyped
<1>6. UNCHANGED <<status, holds, meant>> /\ Good(r)
  BY <1>2 DEF entries
<1>7. Good(r)'
  BY <1>2, <1>5, <1>6 DEF Good, CarriesOK, LateOK, ListOK, DeliversMeant, ArchiveOK,
     DownloadStages, Used
<1> QED
  BY <1>2, <1>3, <1>4, <1>7, FaultsGrow, QuietKeeps

LEMMA TimesAreNat == \A t \in Lasting \cup {0} : t \in Nat
<1>1. 0..MaxAge - 1 \subseteq Nat
  BY LastingAssumption
<1> QED
  BY <1>1, LastingAssumption

LEMMA AskDetailKeeps ==
  ASSUME IInv, NEW r \in Request, AskDetail(r)
  PROVE  IInv'
<1> USE DEF IInv
<1>1. PICK s \in Made : /\ share' = [share EXCEPT ![r] = s]
                        /\ late' = [late EXCEPT ![r] = PastItsTime(s)]
  BY DEF AskDetail
<1>2. /\ at[r] = "idle" /\ at' = [at EXCEPT ![r] = "detailGet"]
      /\ UNCHANGED <<pool, entries, shares, seen, node, pair, list, asked, got,
                     broken, faults>>
  BY DEF AskDetail, Arrive
<1>3. PastItsTime(s) \in BOOLEAN /\ (PastItsTime(s) => Expired(s))
  <2>1. lasts[s] \in Lasting \cup {0}
    BY DEF TablesTyped, Made
  <2>2. lasts[s] \in Nat
    BY <2>1, TimesAreNat
  <2>3. age[s] \in Nat
    BY LastingAssumption DEF TablesTyped, Made
  <2> QED
    BY <2>2, <2>3 DEF PastItsTime, Expired
<1>4. RequestsTyped'
  BY <1>1, <1>2, <1>3 DEF RequestsTyped, Stages, Made
<1>5. \A d \in Request \ {r} : Same(d)
  BY <1>1, <1>2 DEF Same, RequestsTyped
<1>6. at'[r] = "detailGet" /\ share'[r] = s /\ late'[r] = PastItsTime(s)
  BY <1>1, <1>2 DEF RequestsTyped
<1>7. UNCHANGED <<status, holds, meant, entry, lasts, age>> /\ Good(r)
  BY <1>2 DEF entries, shares
<1>8. Good(r)'
  BY <1>2, <1>3, <1>6, <1>7 DEF Good, CarriesOK, LateOK, ListOK, DeliversMeant, ArchiveOK,
     DownloadStages, Used, Made, Expired
<1> QED
  BY <1>2, <1>4, <1>5, <1>8, FaultsGrow, QuietKeeps

LEMMA AskSaveKeeps ==
  ASSUME IInv, NEW r \in Request, AskSave(r)
  PROVE  IInv'
<1> USE DEF IInv
<1>1. PICK p \in seen \cup {NoPair} : pair' = [pair EXCEPT ![r] = p]
  BY DEF AskSave
<1>2. /\ at[r] = "idle" /\ at' = [at EXCEPT ![r] = "saveGet"]
      /\ UNCHANGED <<pool, entries, shares, seen, node, share, list, asked, got, late,
                     broken, faults>>
  BY DEF AskSave, Arrive
<1>3. p = NoPair \/ (p \in Pair /\ Faithful(p))
  BY DEF TablesOK, TablesTyped
<1>4. RequestsTyped'
  BY <1>1, <1>2, <1>3 DEF RequestsTyped, Stages, NoPair, Pair
<1>5. \A d \in Request \ {r} : Same(d)
  BY <1>1, <1>2 DEF Same, RequestsTyped
<1>6. at'[r] = "saveGet" /\ pair'[r] = p
  BY <1>1, <1>2 DEF RequestsTyped
<1>7. UNCHANGED <<bound, status, holds, meant>> /\ Good(r)
  BY <1>2 DEF entries, pool
<1>8. Good(r)'
  BY <1>2, <1>3, <1>6, <1>7 DEF Good, CarriesOK, LateOK, ListOK, DeliversMeant, ArchiveOK,
     DownloadStages, Used, Faithful
<1> QED
  BY <1>2, <1>4, <1>5, <1>8, FaultsGrow, QuietKeeps

(* One entry or a list of them. *)
LEMMA AskForKeeps ==
  ASSUME IInv, NEW r \in Request, at[r] = "idle", NEW l \in Seq(Used), l # <<>>,
         Len(l) <= MaxList, NEW stage \in {"get", "batchGet"},
         at' = [at EXCEPT ![r] = stage], list' = [list EXCEPT ![r] = l],
         asked' = [asked EXCEPT ![r] = ToSet(l)],
         UNCHANGED <<pool, entries, shares, seen, node, share, pair, got, late,
                     broken, faults>>
  PROVE  IInv'
<1> USE DEF IInv
<1>1. ToSet(l) \subseteq Used /\ l \in Seq(Node)
  BY DEF ToSet, Used
<1>2. RequestsTyped'
  BY <1>1 DEF RequestsTyped, Stages, Used
<1>3. \A d \in Request \ {r} : Same(d)
  BY DEF Same, RequestsTyped
<1>4. at'[r] = stage /\ list'[r] = l /\ asked'[r] = ToSet(l)
  BY DEF RequestsTyped
<1>5. UNCHANGED <<status, holds, meant>> /\ Good(r)
  BY DEF entries
<1>6. ListOK(r)'
  BY <1>1, <1>4, <1>5 DEF ListOK, DownloadStages, Used
<1>7. Good(r)'
  BY <1>4, <1>5, <1>6 DEF Good, CarriesOK, LateOK, DeliversMeant, ArchiveOK,
     Used
<1> QED
  BY <1>2, <1>3, <1>7, FaultsGrow, QuietKeeps

LEMMA AskDownloadKeeps ==
  ASSUME IInv, NEW r \in Request, AskDownload(r)
  PROVE  IInv'
<1>1. PICK n \in Used : /\ list' = [list EXCEPT ![r] = <<n>>]
                        /\ asked' = [asked EXCEPT ![r] = {n}]
  BY DEF AskDownload
<1>2. <<n>> \in Seq(Used) /\ Len(<<n>>) <= MaxList /\ <<n>> # <<>> /\ ToSet(<<n>>) = {n}
  BY BoundsAssumption DEF ToSet
<1> QED
  BY <1>1, <1>2, AskForKeeps DEF AskDownload, Arrive

LEMMA AskBatchKeeps ==
  ASSUME IInv, NEW r \in Request, AskBatch(r)
  PROVE  IInv'
<1>1. PICK l \in Lists : /\ list' = [list EXCEPT ![r] = l]
                         /\ asked' = [asked EXCEPT ![r] = ToSet(l)]
  BY DEF AskBatch
<1>2. PICK k \in 1..MaxList : l \in [1..k -> Used]
  BY DEF Lists
<1>3. k \in Nat /\ k >= 1 /\ k <= MaxList
  BY <1>2, BoundsAssumption
<1>4. l \in Seq(Used)
  BY <1>2, <1>3, SeqDef
<1>5. Len(l) = k
  BY <1>2, <1>3, <1>4, LenProperties
<1>6. l # <<>>
  BY <1>3, <1>5
<1> QED
  BY <1>1, <1>3, <1>4, <1>5, <1>6, AskForKeeps DEF AskBatch, Arrive

-----------------------------------------------------------------------------
(* A request that is over, whatever it was about.                          *)
LEMMA EndKeeps ==
  ASSUME IInv, NEW r \in Request, Return(r), Fault \/ NoFault \/ UNCHANGED faults,
         UNCHANGED <<pool, entries, shares, seen>>
  PROVE  IInv'
BY ReturnKeeps, FaultsGrow, QuietKeeps DEF IInv

LEMMA CreateGetKeeps ==
  ASSUME IInv, NEW r \in Request, CreateGet(r)
  PROVE  IInv'
<1> USE DEF IInv
<1>1. CASE Return(r)
  BY <1>1, EndKeeps DEF CreateGet
<1>2. CASE ~Return(r)
  <2>1. PICK n \in EntryFor(node[r]) : pair' = [pair EXCEPT ![r].identity = holds[n]]
    BY <1>2 DEF CreateGet
  <2>2. /\ at[r] = "createGet" /\ at' = [at EXCEPT ![r] = "createInsert"]
        /\ UNCHANGED <<pool, entries, shares, seen, node, share, list, asked, got, late,
                       broken, faults>>
    BY <1>2 DEF CreateGet, Goto
  <2>3. n = node[r] /\ n \in Node
    BY <2>1, <2>2 DEF EntryFor, Good, CarriesOK, Used
  <2>4. RequestsTyped'
    BY <2>1, <2>2, <2>3 DEF RequestsTyped, TablesTyped, Stages
  <2>5. \A d \in Request \ {r} : Same(d)
    BY <2>1, <2>2 DEF Same, RequestsTyped
  <2>6. at'[r] = "createInsert" /\ pair'[r].identity = holds[n]
    BY <2>1, <2>2 DEF RequestsTyped
  <2>7. UNCHANGED <<status, holds, meant>> /\ Good(r)
    BY <2>2 DEF entries
  <2>8. Good(r)'
    BY <2>2, <2>3, <2>6, <2>7 DEF Good, CarriesOK, LateOK, ListOK, DeliversMeant, ArchiveOK,
       DownloadStages, Used
  <2> QED
    BY <2>2, <2>4, <2>5, <2>8, FaultsGrow, QuietKeeps
<1> QED
  BY <1>1, <1>2

LEMMA DetailGetKeeps ==
  ASSUME IInv, NEW r \in Request, DetailGet(r)
  PROVE  IInv'
<1> USE DEF IInv
<1>1. CASE Return(r)
  <2>1. UNCHANGED faults
    BY DEF DetailGet
  <2> QED
    BY <1>1, <2>1, EndKeeps DEF DetailGet
<1>2. CASE ~Return(r)
  <2> DEFINE i == captured[share[r]]
  <2>1. PICK p \in Joined(i) : pair' = [pair EXCEPT ![r] = p]
    BY <1>2 DEF DetailGet
  <2>2. /\ at[r] = "detailGet" /\ at' = [at EXCEPT ![r] = "detailClick"]
        /\ ~Expired(share[r])
        /\ UNCHANGED <<pool, entries, shares, seen, node, share, list, asked, got, late,
                       broken, faults>>
    BY <1>2 DEF DetailGet, Goto
  <2>3. share[r] \in Made /\ ~late[r]
    BY <2>2 DEF Good, CarriesOK, LateOK
  <2>4. p = NoPair \/ (p \in Pair /\ Faithful(p))
    <3>1. CASE i = None
      BY <2>1, <3>1 DEF Joined
    <3>2. CASE i # None
      <4>1. p = [content |-> bound[i], identity |-> i]
        BY <2>1, <3>2 DEF Joined
      <4>2. entry[share[r]] \in Node /\ i = holds[entry[share[r]]]
        BY <2>3 DEF TablesOK, Used
      <4>3. i \in Identity /\ bound[i] = meant[entry[share[r]]] /\ bound[i] # None
        BY <3>2, <4>2 DEF TablesOK, EntriesLeadToMeant, TablesTyped
      <4>4. bound[i] \in Content
        BY <4>3 DEF TablesTyped
      <4> HIDE DEF i
      <4> QED
        BY <4>1, <4>3, <4>4 DEF Pair, Faithful
    <3> QED
      BY <3>1, <3>2
  <2>5. RequestsTyped'
    BY <2>1, <2>2, <2>4 DEF RequestsTyped, Stages, NoPair, Pair
  <2>6. \A d \in Request \ {r} : Same(d)
    BY <2>1, <2>2 DEF Same, RequestsTyped
  <2>7. at'[r] = "detailClick" /\ pair'[r] = p
    BY <2>1, <2>2 DEF RequestsTyped
  <2>8. UNCHANGED <<bound, status, holds, meant, entry>> /\ Good(r)
    BY <2>2 DEF entries, pool, shares
  <2>9. Good(r)'
    BY <2>2, <2>3, <2>4, <2>7, <2>8 DEF Good, CarriesOK, LateOK, ListOK, DeliversMeant,
       ArchiveOK, DownloadStages, Used, Made, Faithful
  <2> QED
    BY <2>2, <2>5, <2>6, <2>9, FaultsGrow, QuietKeeps
<1> QED
  BY <1>1, <1>2

LEMMA SaveGetKeeps ==
  ASSUME IInv, NEW r \in Request, SaveGet(r)
  PROVE  IInv'
<1> USE DEF IInv
<1>1. CASE Return(r)
  <2>1. UNCHANGED faults
    BY DEF SaveGet
  <2> QED
    BY <1>1, <2>1, EndKeeps DEF SaveGet
<1>2. CASE ~Return(r)
  <2>1. /\ at[r] = "saveGet" /\ at' = [at EXCEPT ![r] = "saveInsert"]
        /\ UNCHANGED <<pool, entries, shares, seen, node, share, pair, list, asked, got,
                       late, broken, faults>>
    BY <1>2 DEF SaveGet, Goto
  <2>2. RequestsTyped'
    BY <2>1 DEF RequestsTyped, Stages
  <2>3. \A d \in Request \ {r} : Same(d)
    BY <2>1 DEF Same, RequestsTyped
  <2>4. at'[r] = "saveInsert"
    BY <2>1 DEF RequestsTyped
  <2>5. UNCHANGED <<bound, status, holds, meant>> /\ Good(r)
    BY <2>1 DEF entries, pool
  <2>6. Good(r)'
    BY <2>1, <2>4, <2>5 DEF Good, CarriesOK, LateOK, ListOK, DeliversMeant, ArchiveOK,
       DownloadStages, Used, Faithful
  <2> QED
    BY <2>1, <2>2, <2>3, <2>6, FaultsGrow, QuietKeeps
<1> QED
  BY <1>1, <1>2

-----------------------------------------------------------------------------
(* The downloads.                                                          *)
LEMMA ListFacts ==
  ASSUME NEW S, NEW s \in Seq(S), s # <<>>
  PROVE  /\ Head(s) \in S /\ Tail(s) \in Seq(S)
         /\ ToSet(s) = {Head(s)} \cup ToSet(Tail(s))
         /\ Len(Tail(s)) <= Len(s)
         /\ Tail(s) = <<>> <=> ~(Len(s) > 1)
<1>1. Len(s) \in Nat \ {0} /\ DOMAIN s = 1..Len(s)
  BY EmptySeq, LenProperties
<1>2. /\ Head(s) \in S /\ Tail(s) \in Seq(S) /\ Head(s) = s[1]
      /\ Len(Tail(s)) = Len(s) - 1
      /\ \A i \in 1..Len(s) - 1 : Tail(s)[i] = s[i + 1]
  BY <1>1
<1>3. DOMAIN Tail(s) = 1..Len(s) - 1
  BY <1>2, LenProperties
<1>4. ASSUME NEW x \in ToSet(s) PROVE x \in {Head(s)} \cup ToSet(Tail(s))
  <2>1. PICK i \in 1..Len(s) : x = s[i]
    BY <1>1 DEF ToSet
  <2>2. CASE i = 1
    BY <1>2, <2>1, <2>2
  <2>3. CASE i # 1
    <3>1. i - 1 \in 1..Len(s) - 1 /\ (i - 1) + 1 = i
      BY <1>1, <2>3
    <3>2. x = Tail(s)[i - 1]
      BY <1>2, <2>1, <3>1
    <3> QED
      BY <1>3, <3>1, <3>2 DEF ToSet
  <2> QED
    BY <2>2, <2>3
<1>5. ASSUME NEW x \in ToSet(Tail(s)) PROVE x \in ToSet(s)
  <2>1. PICK i \in 1..Len(s) - 1 : x = Tail(s)[i]
    BY <1>3 DEF ToSet
  <2>2. i + 1 \in 1..Len(s) /\ x = s[i + 1]
    BY <1>1, <1>2, <2>1
  <2> QED
    BY <1>1, <2>2 DEF ToSet
<1>6. Head(s) \in ToSet(s)
  BY <1>1, <1>2 DEF ToSet
<1>7. Tail(s) = <<>> <=> ~(Len(s) > 1)
  BY <1>1, <1>2, EmptySeq
<1> QED
  BY <1>1, <1>2, <1>4, <1>5, <1>6, <1>7

(* The loop goes on to its next entry, having dealt with this one.         *)
LEMMA AdvanceKeeps ==
  ASSUME IInv, NEW r \in Request, at[r] \in DownloadStages, Advance(r),
         UNCHANGED <<pool, entries, shares, seen>>,
         Fault \/ NoFault \/ UNCHANGED faults,
         NEW G \in SUBSET (Node \X (Content \cup {Cut})), got' = [got EXCEPT ![r] = G],
         NEW B \in SUBSET Node, broken' = [broken EXCEPT ![r] = B],
         broken[r] \subseteq B, got[r] \subseteq G,
         \A d \in G \ got[r] :
           d[1] = Current(r) /\ IF d[2] = Cut THEN d[1] \in B ELSE d[2] = meant[d[1]],
         \/ Current(r) \in B \/ Gotten(r, Current(r))
         \/ <<Current(r), meant[Current(r)]>> \in G
  PROVE  IInv'
<1> USE DEF IInv
<1>1. list[r] \in Seq(Node) /\ list[r] # <<>>
  BY DEF RequestsTyped, Good, ListOK
<1>2. /\ Head(list[r]) \in Node /\ Tail(list[r]) \in Seq(Node)
      /\ ToSet(list[r]) = {Head(list[r])} \cup ToSet(Tail(list[r]))
      /\ Len(Tail(list[r])) <= Len(list[r])
      /\ Tail(list[r]) = <<>> <=> ~(Len(list[r]) > 1)
  BY <1>1, ListFacts
<1>3. PICK stage \in {"batchGet", "answer"} :
        /\ at' = [at EXCEPT ![r] = stage]
        /\ stage = "answer" <=> Tail(list[r]) = <<>>
  BY <1>2 DEF Advance, Goto
<1>4. /\ pair' = [pair EXCEPT ![r] = NoPair] /\ list' = [list EXCEPT ![r] = Tail(list[r])]
      /\ UNCHANGED <<node, share, asked, late>>
  BY DEF Advance, Goto
<1>5. RequestsTyped'
  BY <1>2, <1>3, <1>4 DEF RequestsTyped, Stages, NoPair
<1>6. \A d \in Request \ {r} : Same(d)
  BY <1>3, <1>4 DEF Same, RequestsTyped
<1>7. /\ at'[r] = stage /\ list'[r] = Tail(list[r]) /\ asked'[r] = asked[r]
      /\ got'[r] = G /\ broken'[r] = B
  BY <1>3, <1>4 DEF RequestsTyped
<1>8. UNCHANGED <<status, holds, meant>> /\ Good(r)
  BY DEF entries
<1>9. Len(list[r]) <= MaxList /\ Len(list[r]) \in Nat /\ Len(Tail(list[r])) \in Nat
  BY <1>1, <1>2, <1>8, LenProperties DEF Good, ListOK
<1>10. ListOK(r)'
  <2>1. ToSet(Tail(list[r])) \cup asked[r] \subseteq Used
    BY <1>2, <1>8 DEF Good, ListOK
  <2>2. Len(Tail(list[r])) <= MaxList
    BY <1>2, <1>9, BoundsAssumption
  <2> QED
    BY <1>3, <1>7, <1>8, <2>1, <2>2 DEF ListOK, DownloadStages, Used
<1>11. DeliversMeant(r)'
  <2>1. Current(r) \in Used
    BY <1>2, <1>8 DEF Current, Good, ListOK
  <2> QED
    BY <1>7, <1>8, <2>1 DEF Good, DeliversMeant, Used
<1>12. ArchiveOK(r)'
  <2> SUFFICES ASSUME NEW n \in asked[r] \ B, n \notin ToSet(Tail(list[r]))
               PROVE  Gotten(r, n)'
    BY <1>7 DEF ArchiveOK
  <2>1. CASE n = Head(list[r])
    BY <1>7, <1>8, <2>1 DEF Gotten, Current
  <2>2. CASE n # Head(list[r])
    BY <1>2, <1>7, <1>8, <2>2 DEF Good, ArchiveOK, Gotten
  <2> QED
    BY <2>1, <2>2
<1>13. Good(r)'
  BY <1>7, <1>10, <1>11, <1>12 DEF Good, CarriesOK, LateOK
<1> QED
  BY <1>5, <1>6, <1>13, FaultsGrow, QuietKeeps

LEMMA SkipKeeps ==
  ASSUME IInv, NEW r \in Request, at[r] \in DownloadStages, NEW lost \in SUBSET Node,
         Skip(r, lost), Current(r) \in lost \/ Gotten(r, Current(r)),
         UNCHANGED <<pool, entries, shares, seen>>,
         Fault \/ NoFault \/ UNCHANGED faults
  PROVE  IInv'
<1>1. CASE Return(r)
  BY <1>1, EndKeeps
<1>2. CASE Advance(r) /\ broken' = [broken EXCEPT ![r] = @ \cup lost] /\ UNCHANGED got
  <2> DEFINE B == broken[r] \cup lost
             G == got[r]
  <2>1. B \in SUBSET Node /\ G \in SUBSET (Node \X (Content \cup {Cut}))
    BY DEF IInv, RequestsTyped
  <2>2. got' = [got EXCEPT ![r] = G] /\ broken' = [broken EXCEPT ![r] = B]
    BY <1>2 DEF IInv, RequestsTyped
  <2>3. Current(r) \in B \/ Gotten(r, Current(r))
    OBVIOUS
  <2>4. broken[r] \subseteq B
    OBVIOUS
  <2> HIDE DEF B
  <2> QED
    BY <1>2, <2>1, <2>2, <2>3, <2>4, AdvanceKeeps
<1> QED
  BY <1>1, <1>2 DEF Skip

(* A download that has found what its next call needs. *)
LEMMA StepKeeps ==
  ASSUME IInv, NEW r \in Request, at[r] \in DownloadStages,
         NEW stage \in {"pool", "object", "batchPool", "batchObject"},
         NEW p \in [content : Content \cup {None}, identity : Identity],
         p.identity = holds[Current(r)],
         stage \in {"object", "batchObject"} => p.content = meant[Current(r)],
         at' = [at EXCEPT ![r] = stage], pair' = [pair EXCEPT ![r] = p],
         UNCHANGED <<pool, entries, shares, seen, node, share, list, asked, got, late,
                     broken, faults>>
  PROVE  IInv'
<1> USE DEF IInv
<1>1. RequestsTyped'
  BY DEF RequestsTyped, Stages
<1>2. \A d \in Request \ {r} : Same(d)
  BY DEF Same, RequestsTyped
<1>3. /\ at'[r] = stage /\ pair'[r] = p
      /\ list'[r] = list[r] /\ asked'[r] = asked[r] /\ got'[r] = got[r]
      /\ broken'[r] = broken[r]
  BY DEF RequestsTyped
<1>4. UNCHANGED <<status, holds, meant>> /\ Good(r)
  BY DEF entries
<1>5. p.identity # None
  BY NoneAssumption
<1>6. ListOK(r)'
  BY <1>3, <1>4, <1>5 DEF Good, ListOK, DownloadStages, Used, Current
<1>7. ArchiveOK(r)' /\ DeliversMeant(r)'
  BY <1>3, <1>4 DEF Good, ArchiveOK, Gotten, DeliversMeant, DownloadStages, Used
<1>8. Good(r)'
  BY <1>3, <1>6, <1>7 DEF Good, CarriesOK, LateOK
<1> QED
  BY <1>1, <1>2, <1>8, FaultsGrow, QuietKeeps

LEMMA DownloadGetKeeps ==
  ASSUME IInv, NEW r \in Request, DownloadGet(r)
  PROVE  IInv'
<1> USE DEF IInv
<1> DEFINE n == Current(r)
<1>1. at[r] \in DownloadStages /\ NoFault /\ UNCHANGED <<pool, entries, shares, seen>>
  BY DEF DownloadGet, DownloadStages
<1>2. CASE status[n] = "live" /\ holds[n] # None
  <2>1. PICK stage \in {"pool", "batchPool"} :
          /\ at' = [at EXCEPT ![r] = stage]
          /\ pair' = [pair EXCEPT ![r].identity = holds[n]]
          /\ UNCHANGED <<node, share, list, asked, got, late, broken>>
    BY <1>2 DEF DownloadGet, Goto
  <2>2. n \in Node
    BY <1>1, ListFacts DEF Good, ListOK, RequestsTyped, Current
  <2> DEFINE p == [pair[r] EXCEPT !.identity = holds[n]]
  <2>3. holds[n] \in Identity /\ pair[r].content \in Content \cup {None}
    BY <1>2, <2>2 DEF TablesTyped, RequestsTyped
  <2>4. /\ p \in [content : Content \cup {None}, identity : Identity]
        /\ p.identity = holds[n]
    BY <2>3 DEF RequestsTyped
  <2>7. pair' = [pair EXCEPT ![r] = p]
    BY <2>1
  <2>5. UNCHANGED faults
    BY <1>1 DEF NoFault
  <2> HIDE DEF n, p
  <2>6. n = Current(r)
    BY DEF n
  <2> QED
    BY <1>1, <2>1, <2>4, <2>5, <2>6, <2>7, StepKeeps
<1>3. CASE ~(status[n] = "live" /\ holds[n] # None)
  <2>1. Skip(r, {})
    BY <1>3 DEF DownloadGet
  <2>2. Gotten(r, Current(r))
    BY <1>3 DEF Gotten
  <2> QED
    BY <1>1, <2>1, <2>2, SkipKeeps
<1> QED
  BY <1>2, <1>3

LEMMA DownloadPoolKeeps ==
  ASSUME IInv, NEW r \in Request, DownloadPool(r)
  PROVE  IInv'
<1> USE DEF IInv
<1>1. /\ at[r] \in {"pool", "batchPool"} /\ at[r] \in DownloadStages /\ NoFault
      /\ UNCHANGED <<pool, entries, shares, seen>>
  BY DEF DownloadPool, DownloadStages
<1>2. pair[r].identity = holds[Current(r)] /\ pair[r].identity # None /\ Current(r) \in Node
  BY <1>1, ListFacts DEF Good, ListOK, Current, RequestsTyped
<1>3. /\ pair[r].identity \in Identity
      /\ bound[pair[r].identity] = meant[Current(r)] /\ meant[Current(r)] \in Content
  BY <1>2 DEF TablesOK, EntriesLeadToMeant, TablesTyped
<1>4. RowFor(pair[r].identity) = {pair[r].identity}
  BY <1>3, NoneAssumption DEF RowFor, Rows
<1>5. PICK stage \in {"object", "batchObject"} :
        /\ at' = [at EXCEPT ![r] = stage]
        /\ pair' = [pair EXCEPT ![r].content = bound[pair[r].identity]]
        /\ UNCHANGED <<node, share, list, asked, got, late, broken>>
  BY <1>4 DEF DownloadPool, Goto
<1> DEFINE p == [pair[r] EXCEPT !.content = bound[pair[r].identity]]
<1>6. /\ p \in [content : Content \cup {None}, identity : Identity]
      /\ p.identity = holds[Current(r)] /\ p.content = meant[Current(r)]
  BY <1>2, <1>3 DEF RequestsTyped
<1>7. pair' = [pair EXCEPT ![r] = p]
  BY <1>5
<1>8. UNCHANGED <<pool, entries, shares, seen, node, share, list, asked, got, late,
                  broken, faults>>
  BY <1>1, <1>5 DEF NoFault
<1> HIDE DEF p
<1> QED
  BY <1>1, <1>5, <1>6, <1>7, <1>8, StepKeeps

LEMMA DownloadObjectKeeps ==
  ASSUME IInv, NEW r \in Request, DownloadObject(r)
  PROVE  IInv'
<1> USE DEF IInv
<1> DEFINE G == got[r] \cup {<<Current(r), meant[Current(r)]>>}
<1>1. /\ at[r] \in {"object", "batchObject"} /\ at[r] \in DownloadStages
      /\ Advance(r) /\ NoFault /\ UNCHANGED <<pool, entries, shares, seen, broken>>
  BY DEF DownloadObject, DownloadStages
<1>2. /\ pair[r].identity = holds[Current(r)] /\ pair[r].identity # None
      /\ Current(r) \in Node /\ pair[r].content = meant[Current(r)]
  BY <1>1, ListFacts DEF Good, ListOK, Current, RequestsTyped
<1>3. meant[Current(r)] \in Content
  BY <1>2 DEF TablesOK, TablesTyped
<1>4. got' = [got EXCEPT ![r] = G]
  BY <1>2 DEF DownloadObject, Gets
<1>5. G \in SUBSET (Node \X (Content \cup {Cut}))
  BY <1>2, <1>3 DEF RequestsTyped
<1>6. broken' = [broken EXCEPT ![r] = broken[r]] /\ broken[r] \in SUBSET Node
  BY <1>1 DEF RequestsTyped
<1>7. got[r] \subseteq G /\ <<Current(r), meant[Current(r)]>> \in G
  OBVIOUS
<1>8. \A d \in G \ got[r] :
        d[1] = Current(r) /\ IF d[2] = Cut THEN d[1] \in broken[r] ELSE d[2] = meant[d[1]]
  BY <1>3, CutAssumption
<1> HIDE DEF G
<1> QED
  BY <1>1, <1>4, <1>5, <1>6, <1>7, <1>8, AdvanceKeeps

LEMMA DownloadFailsKeeps ==
  ASSUME IInv, NEW r \in Request, DownloadFails(r)
  PROVE  IInv'
<1> USE DEF IInv
<1>1. at[r] \in DownloadStages /\ Fault /\ UNCHANGED <<pool, entries, shares, seen>>
  BY DEF DownloadFails
<1>0. Current(r) \in Node
  BY <1>1, ListFacts DEF Good, ListOK, Current, RequestsTyped
<1>2. CASE Skip(r, {Current(r)})
  BY <1>0, <1>1, <1>2, SkipKeeps
<1>3. CASE Gets(r, Cut) /\ Advance(r)
           /\ broken' = [broken EXCEPT ![r] = @ \cup {Current(r)}]
  <2> DEFINE G == got[r] \cup {<<Current(r), Cut>>}
             B == broken[r] \cup {Current(r)}
  <2>1. /\ B \in SUBSET Node /\ broken' = [broken EXCEPT ![r] = B]
        /\ broken[r] \subseteq B /\ Current(r) \in B
    BY <1>0, <1>3 DEF RequestsTyped
  <2>2. got' = [got EXCEPT ![r] = G] /\ G \in SUBSET (Node \X (Content \cup {Cut}))
    BY <1>0, <1>3 DEF Gets, RequestsTyped
  <2>3. /\ got[r] \subseteq G
        /\ \A d \in G \ got[r] :
             d[1] = Current(r) /\ IF d[2] = Cut THEN d[1] \in B ELSE d[2] = meant[d[1]]
    OBVIOUS
  <2> HIDE DEF G, B
  <2> QED
    BY <1>1, <1>3, <2>1, <2>2, <2>3, AdvanceKeeps
<1> QED
  BY <1>2, <1>3 DEF DownloadFails

LEMMA AnswerKeeps ==
  ASSUME IInv, NEW r \in Request, Answer(r) \/ Fail(r)
  PROVE  IInv'
BY EndKeeps DEF Answer, Fail

-----------------------------------------------------------------------------
(* The steps that change the tables.                                       *)
LEMMA UploadKeeps ==
  ASSUME IInv, Upload
  PROVE  IInv'
<1> USE DEF IInv
<1>1. PICK i \in Identity, c \in Content : Store!Bind(i, c) \/ Store!Promise(i, c)
  BY DEF Upload, Store!Next
<1>2. /\ bound[i] \in {None, c} /\ bound' = [bound EXCEPT ![i] = c]
      /\ promised' \in {promised, promised \cup {[content |-> c, identity |-> i]}}
  BY <1>1 DEF Store!Bind, Store!Promise, TablesTyped
<1>3. /\ UNCHANGED <<status, holds, meant, entry, captured, lasts, age, clicks, views>>
      /\ UNCHANGED <<seen, request, faults>>
  BY DEF Upload, entries, shares
<1>4. \A j \in Identity : bound[j] # None => bound'[j] = bound[j]
  BY <1>2 DEF TablesTyped
<1>5. Lasts
  BY <1>3, <1>4 DEF Lasts, Used, Made, Expired
<1>6. TablesTyped'
  BY <1>2, <1>3 DEF TablesTyped, Pair
<1>7. TablesOK'
  <2>1. ASSUME NEW p \in promised' \cup seen' PROVE Faithful(p)'
    <3>1. CASE p \in promised \cup seen
      BY <3>1, <1>4, NoneAssumption DEF TablesOK, TablesTyped, Faithful, Pair
    <3>2. CASE p = [content |-> c, identity |-> i]
      BY <3>2, <1>2 DEF TablesTyped, Faithful
    <3> QED
      BY <1>2, <1>3, <3>1, <3>2
  <2>2. EntriesLeadToMeant'
    BY <1>3, <1>4, NoneAssumption DEF TablesOK, TablesTyped, EntriesLeadToMeant
  <2> QED
    BY <1>3, <2>1, <2>2 DEF TablesOK, Made, Used, ClicksCounted
<1>8. RequestsTyped' /\ \A r \in Request : Same(r)
  BY <1>3 DEF request, RequestsTyped, Same
<1> QED
  BY <1>5, <1>6, <1>7, <1>8, TablesKeep

LEMMA InsertKeeps ==
  ASSUME IInv, NEW n \in Node, NEW i \in Identity \cup {None}, NEW c \in Content \cup {None},
         Insert(n, i, c), i = None <=> c = None, i # None => bound[i] = c,
         UNCHANGED <<pool, shares, seen, faults>>,
         RequestsTyped', \A r \in Request : Same(r) \/ Good(r)'
  PROVE  IInv'
<1> USE DEF IInv
<1>1. /\ UNCHANGED <<bound, promised, entry, captured, lasts, age, clicks, views>>
      /\ UNCHANGED <<seen, faults>>
  BY DEF pool, shares
<1>2. /\ status[n] = "free" /\ status' = [status EXCEPT ![n] = "live"]
      /\ holds' = [holds EXCEPT ![n] = i] /\ meant' = [meant EXCEPT ![n] = c]
  BY DEF Insert
<1>3. TablesTyped'
  BY <1>1, <1>2 DEF TablesTyped
<1>4. \A m \in Used : m \in Used' /\ status'[m] = status[m] /\ holds'[m] = holds[m]
                      /\ meant'[m] = meant[m]
  BY <1>2 DEF Used, TablesTyped
<1>5. Lasts
  BY <1>1, <1>4 DEF Lasts, Made, Expired
<1>6. TablesOK'
  <2>1. \A m \in Node : holds'[m] = None <=> meant'[m] = None
    BY <1>2 DEF TablesOK, TablesTyped
  <2>2. EntriesLeadToMeant'
    BY <1>1, <1>2 DEF TablesOK, TablesTyped, EntriesLeadToMeant
  <2> QED
    BY <1>1, <1>4, <2>1, <2>2 DEF TablesOK, Faithful, Made, ClicksCounted
<1> QED
  BY <1>3, <1>5, <1>6, TablesKeep

LEMMA SaveKeeps ==
  ASSUME IInv, NEW n \in Node, Save(n)
  PROVE  IInv'
<1> USE DEF IInv
<1>1. RequestsTyped' /\ \A r \in Request : Same(r)
  BY DEF Save, request, RequestsTyped, Same
<1>2. UNCHANGED <<pool, shares, seen, faults>>
  BY DEF Save
<1>3. ASSUME NEW p \in promised, Insert(n, p.identity, p.content) PROVE IInv'
  <2>1. p.identity \in Identity /\ p.content \in Content /\ bound[p.identity] = p.content
    BY DEF TablesOK, TablesTyped, Faithful, Pair
  <2>2. p.identity # None /\ p.content # None
    BY <2>1, NoneAssumption
  <2> QED
    BY <1>1, <1>2, <1>3, <2>1, <2>2, InsertKeeps
<1>4. CASE Insert(n, None, None)
  BY <1>1, <1>2, <1>4, InsertKeeps
<1> QED
  BY <1>3, <1>4 DEF Save

LEMMA SaveInsertKeeps ==
  ASSUME IInv, NEW r \in Request, SaveInsert(r)
  PROVE  IInv'
<1> USE DEF IInv
<1>1. PICK n \in Node : Insert(n, pair[r].identity, pair[r].content)
  BY DEF SaveInsert
<1>2. Return(r) /\ at[r] = "saveInsert" /\ UNCHANGED <<pool, shares, seen, faults>>
  BY DEF SaveInsert
<1>3. RequestsTyped' /\ \A d \in Request : Same(d) \/ Good(d)'
  BY <1>2, ReturnKeeps
<1>4. pair[r] = NoPair \/ (pair[r] \in Pair /\ Faithful(pair[r]))
  BY <1>2 DEF Good, CarriesOK
<1>5. CASE pair[r] = NoPair
  BY <1>1, <1>2, <1>3, <1>5, InsertKeeps DEF NoPair
<1>6. CASE pair[r] \in Pair /\ Faithful(pair[r])
  <2>1. /\ pair[r].identity \in Identity /\ pair[r].content \in Content
        /\ bound[pair[r].identity] = pair[r].content
    BY <1>6 DEF Pair, Faithful
  <2>2. pair[r].identity # None /\ pair[r].content # None
    BY <2>1, NoneAssumption
  <2> QED
    BY <1>1, <1>2, <1>3, <2>1, <2>2, InsertKeeps
<1> QED
  BY <1>4, <1>5, <1>6

LEMMA DeleteKeeps ==
  ASSUME IInv, NEW n \in Node, Delete(n)
  PROVE  IInv'
<1> USE DEF IInv
<1>1. /\ UNCHANGED <<bound, promised, holds, meant, entry, captured, lasts, age, clicks, views>>
      /\ UNCHANGED <<seen, faults, request>>
      /\ status[n] = "live" /\ status' = [status EXCEPT ![n] = "deleted"]
  BY DEF Delete, pool, shares
<1>2. TablesTyped'
  BY <1>1 DEF TablesTyped
<1>3. \A m \in Node : (m \in Used <=> m \in Used') /\ (status'[m] = "live" => status[m] = "live")
  BY <1>1 DEF Used, TablesTyped
<1>4. Lasts
  BY <1>1, <1>3 DEF Lasts, Made, Expired, Used
<1>5. TablesOK'
  <2>1. \A s \in Made : entry[s] \in Used'
    BY <1>3 DEF TablesOK, Used
  <2> QED
    BY <1>1, <2>1 DEF TablesOK, Faithful, EntriesLeadToMeant, Made, ClicksCounted
<1>6. RequestsTyped' /\ \A r \in Request : Same(r)
  BY <1>1 DEF request, RequestsTyped, Same
<1> QED
  BY <1>2, <1>4, <1>5, <1>6, TablesKeep

LEMMA CreateInsertKeeps ==
  ASSUME IInv, NEW r \in Request, CreateInsert(r)
  PROVE  IInv'
<1> USE DEF IInv
<1>1. PICK s \in Share \ Made, t \in Lasting :
        /\ entry' = [entry EXCEPT ![s] = node[r]]
        /\ captured' = [captured EXCEPT ![s] = pair[r].identity]
        /\ lasts' = [lasts EXCEPT ![s] = t]
        /\ age' = [age EXCEPT ![s] = 0]
  BY DEF CreateInsert
<1>2. /\ Return(r) /\ at[r] = "createInsert"
      /\ UNCHANGED <<bound, promised, status, holds, meant>>
      /\ UNCHANGED <<clicks, views, seen, faults>>
  BY DEF CreateInsert, pool, entries
<1>3. RequestsTyped' /\ \A d \in Request : Same(d) \/ Good(d)'
  BY <1>2, ReturnKeeps
<1>4. node[r] \in Used /\ pair[r].identity = holds[node[r]]
  BY <1>2 DEF Good, CarriesOK
<1>5. node[r] \in Node /\ node[r] # None /\ holds[node[r]] \in Identity \cup {None}
  BY <1>4, NoneAssumption DEF Used, TablesTyped
<1>6. TablesTyped'
  <2>1. 0 \in 0..MaxAge
    BY LastingAssumption
  <2> QED
    BY <1>1, <1>2, <1>4, <1>5, <2>1 DEF TablesTyped
<1>7. /\ entry'[s] = node[r] /\ captured'[s] = holds[node[r]]
      /\ \A q \in Share \ {s} : /\ entry'[q] = entry[q] /\ captured'[q] = captured[q]
                                /\ lasts'[q] = lasts[q] /\ age'[q] = age[q]
  BY <1>1, <1>4 DEF TablesTyped
<1>8. s \notin Made /\ s \in Share
  BY <1>1
<1>9. Lasts
  BY <1>2, <1>7, <1>8 DEF Lasts, Used, Made, Expired
<1>10. TablesOK'
  BY <1>2, <1>4, <1>7, <1>8 DEF TablesOK, Faithful, EntriesLeadToMeant, Made, Used,
     ClicksCounted
<1> QED
  BY <1>3, <1>6, <1>9, <1>10, TablesKeep

LEMMA DetailClickKeeps ==
  ASSUME IInv, NEW r \in Request, DetailClick(r)
  PROVE  IInv'
<1> USE DEF IInv
<1>1. /\ Return(r) /\ at[r] = "detailClick"
      /\ UNCHANGED <<bound, promised, status, holds, meant>>
      /\ UNCHANGED <<entry, captured, lasts, age>>
      /\ views' = [views EXCEPT ![share[r]] = @ + 1]
      /\ seen' \in {seen, seen \cup ({pair[r]} \ {NoPair})}
  BY DEF DetailClick, pool, entries
<1>2. RequestsTyped' /\ \A d \in Request : Same(d) \/ Good(d)'
  BY <1>1, ReturnKeeps
<1>3. share[r] \in Made /\ (pair[r] = NoPair \/ (pair[r] \in Pair /\ Faithful(pair[r])))
  BY <1>1 DEF Good, CarriesOK
<1>4. share[r] \in Share
  BY <1>3 DEF Made
<1>5. \A p \in seen' : p \in Pair /\ Faithful(p)
  BY <1>1, <1>3 DEF TablesOK, TablesTyped
<1>6. Lasts
  BY <1>1 DEF Lasts, Used, Made, Expired
<1>7. faults' \in faults..MaxFaults /\ faults \in Nat
  BY FaultsGrow, BoundsAssumption DEF DetailClick, TablesTyped
<1>8. clicks' \in [Share -> Nat] /\ views' \in [Share -> Nat] /\ ClicksCounted'
  <2>1. CASE clicks' = [clicks EXCEPT ![share[r]] = @ + 1]
    BY <1>1, <1>4, <1>7, <2>1, BoundsAssumption DEF TablesOK, TablesTyped, ClicksCounted
  <2>2. CASE UNCHANGED clicks /\ Fault
    BY <1>1, <1>4, <1>7, <2>2 DEF TablesOK, TablesTyped, ClicksCounted, Fault
  <2> QED
    BY <2>1, <2>2 DEF DetailClick
<1>9. TablesTyped'
  BY <1>1, <1>5, <1>7, <1>8, BoundsAssumption DEF TablesTyped
<1>10. TablesOK'
  BY <1>1, <1>5, <1>8 DEF TablesOK, Faithful, EntriesLeadToMeant, Made, Used
<1> QED
  BY <1>2, <1>6, <1>9, <1>10, TablesKeep

LEMMA TickKeeps ==
  ASSUME IInv, Tick
  PROVE  IInv'
<1> USE DEF IInv
<1>1. /\ UNCHANGED <<bound, promised, status, holds, meant, entry, captured, lasts, clicks, views>>
      /\ UNCHANGED <<seen, faults, request>>
      /\ age' = [s \in Share |-> IF s \in Made THEN Older(age[s]) ELSE age[s]]
  BY DEF Tick, pool, entries
<1>2. \A s \in Share : age'[s] \in 0..MaxAge /\ age'[s] >= age[s]
  BY <1>1, LastingAssumption DEF TablesTyped, Older
<1>3. TablesTyped'
  BY <1>1, <1>2 DEF TablesTyped
<1>4. \A s \in Made : Expired(s) => Expired(s)'
  <2> SUFFICES ASSUME NEW s \in Made, Expired(s) PROVE Expired(s)'
    OBVIOUS
  <2>1. lasts[s] \in Nat
    BY TimesAreNat DEF Made, TablesTyped
  <2>2. age[s] \in Nat /\ age'[s] \in Nat
    BY <1>2, LastingAssumption DEF Made, TablesTyped
  <2> QED
    BY <1>1, <1>2, <2>1, <2>2 DEF Expired, Made
<1>5. Lasts
  BY <1>1, <1>4 DEF Lasts, Used, Made
<1>6. TablesOK'
  BY <1>1 DEF TablesOK, Faithful, EntriesLeadToMeant, Made, Used, ClicksCounted
<1>7. RequestsTyped' /\ \A r \in Request : Same(r)
  BY <1>1 DEF request, RequestsTyped, Same
<1> QED
  BY <1>3, <1>5, <1>6, <1>7, TablesKeep

-----------------------------------------------------------------------------
LEMMA InitIInv == Init => IInv
<1> SUFFICES ASSUME Init PROVE IInv
  OBVIOUS
<1>1. TablesTyped
  BY BoundsAssumption, LastingAssumption DEF Init, Store!Init, TablesTyped
<1>2. RequestsTyped
  BY DEF Init, RequestsTyped, Stages, NoPair
<1>3. TablesOK
  BY BoundsAssumption DEF Init, Store!Init, TablesOK, EntriesLeadToMeant, Made, ClicksCounted
<1>4. ASSUME NEW r \in Request PROVE Good(r)
  <2>1. at[r] = "idle" /\ list[r] = <<>> /\ asked[r] = {} /\ got[r] = {}
    BY DEF Init
  <2>2. ToSet(<<>>) = {} /\ Len(<<>>) = 0
    BY DEF ToSet
  <2> QED
    BY <2>1, <2>2, BoundsAssumption DEF Good, CarriesOK, LateOK, ListOK, DeliversMeant,
       ArchiveOK, DownloadStages
<1> QED
  BY <1>1, <1>2, <1>3, <1>4 DEF IInv

LEMMA NextIInv == IInv /\ [Next]_vars => IInv'
<1> SUFFICES ASSUME IInv, [Next]_vars PROVE IInv'
  OBVIOUS
<1>1. CASE Upload \/ Tick
  BY <1>1, UploadKeeps, TickKeeps
<1>2. ASSUME NEW n \in Node, Save(n) \/ Delete(n) PROVE IInv'
  BY <1>2, SaveKeeps, DeleteKeeps
<1>3. ASSUME NEW r \in Request, Ask(r) PROVE IInv'
  BY <1>3, AskCreateKeeps, AskDetailKeeps, AskSaveKeeps, AskDownloadKeeps, AskBatchKeeps
     DEF Ask
<1>4. ASSUME NEW r \in Request, Serve(r) PROVE IInv'
  <2>1. CASE CreateGet(r) \/ CreateInsert(r)
    BY <2>1, CreateGetKeeps, CreateInsertKeeps
  <2>2. CASE DetailGet(r) \/ DetailClick(r)
    BY <2>2, DetailGetKeeps, DetailClickKeeps
  <2>3. CASE SaveGet(r) \/ SaveInsert(r)
    BY <2>3, SaveGetKeeps, SaveInsertKeeps
  <2>4. CASE DownloadGet(r) \/ DownloadPool(r) \/ DownloadObject(r) \/ DownloadFails(r)
    BY <2>4, DownloadGetKeeps, DownloadPoolKeeps, DownloadObjectKeeps, DownloadFailsKeeps
  <2>5. CASE Answer(r)
    BY <2>5, AnswerKeeps
  <2> QED
    BY <1>4, <2>1, <2>2, <2>3, <2>4, <2>5 DEF Serve
<1>5. ASSUME NEW r \in Request, Fail(r) PROVE IInv'
  BY <1>5, AnswerKeeps
<1>6. CASE UNCHANGED vars
  <2>1. UNCHANGED <<bound, promised, status, holds, meant, entry, captured, lasts, age,
                    clicks, views>> /\ UNCHANGED <<seen, faults, request>>
    BY <1>6 DEF vars, pool, entries, shares
  <2>2. TablesTyped' /\ TablesOK' /\ Lasts
    BY <2>1 DEF IInv, TablesTyped, TablesOK, Lasts, Faithful, EntriesLeadToMeant, Made,
       Used, ClicksCounted, Expired
  <2>3. RequestsTyped' /\ \A r \in Request : Same(r)
    BY <2>1 DEF IInv, request, RequestsTyped, Same
  <2> QED
    BY <2>2, <2>3, TablesKeep
<1> QED
  BY <1>1, <1>2, <1>3, <1>4, <1>5, <1>6 DEF Next

(* The strengthened invariant: identities are faithful in every hand.      *)
THEOREM Invariance == Spec => []IInv
<1> QED
  BY InitIInv, NextIInv, PTL DEF Spec

(* Entries, shares and requests have all the fields their kind needs.      *)
THEOREM TypeCorrect == Spec => []TypeOK
<1>1. IInv => TypeOK
  BY DEF IInv, TablesTyped, RequestsTyped, Good, ListOK, TypeOK
<1> QED
  BY <1>1, Invariance, PTL

(* An entry leads to the file its user saw when he saved it                *)
(* (user_repository_save_logic.go, share_basic_save_logic.go), by however  *)
(* many shares and copies its identity came to him.                        *)
THEOREM EntriesAreMeant == Spec => []EntriesLeadToMeant
<1>1. IInv => EntriesLeadToMeant
  BY DEF IInv, TablesOK
<1> QED
  BY <1>1, Invariance, PTL

(* A share leads to the file of the entry it was made from                 *)
(* (share_basic_create_logic.go), whatever became of the entry.            *)
THEOREM SharesAreMeant == Spec => []SharesLeadToMeant
<1>1. ASSUME IInv, NEW s \in Made
      PROVE  IF captured[s] = None THEN meant[entry[s]] = None
                                   ELSE bound[captured[s]] = meant[entry[s]]
  <2>1. entry[s] \in Node /\ captured[s] = holds[entry[s]]
    BY <1>1 DEF IInv, TablesOK, Used
  <2> QED
    BY <1>1, <2>1 DEF IInv, TablesOK, EntriesLeadToMeant
<1>2. IInv => SharesLeadToMeant
  BY <1>1 DEF SharesLeadToMeant
<1> QED
  BY <1>2, Invariance, PTL

(* A download (file_download_logic.go) delivers what was meant, or after a *)
(* call that failed for this very entry the beginning of it, in an archive *)
(* and on the stream of a single file alike.                               *)
THEOREM DownloadsAreMeant == Spec => []DownloadsDeliverMeant
<1>1. IInv => DownloadsDeliverMeant
  BY DEF IInv, Good, DeliversMeant, DownloadsDeliverMeant
<1> QED
  BY <1>1, Invariance, PTL

(* An archive (file_download_logic.go) has the whole file of every entry   *)
(* but those that were deleted and those for which a call failed, however  *)
(* long the list and whatever it repeats.                                  *)
THEOREM ArchivesAreComplete == Spec => []ArchiveComplete
<1>1. ASSUME IInv, NEW r \in Request, at[r] = "answer", NEW n \in asked[r] \ broken[r]
      PROVE  status[n] = "live" /\ holds[n] # None => <<n, meant[n]>> \in got[r]
  <2>1. list[r] = <<>>
    BY <1>1 DEF IInv, Good, ListOK, DownloadStages
  <2>2. n \notin ToSet(list[r])
    BY <2>1 DEF ToSet
  <2> QED
    BY <1>1, <2>2 DEF IInv, Good, ArchiveOK, Gotten
<1>2. IInv => ArchiveComplete
  BY <1>1 DEF ArchiveComplete
<1> QED
  BY <1>2, Invariance, PTL

(* Who asks for a share after its time does not see it                     *)
(* (share_basic_detail_logic.go), however long his request takes.          *)
THEOREM SharesEndInTime == Spec => []ShownInTime
<1>1. IInv => ShownInTime
  BY DEF IInv, Good, LateOK, ShownInTime
<1> QED
  BY <1>1, Invariance, PTL

(* No click is lost or invented (share_basic_detail_logic.go), but for     *)
(* updates that failed.                                                    *)
THEOREM ClicksAreCounted == Spec => []ClicksCounted
<1>1. IInv => ClicksCounted
  BY DEF IInv, TablesOK
<1> QED
  BY <1>1, Invariance, PTL

-----------------------------------------------------------------------------
(* repository_pool is written by uploads alone: saving, sharing, deleting  *)
(* and downloading neither register content nor hand out an identity for   *)
(* it that the store has not handed out.                                   *)
LEMMA PoolStep == [Next]_vars => [Store!Next]_Store!vars
<1>1. ASSUME NEW r \in Request, Ask(r) \/ Serve(r) \/ Fail(r)
      PROVE  UNCHANGED pool
  BY <1>1 DEF Ask, AskCreate, AskDetail, AskSave, AskDownload, AskBatch, Serve,
     CreateGet, CreateInsert, DetailGet, DetailClick, SaveGet, SaveInsert,
     DownloadGet, DownloadPool, DownloadObject, DownloadFails, Answer, Fail
<1>2. ASSUME NEW n \in Node, Save(n) \/ Delete(n)
      PROVE  UNCHANGED pool
  BY <1>2 DEF Save, Delete
<1>3. CASE Tick \/ UNCHANGED vars
  BY <1>3 DEF Tick, vars, pool, Store!vars
<1>4. CASE Upload
  BY <1>4 DEF Upload
<1> QED
  BY <1>1, <1>2, <1>3, <1>4 DEF Next, pool, Store!vars

(* Beside all that is done with them, uploaded files are a ContentStore,   *)
(* so the handlers of the upload half and these meet in it.                *)
THEOREM PoolIsStore == Spec => Store!Spec
<1>1. Init => Store!Init
  BY DEF Init
<1> QED
  BY <1>1, PoolStep, PTL DEF Spec, Store!Spec
=============================================================================
