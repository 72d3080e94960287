------------------------ MODULE RepositoryPoolProofs ------------------------
(***************************************************************************)
(* Proofs about RepositoryPool: the safety invariants and the refinement   *)
(* of ContentStore, for every number of files, chunks, UUIDs, requests and *)
(* faults.                                                                 *)
(***************************************************************************)
EXTENDS RepositoryPool, FiniteSetTheorems, TLAPS

(* A request that is being served is about a file. *)
ServedHasFile == \A r \in Request : at[r] # "idle" => hash[r] \in Content

(* An open multipart upload has no object yet, and no row leads to it. *)
OpenUnfinished ==
  /\ \A u \in Uuid : uploads[u] # None => objects[u] = None
  /\ \A row \in pool : uploads[row.path] = None

(* What can be stored for chunk k of key u: that chunk of the file the     *)
(* client uploads under the key, cut short only if something failed.       *)
Sound(u, k) == IF faults = 0 THEN {<<session[u], k, "whole">>}
                             ELSE Pieces(session[u], k)

(* What is stored or acknowledged for a chunk is sound. *)
ChunksMatch == \A u \in Uuid, k \in Parts :
  /\ uploads[u] # None => uploads[u][k] \in {None} \cup Sound(u, k)
  /\ etag[u][k] \in {None, Blank} \cup Sound(u, k)

(* A completion is about the file its key was opened for, with every chunk *)
(* acknowledged.                                                           *)
CompleteMatches == \A r \in Request : at[r] = "complete" =>
  /\ target[r] \in Uuid
  /\ session[target[r]] = hash[r]
  /\ \A k \in Parts : etag[target[r]][k] # None

(* A handler about to insert has its file stored, nobody else has the      *)
(* object, and no row leads to it.                                         *)
InsertReady == \A r \in Request : at[r] \in InsertStages =>
  /\ target[r] \in Uuid
  /\ Delivers(target[r], hash[r])
  /\ uploads[target[r]] = None
  /\ \A row \in pool : row.path # target[r]
  /\ \A q \in Request : q # r /\ at[q] \in InsertStages =>
       target[q] # target[r]

IdentityUnique == \A a, b \in pool : a.identity = b.identity => a = b

HadRowIndexed == \A r \in Request : hadRow[r] =>
  at[r] # "idle" /\ Indexed(hash[r])

IInv == /\ TypeOK /\ RowsResolve /\ PromisesKept /\ OneRowPerObject
        /\ ServedHasFile /\ OpenUnfinished /\ ChunksMatch
        /\ CompleteMatches /\ InsertReady /\ IdentityUnique

-----------------------------------------------------------------------------
(* Handlers that only move on: StartX, the checks, BucketExists, MakeBucket *)
(* and calls that fail.  The store, the table and the client stay, and the  *)
(* handler that moves does not reach an insert.                             *)
Still == /\ UNCHANGED <<objects, uploads, pool, session, etag>>
         /\ faults <= faults'

(* What leads to a file goes on leading to it while the object and the     *)
(* client's file under its name stay.                                      *)
LEMMA DeliversStays ==
  ASSUME faults \in Nat, faults' \in Nat, faults <= faults', NEW u, NEW c,
         objects'[u] = objects[u], session'[u] = session[u], Delivers(u, c)
  PROVE  Delivers(u, c)'
BY DEF Delivers, MadeOf, Whole, Pieces, Parts

(* There is something at the end. *)
LEMMA DeliversSomething ==
  ASSUME NEW u, NEW c \in Content, Delivers(u, c)
  PROVE  objects[u] # None
<1>1. Whole(c) \in Bytes
  BY DEF Whole, Bytes, Piece
<1> QED
  BY <1>1, NoneAssumption DEF Delivers, MadeOf

(* Chunks that are sound stay sound. *)
LEMMA SoundStays ==
  ASSUME faults \in Nat, faults' \in Nat, faults <= faults', NEW u, NEW k,
         session'[u] = session[u]
  PROVE  Sound(u, k) \subseteq Sound(u, k)'
BY DEF Sound, Pieces

(* Faults stay within their bound. *)
LEMMA FaultCounted ==
  ASSUME TypeOK, NoFault \/ Fault
  PROVE  /\ faults' \in 0..MaxFaults /\ faults <= faults'
         /\ faults \in Nat /\ faults' \in Nat
BY FaultsAssumption DEF TypeOK, NoFault, Fault

(* The initial states satisfy the invariant: nothing is stored yet. *)
LEMMA InitIInv == Init => IInv
<1> SUFFICES ASSUME Init PROVE IInv
  OBVIOUS
<1> USE DEF Init
<1>1. TypeOK
  BY NoneAssumption, FaultsAssumption DEF TypeOK, Bytes, Stages, Parts
<1>2. RowsResolve /\ PromisesKept /\ OneRowPerObject /\ IdentityUnique
  BY DEF RowsResolve, PromisesKept, OneRowPerObject, IdentityUnique
<1>3. ServedHasFile /\ OpenUnfinished /\ ChunksMatch
  BY DEF ServedHasFile, OpenUnfinished, ChunksMatch
<1>4. CompleteMatches /\ InsertReady
  BY DEF CompleteMatches, InsertReady, InsertStages
<1> QED
  BY <1>1, <1>2, <1>3, <1>4 DEF IInv

(* The state of the stores and the clients keeps what it had while neither *)
(* an object nor a row nor a chunk changes, and an answered identity is    *)
(* one a row with that file has.                                           *)
LEMMA StillKeeps ==
  ASSUME IInv, Still, faults' \in Nat,
         promised' = promised \/ \E c \in Content : \E row \in RowsOf(c) :
                                     Answer(c, row.identity)
  PROVE  /\ RowsResolve' /\ PromisesKept' /\ OneRowPerObject'
         /\ OpenUnfinished' /\ ChunksMatch' /\ IdentityUnique'
<1>1. faults \in Nat
  BY FaultsAssumption DEF IInv, TypeOK
<1>2. \A u, c : Delivers(u, c) => Delivers(u, c)'
  BY <1>1, DeliversStays DEF Still
<1>3. RowsResolve' /\ OneRowPerObject' /\ IdentityUnique'
  BY <1>2 DEF IInv, Still, RowsResolve, OneRowPerObject, IdentityUnique
<1>4. OpenUnfinished' /\ ChunksMatch'
  <2>1. \A u, k : Sound(u, k) \subseteq Sound(u, k)'
    BY <1>1, SoundStays DEF Still
  <2> QED
    BY <2>1 DEF IInv, Still, OpenUnfinished, ChunksMatch
<1>5. PromisesKept'
  BY <1>2 DEF IInv, Still, PromisesKept, RowsResolve, RowsOf, Answer, Handed
<1> QED
  BY <1>3, <1>4, <1>5

(* One handler that returns, or moves to a stage that has stored nothing,  *)
(* leaves what the others rely on.                                         *)
LEMMA MoveKeeps ==
  ASSUME IInv, Still, faults' \in Nat, NEW r \in Request,
         hash' = hash, target' = target,
         at[r] # "idle",
         NEW s \in Stages \ (InsertStages \cup {"idle", "complete"}),
         at' = [at EXCEPT ![r] = s]
  PROVE  ServedHasFile' /\ CompleteMatches' /\ InsertReady'
<1> USE DEF IInv, Still, TypeOK
<1>1. ServedHasFile'
  BY DEF ServedHasFile
<1>2. CompleteMatches'
  BY DEF CompleteMatches
<1>3. InsertReady'
  <2>1. \A u, c : Delivers(u, c) => Delivers(u, c)'
    BY FaultsAssumption, DeliversStays
  <2> QED
    BY <2>1 DEF InsertReady, InsertStages
<1> QED
  BY <1>1, <1>2, <1>3

LEMMA ReturnKeeps ==
  ASSUME IInv, Still, faults' \in Nat, NEW r \in Request, Return(r)
  PROVE  ServedHasFile' /\ CompleteMatches' /\ InsertReady'
<1> USE DEF IInv, Still, TypeOK, Return
<1>1. ServedHasFile'
  BY DEF ServedHasFile
<1>2. CompleteMatches'
  BY DEF CompleteMatches
<1>3. InsertReady'
  <2>1. \A u, c : Delivers(u, c) => Delivers(u, c)'
    BY FaultsAssumption, DeliversStays
  <2> QED
    BY <2>1 DEF InsertReady, InsertStages
<1> QED
  BY <1>1, <1>2, <1>3

(* A request that arrives has stored nothing; a completion comes from a    *)
(* client that has an answer for every chunk.                              *)
LEMMA ArriveKeeps ==
  ASSUME IInv, NEW r \in Request, Arrival(r)
  PROVE  IInv'
<1> USE DEF IInv
<1>1. PICK c \in Content, s \in Stages \ (InsertStages \cup {"idle"}),
           u \in Uuid \cup {None} :
        /\ Arrive(r, s, c, u)
        /\ s = "complete" => /\ u \in Uuid /\ session[u] = c
                             /\ \A k \in Parts : etag[u][k] # None
  <2>1. CASE StartUpload(r)
    BY <2>1 DEF StartUpload, Stages, InsertStages, UploadStages
  <2>2. CASE StartPrepare(r)
    BY <2>2 DEF StartPrepare, Stages, InsertStages, PrepareStages
  <2>3. CASE StartComplete(r)
    BY <2>3 DEF StartComplete, Stages, InsertStages, CompleteStages, TypeOK
  <2> QED
    BY <2>1, <2>2, <2>3 DEF Arrival
<1>2. /\ Still /\ promised' = promised
      /\ faults \in Nat /\ faults' \in Nat
  BY <1>1, FaultsAssumption DEF Arrive, Still, minio, client, TypeOK
<1>3. /\ RowsResolve' /\ PromisesKept' /\ OneRowPerObject'
      /\ OpenUnfinished' /\ ChunksMatch' /\ IdentityUnique'
  BY <1>2, StillKeeps
<1>4. TypeOK'
  BY <1>1 DEF TypeOK, Arrive, minio, client, Indexed
<1>5. ServedHasFile'
  BY <1>1 DEF Arrive, ServedHasFile, TypeOK
<1>6. CompleteMatches'
  BY <1>1, <1>2 DEF Arrive, CompleteMatches, TypeOK, Still
<1>7. InsertReady'
  <2>1. \A v, d : Delivers(v, d) => Delivers(v, d)'
    BY <1>2, DeliversStays DEF Still
  <2> QED
    BY <1>1, <1>2, <2>1 DEF Arrive, InsertReady, InsertStages, TypeOK, Still
<1> QED
  BY <1>3, <1>4, <1>5, <1>6, <1>7

(* Calls that read, make the bucket or fail. *)
LEMMA StillSteps ==
  ASSUME IInv, NEW r \in Request,
         \/ UploadCheck(r) \/ UploadBucket(r) \/ UploadMake(r)
         \/ PrepareCheck(r) \/ InitBucket(r) \/ InitMake(r) \/ CallFails(r)
  PROVE  IInv'
<1> USE DEF IInv
<1>1. /\ Still /\ late' = late
      /\ at[r] # "idle"
      /\ bucket' \in BOOLEAN
      /\ faults' \in 0..MaxFaults /\ faults' \in Nat
  <2>1. /\ UNCHANGED <<objects, uploads, pool, session, etag, late>>
        /\ at[r] # "idle" /\ bucket' \in BOOLEAN
    BY DEF TypeOK, UploadCheck, UploadBucket, UploadMake,
       PrepareCheck, InitBucket, InitMake, CallFails, minio, client
  <2>2. NoFault \/ Fault
    BY DEF UploadCheck, UploadBucket, UploadMake,
       PrepareCheck, InitBucket, InitMake, CallFails
  <2> QED
    BY <2>1, <2>2, FaultCounted DEF Still
<1>2. \/ promised' = promised
      \/ \E c \in Content : \E row \in RowsOf(c) : Answer(c, row.identity)
  BY DEF ServedHasFile, UploadCheck, UploadBucket, UploadMake, PrepareCheck,
     InitBucket, InitMake, CallFails
<1>3. \/ Return(r)
      \/ \E s \in Stages \ (InsertStages \cup {"idle", "complete"}) :
           Goto(r, s)
  BY DEF Stages, UploadStages, PrepareStages, InsertStages, UploadCheck,
     UploadBucket, UploadMake, PrepareCheck, InitBucket, InitMake, CallFails
<1>4. promised' \subseteq [content : Content, identity : Uuid]
  BY <1>2 DEF TypeOK, Row, RowsOf, Answer, Handed
<1>5. TypeOK'
  <2>1. /\ at' \in [Request -> Stages]
        /\ hash' \in [Request -> Content \cup {None}]
        /\ target' \in [Request -> Uuid \cup {None}]
        /\ hadRow' \in [Request -> BOOLEAN]
    BY <1>3 DEF TypeOK, Goto, Return, Stages
  <2> QED
    BY <1>1, <1>4, <2>1 DEF TypeOK, Still
<1>6. ServedHasFile' /\ CompleteMatches' /\ InsertReady'
  BY <1>1, <1>3, MoveKeeps, ReturnKeeps DEF Goto
<1> QED
  BY <1>1, <1>2, <1>5, <1>6, StillKeeps

LEMMA UploadPutKeeps ==
  ASSUME IInv, NEW r \in Request, UploadPut(r)
  PROVE  IInv'
<1> USE DEF IInv
<1>1. PICK u \in Fresh :
        /\ objects' = [objects EXCEPT ![u] = Whole(hash[r])]
        /\ Names(r, u)
        /\ \/ /\ at' = [at EXCEPT ![r] = "uploadInsert"]
              /\ target' = [target EXCEPT ![r] = u]
              /\ UNCHANGED <<hash, hadRow>>
              /\ NoFault
           \/ Return(r) /\ Fault
  BY DEF UploadPut
<1>2. /\ u \in Uuid /\ objects[u] = None /\ uploads[u] = None
      /\ \A row \in pool : row.path # u
      /\ \A q \in Request : target[q] # u
  BY DEF Fresh, Used
<1>3. /\ at[r] = "uploadPut" /\ hash[r] \in Content
      /\ UNCHANGED <<bucket, uploads, pool, session, etag, promised>>
  BY DEF UploadPut, ServedHasFile, client
<1>4. Whole(hash[r]) \in Bytes
  BY <1>3 DEF Whole, Bytes, Piece
<1>5. /\ \A v \in Uuid : \A c : v # u /\ Delivers(v, c) => Delivers(v, c)'
      /\ \A c : c = hash[r] => Delivers(u, c)'
  <2>1. \A v \in Uuid : v # u => objects'[v] = objects[v]
    BY <1>1, <1>2 DEF TypeOK
  <2>2. objects'[u] = Whole(hash[r])
    BY <1>1, <1>2 DEF TypeOK
  <2>3. faults \in Nat /\ faults' \in Nat /\ faults <= faults'
    BY <1>1, FaultCounted
  <2>4. \A v \in Uuid : \A c : v # u /\ Delivers(v, c) => Delivers(v, c)'
    BY <1>3, <2>1, <2>3, DeliversStays
  <2>5. \A c : c = hash[r] => Delivers(u, c)'
    BY <2>2 DEF Delivers, Whole, Parts
  <2> QED
    BY <2>4, <2>5
<1>6. TypeOK'
  <2>1. objects' \in [Uuid -> Bytes \cup {None}]
    BY <1>1, <1>4 DEF TypeOK
  <2>2. /\ at' \in [Request -> Stages]
        /\ hash' \in [Request -> Content \cup {None}]
        /\ target' \in [Request -> Uuid \cup {None}]
        /\ hadRow' \in [Request -> BOOLEAN]
        /\ late' \subseteq Uuid
    BY <1>1, <1>2 DEF TypeOK, Return, Stages, Names
  <2> QED
    BY <1>1, <1>3, <2>1, <2>2, FaultCounted DEF TypeOK
<1>7. RowsResolve' /\ PromisesKept' /\ OneRowPerObject' /\ IdentityUnique'
  BY <1>2, <1>3, <1>5
     DEF RowsResolve, PromisesKept, OneRowPerObject, IdentityUnique, TypeOK, Row
<1>8. OpenUnfinished' /\ ChunksMatch'
  <2>1. \A v, k : Sound(v, k) \subseteq Sound(v, k)'
    BY <1>1, <1>3, FaultCounted, SoundStays
  <2> QED
    BY <1>1, <1>2, <1>3, <2>1 DEF OpenUnfinished, ChunksMatch, TypeOK
<1>9. ServedHasFile' /\ CompleteMatches'
  BY <1>1, <1>3 DEF ServedHasFile, CompleteMatches, Return, TypeOK
<1>10. InsertReady'
  <2>1. CASE Return(r)
    BY <1>2, <1>3, <1>5, <2>1 DEF InsertReady, InsertStages, Return, TypeOK
  <2>2. CASE /\ at' = [at EXCEPT ![r] = "uploadInsert"]
             /\ target' = [target EXCEPT ![r] = u]
             /\ UNCHANGED <<hash, hadRow>>
    BY <1>2, <1>3, <1>5, <2>2 DEF InsertReady, InsertStages, TypeOK
  <2> QED
    BY <1>1, <2>1, <2>2
<1> QED
  BY <1>6, <1>7, <1>8, <1>9, <1>10

(* The row an insert adds: unused identity, an object nobody else has.     *)
LEMMA InsertKeeps ==
  ASSUME IInv, NEW r \in Request, UploadInsert(r) \/ CompleteInsert(r)
  PROVE  IInv'
<1> USE DEF IInv
<1>1. PICK i \in Fresh :
        /\ pool' = pool \cup
             {[identity |-> i, hash |-> hash[r], path |-> target[r]]}
        /\ Answer(hash[r], i) \/ promised' = promised
  BY DEF UploadInsert, CompleteInsert, Insert
<1> DEFINE new == [identity |-> i, hash |-> hash[r], path |-> target[r]]
<1>2. /\ at[r] \in InsertStages /\ hash[r] \in Content
      /\ Return(r)
      /\ UNCHANGED <<bucket, objects, uploads, session, etag, late>>
      /\ NoFault \/ Fault
  BY DEF UploadInsert, CompleteInsert, InsertStages, ServedHasFile, minio,
     client
<1>3. /\ target[r] \in Uuid
      /\ Delivers(target[r], hash[r])
      /\ uploads[target[r]] = None
      /\ \A row \in pool : row.path # target[r]
      /\ \A q \in Request : q # r /\ at[q] \in InsertStages =>
           target[q] # target[r]
  BY <1>2 DEF InsertReady
<1>4. i \in Uuid /\ \A row \in pool : row.identity # i
  BY DEF Fresh, Used
<1>5. /\ new \in Row /\ new \in pool' /\ pool \subseteq pool'
      /\ new.identity = i /\ new.hash = hash[r] /\ new.path = target[r]
  BY <1>1, <1>2, <1>3, <1>4 DEF Row
<1>6. TypeOK'
  <2>1. pool' \subseteq Row
    BY <1>1, <1>5 DEF TypeOK
  <2>2. promised' \subseteq [content : Content, identity : Uuid]
    BY <1>1, <1>2, <1>4 DEF TypeOK, Answer, Handed
  <2> QED
    BY <1>2, <2>1, <2>2, FaultCounted DEF TypeOK, Return, Stages
<1> HIDE DEF new
<1>7. \A row \in pool' : row \in pool \/ row = new
  BY <1>1 DEF new
<1>20. \A u, c : Delivers(u, c) => Delivers(u, c)'
  BY <1>2, FaultCounted, DeliversStays
<1>8. RowsResolve'
  BY <1>3, <1>5, <1>7, <1>20 DEF RowsResolve
<1>9. PromisesKept'
  <2> SUFFICES ASSUME NEW p \in promised'
               PROVE  \E row \in pool' : /\ row.identity = p.identity
                                         /\ Delivers(row.path, p.content)'
    BY DEF PromisesKept
  <2>1. CASE p \in promised
    BY <2>1, <1>5, <1>20 DEF PromisesKept
  <2>2. CASE p = Handed(hash[r], i)
    BY <2>2, <1>3, <1>5, <1>20 DEF Handed
  <2> QED
    BY <1>1, <2>1, <2>2 DEF Answer
<1>10. OneRowPerObject' /\ IdentityUnique'
  BY <1>3, <1>4, <1>5, <1>7 DEF OneRowPerObject, IdentityUnique
<1>11. OpenUnfinished' /\ ChunksMatch'
  <2>1. \A u, k : Sound(u, k) \subseteq Sound(u, k)'
    BY <1>2, FaultCounted, SoundStays
  <2> QED
    BY <1>2, <1>3, <1>5, <1>7, <2>1 DEF OpenUnfinished, ChunksMatch
<1>12. ServedHasFile' /\ CompleteMatches'
  BY <1>2 DEF ServedHasFile, CompleteMatches, Return, TypeOK
<1>13. InsertReady'
  BY <1>2, <1>3, <1>5, <1>7, <1>20 DEF InsertReady, InsertStages, Return, TypeOK
<1> QED
  BY <1>6, <1>8, <1>9, <1>10, <1>11, <1>12, <1>13

(* Opening a multipart upload under an unused key. *)
LEMMA InitPartKeeps ==
  ASSUME IInv, NEW r \in Request, InitPart(r)
  PROVE  IInv'
<1> USE DEF IInv
<1>1. /\ UNCHANGED <<bucket, objects, pool, etag, promised>>
      /\ at[r] = "initPart" /\ hash[r] \in Content /\ Return(r)
      /\ faults' \in 0..MaxFaults /\ faults <= faults'
      /\ faults \in Nat /\ faults' \in Nat
  <2>1. NoFault \/ Fault
    BY DEF InitPart
  <2> QED
    BY <2>1, FaultCounted DEF InitPart, ServedHasFile
<1>2. CASE UNCHANGED <<uploads, late, session>>
  <2>1. Still
    BY <1>1, <1>2 DEF Still
  <2>2. TypeOK'
    BY <1>1, <1>2 DEF TypeOK, Return, Stages
  <2> QED
    BY <1>1, <2>1, <2>2, StillKeeps, ReturnKeeps
<1>3. ASSUME NEW u \in Fresh,
             uploads' = [uploads EXCEPT ![u] = [k \in Parts |-> None]],
             Names(r, u),
             session' \in {session, [session EXCEPT ![u] = hash[r]]}
      PROVE  IInv'
  <2>1. /\ u \in Uuid /\ objects[u] = None /\ uploads[u] = None
        /\ session[u] = None
        /\ \A row \in pool : row.path # u
        /\ \A q \in Request : target[q] # u
    BY DEF Fresh, Used
  <2>2. TypeOK'
    BY <1>1, <1>3, <2>1 DEF TypeOK, Return, Stages, Bytes, Names
  <2>8. \A v \in Uuid : \A c : v # u /\ Delivers(v, c) => Delivers(v, c)'
    <3>1. \A v \in Uuid : v # u => session'[v] = session[v]
      BY <1>3 DEF TypeOK
    <3> QED
      BY <1>1, <3>1, DeliversStays
  <2>3. RowsResolve' /\ PromisesKept' /\ OneRowPerObject' /\ IdentityUnique'
    BY <1>1, <2>1, <2>8
       DEF RowsResolve, PromisesKept, OneRowPerObject, IdentityUnique, TypeOK, Row
  <2>4. OpenUnfinished'
    BY <1>1, <1>3, <2>1 DEF OpenUnfinished, TypeOK
  <2>5. ChunksMatch'
    <3> SUFFICES ASSUME NEW v \in Uuid, NEW k \in Parts
                 PROVE /\ uploads'[v] # None =>
                            uploads'[v][k] \in {None} \cup Sound(v, k)'
                       /\ etag[v][k] \in {None, Blank} \cup Sound(v, k)'
      BY <1>1 DEF ChunksMatch
    <3>1. CASE v = u
      <4>1. etag[u][k] \in {None, Blank}
        BY <2>1, NoneAssumption DEF ChunksMatch, TypeOK, Piece, Sound, Pieces
      <4> QED
        BY <3>1, <4>1, <1>3 DEF TypeOK
    <3>2. CASE v # u
      <4>1. session'[v] = session[v] /\ uploads'[v] = uploads[v]
        BY <3>2, <1>3 DEF TypeOK
      <4>2. Sound(v, k) \subseteq Sound(v, k)'
        BY <1>1, <4>1, SoundStays
      <4> QED
        BY <4>1, <4>2 DEF ChunksMatch
    <3> QED
      BY <3>1, <3>2
  <2>6. ServedHasFile' /\ CompleteMatches'
    BY <1>1, <1>3, <2>1 DEF ServedHasFile, CompleteMatches, Return, TypeOK
  <2>7. InsertReady'
    BY <1>1, <1>3, <2>1, <2>8 DEF InsertReady, InsertStages, Return, TypeOK
  <2> QED
    BY <2>2, <2>3, <2>4, <2>5, <2>6, <2>7
<1> QED
  BY <1>2, <1>3 DEF InitPart

(* A chunk is stored or acknowledged: only what is known of that chunk     *)
(* changes, and it becomes the chunk of the client's file.                 *)
LEMMA ChunkKeeps ==
  ASSUME IInv, NEW u \in Uuid, NEW k \in Parts, Chunk(u, k)
  PROVE  IInv'
<1> USE DEF IInv
<1>1. PICK piece \in Pieces(session[u], k) :
        /\ UNCHANGED <<bucket, objects, late, pool, session, promised, handler>>
        /\ session[u] \in Content
        /\ \/ uploads' = uploads
           \/ /\ uploads[u] # None
              /\ uploads' = [uploads EXCEPT ![u] = [@ EXCEPT ![k] = piece]]
        /\ \/ etag' = etag
           \/ \E tag \in {Blank, piece} : Acked(u, k, tag)
        /\ (piece = <<session[u], k, "whole">> /\ NoFault) \/ Fault
  <2>1. session[u] \in Content
    BY DEF Chunk, UploadChunk, FilelessChunk, TypeOK
  <2>2. CASE UploadChunk(u, k)
    BY <2>1, <2>2 DEF UploadChunk, Whole
  <2>3. CASE FilelessChunk(u, k)
    <3>1. <<session[u], k, "whole">> \in Pieces(session[u], k)
      BY DEF Pieces
    <3> QED
      BY <2>1, <2>3, <3>1 DEF FilelessChunk, minio, NoFault
  <2> QED
    BY <2>2, <2>3 DEF Chunk
<1>2. piece \in Piece /\ piece # None
  BY <1>1, NoneAssumption DEF Piece, Pieces
<1>12. /\ faults \in Nat /\ faults' \in Nat /\ faults <= faults'
       /\ faults' \in 0..MaxFaults
       /\ \A v, j : Sound(v, j) \subseteq Sound(v, j)'
       /\ piece \in Sound(u, k)'
  <2>1. /\ faults \in Nat /\ faults' \in Nat /\ faults <= faults'
        /\ faults' \in 0..MaxFaults
    BY <1>1, FaultCounted
  <2>2. \A v, j : Sound(v, j) \subseteq Sound(v, j)'
    BY <1>1, <2>1, SoundStays
  <2>3. piece \in Sound(u, k)'
    BY <1>1, <2>1 DEF Sound, Pieces, Fault
  <2> QED
    BY <2>1, <2>2, <2>3
<1>3. /\ etag' \in [Uuid -> [Parts -> Piece \cup {None, Blank}]]
      /\ \A v \in Uuid, j \in Parts :
           \/ etag'[v][j] = etag[v][j]
           \/ v = u /\ j = k /\ etag'[v][j] \in {Blank, piece}
  <2>1. etag \in [Uuid -> [Parts -> Piece \cup {None, Blank}]]
    BY DEF TypeOK
  <2>2. CASE etag' = etag
    BY <2>1, <2>2
  <2>3. ASSUME NEW tag \in {Blank, piece}, Acked(u, k, tag)
        PROVE  <1>3
    <3>1. etag' = [etag EXCEPT ![u] = [etag[u] EXCEPT ![k] = tag]]
      BY <2>3 DEF Acked
    <3>2. tag \in Piece \cup {None, Blank}
      BY <1>2
    <3>3. [etag[u] EXCEPT ![k] = tag] \in [Parts -> Piece \cup {None, Blank}]
      BY <2>1, <3>2
    <3> QED
      BY <2>1, <3>1, <3>3
  <2> QED
    BY <1>1, <2>2, <2>3
<1>4. /\ uploads' \in [Uuid -> Bytes \cup {None}]
      /\ \A v \in Uuid : uploads'[v] # None <=> uploads[v] # None
      /\ \A v \in Uuid, j \in Parts :
           \/ uploads'[v][j] = uploads[v][j]
           \/ v = u /\ j = k /\ uploads'[v][j] = piece
  <2>1. uploads \in [Uuid -> Bytes \cup {None}]
    BY DEF TypeOK
  <2>2. CASE uploads' = uploads
    BY <2>1, <2>2
  <2>3. CASE /\ uploads[u] # None
             /\ uploads' = [uploads EXCEPT ![u] = [@ EXCEPT ![k] = piece]]
    <3> DEFINE b == [uploads[u] EXCEPT ![k] = piece]
    <3>1. uploads' = [uploads EXCEPT ![u] = b] /\ uploads[u] \in Bytes
      BY <2>1, <2>3
    <3>2. b \in Bytes /\ b # None
      BY <1>2, <3>1, NoneAssumption DEF Bytes
    <3>3. \A j \in Parts : b[j] = IF j = k THEN piece ELSE uploads[u][j]
      BY <3>1 DEF Bytes
    <3> HIDE DEF b
    <3> QED
      BY <2>1, <2>3, <3>1, <3>2, <3>3
  <2> QED
    BY <1>1, <2>2, <2>3
<1>5. TypeOK'
  BY <1>1, <1>3, <1>4, <1>12 DEF TypeOK, handler
<1>7. \A v, c : Delivers(v, c) => Delivers(v, c)'
  BY <1>1, <1>12, DeliversStays
<1>6. /\ RowsResolve' /\ PromisesKept' /\ OneRowPerObject' /\ IdentityUnique'
      /\ ServedHasFile'
  BY <1>1, <1>7 DEF RowsResolve, PromisesKept, OneRowPerObject, IdentityUnique,
     ServedHasFile, handler
<1>8. OpenUnfinished'
  BY <1>1, <1>4 DEF OpenUnfinished, TypeOK, Row
<1>9. ChunksMatch'
  <2> SUFFICES ASSUME NEW v \in Uuid, NEW j \in Parts
               PROVE /\ uploads'[v] # None =>
                          uploads'[v][j] \in {None} \cup Sound(v, j)'
                     /\ etag'[v][j] \in {None, Blank} \cup Sound(v, j)'
    BY DEF ChunksMatch
  <2>1. uploads'[v] # None => uploads'[v][j] \in {None} \cup Sound(v, j)'
    <3>1. uploads[v] # None => uploads[v][j] \in {None} \cup Sound(v, j)
      BY DEF ChunksMatch
    <3> QED
      BY <1>4, <1>12, <3>1
  <2>2. etag'[v][j] \in {None, Blank} \cup Sound(v, j)'
    <3>1. etag[v][j] \in {None, Blank} \cup Sound(v, j)
      BY DEF ChunksMatch
    <3> QED
      BY <1>3, <1>12, <3>1
  <2> QED
    BY <2>1, <2>2
<1>10. CompleteMatches'
  <2>1. \A v \in Uuid, j \in Parts : etag[v][j] # None => etag'[v][j] # None
    BY <1>2, <1>3, BlankAssumption
  <2> QED
    BY <1>1, <2>1 DEF CompleteMatches, handler
<1>11. InsertReady'
  BY <1>1, <1>4, <1>7 DEF InsertReady, handler
<1> QED
  BY <1>5, <1>6, <1>8, <1>9, <1>10, <1>11

(* What MinIO accepts is the file the client has been sending, whole if    *)
(* nothing failed so far.                                                  *)
LEMMA AcceptedIsCopy ==
  ASSUME IInv, NEW r \in Request, at[r] = "complete",
         NEW list, Accepts(target[r], list)
  PROVE  /\ target[r] \in Uuid /\ uploads[target[r]] # None
         /\ session[target[r]] = hash[r] /\ uploads[target[r]] \in Bytes
         /\ MadeOf(uploads[target[r]], hash[r])
         /\ faults = 0 => uploads[target[r]] = Whole(hash[r])
<1> DEFINE u == target[r]
<1>1. /\ u \in Uuid /\ session[u] = hash[r]
      /\ \A k \in Parts : etag[u][k] # None
  BY DEF IInv, CompleteMatches
<1>2. /\ uploads[u] \in Bytes /\ uploads[u] # None
      /\ \A k \in Parts : etag[u][k] # Blank /\ etag[u][k] = uploads[u][k]
  BY <1>1 DEF IInv, TypeOK, Accepts
<1>3. \A k \in Parts : uploads[u][k] \in Sound(u, k)
  BY <1>1, <1>2 DEF IInv, ChunksMatch
<1>4. MadeOf(uploads[u], hash[r])
  BY <1>1, <1>2, <1>3 DEF MadeOf, Sound, Pieces
<1>5. faults = 0 => uploads[u] = Whole(hash[r])
  BY <1>1, <1>2, <1>3 DEF Sound, Bytes, Whole
<1> QED
  BY <1>1, <1>2, <1>4, <1>5

LEMMA CompleteMultipartKeeps ==
  ASSUME IInv, NEW r \in Request, CompleteMultipart(r)
  PROVE  IInv'
<1> USE DEF IInv
<1>1. /\ UNCHANGED <<bucket, late, pool, session, etag, promised>>
      /\ at[r] = "complete" /\ hash[r] \in Content
      /\ Return(r) \/ Goto(r, "completeInsert")
      /\ faults' \in 0..MaxFaults /\ faults <= faults'
      /\ faults \in Nat /\ faults' \in Nat
  <2>1. NoFault \/ Fault
    BY DEF CompleteMultipart
  <2> QED
    BY <2>1, FaultCounted DEF CompleteMultipart, ServedHasFile, client
<1>2. CASE Return(r) /\ UNCHANGED <<objects, uploads>>
  <2>1. Still
    BY <1>1, <1>2 DEF Still
  <2>2. TypeOK'
    BY <1>1, <1>2 DEF TypeOK, Return, Stages
  <2> QED
    BY <1>1, <1>2, <2>1, <2>2, StillKeeps, ReturnKeeps
<1>3. ASSUME NEW list, Accepts(target[r], list),
             objects' = [objects EXCEPT ![target[r]] = uploads[target[r]]],
             uploads' = [uploads EXCEPT ![target[r]] = None]
      PROVE  IInv'
  <2>0. PICK u \in Uuid : u = target[r]
    BY <1>1 DEF CompleteMatches
  <2>1. /\ u \in Uuid /\ uploads[u] # None /\ uploads[u] \in Bytes
        /\ session[u] = hash[r] /\ MadeOf(uploads[u], hash[r])
        /\ faults = 0 => uploads[u] = Whole(hash[r])
        /\ objects[u] = None
        /\ \A row \in pool : row.path # u
        /\ \A q \in Request : at[q] \in InsertStages => target[q] # u
    BY <1>1, <1>3, <2>0, AcceptedIsCopy DEF OpenUnfinished, InsertReady
  <2>2. /\ objects' = [objects EXCEPT ![u] = uploads[u]]
        /\ uploads' = [uploads EXCEPT ![u] = None]
    BY <1>3, <2>0
  <2>3. /\ \A v \in Uuid : \A c : v # u /\ Delivers(v, c) => Delivers(v, c)'
        /\ \A c : c = hash[r] => Delivers(u, c)'
    <3>1. \A v \in Uuid : v # u => objects'[v] = objects[v]
      BY <2>1, <2>2 DEF TypeOK
    <3>2. objects'[u] = uploads[u] /\ session'[u] = hash[r]
      BY <1>1, <2>1, <2>2 DEF TypeOK
    <3>3. \A v \in Uuid : \A c : v # u /\ Delivers(v, c) => Delivers(v, c)'
      BY <1>1, <3>1, DeliversStays
    <3>4. \A c : c = hash[r] => Delivers(u, c)'
      <4>1. CASE faults = 0
        BY <2>1, <3>2, <4>1 DEF Delivers, Whole, Parts
      <4>2. CASE faults # 0
        <5>1. faults' > 0
          BY <1>1, <4>2
        <5> QED
          BY <2>1, <3>2, <5>1 DEF Delivers, MadeOf, Pieces, Parts
      <4> QED
        BY <4>1, <4>2
    <3> QED
      BY <3>3, <3>4
  <2>4. TypeOK'
    <3>2. /\ objects' \in [Uuid -> Bytes \cup {None}]
          /\ uploads' \in [Uuid -> Bytes \cup {None}]
      BY <2>1, <2>2 DEF TypeOK
    <3>3. /\ at' \in [Request -> Stages]
          /\ hash' \in [Request -> Content \cup {None}]
          /\ target' \in [Request -> Uuid \cup {None}]
          /\ hadRow' \in [Request -> BOOLEAN]
      BY <1>1 DEF TypeOK, Return, Goto, Stages, CompleteStages
    <3> QED
      BY <1>1, <3>2, <3>3 DEF TypeOK
  <2>5. RowsResolve' /\ PromisesKept' /\ OneRowPerObject' /\ IdentityUnique'
    BY <1>1, <2>1, <2>3
       DEF RowsResolve, PromisesKept, OneRowPerObject, IdentityUnique, TypeOK, Row
  <2>6. OpenUnfinished' /\ ChunksMatch'
    <3>1. \A v, k : Sound(v, k) \subseteq Sound(v, k)'
      BY <1>1, SoundStays
    <3> QED
      BY <1>1, <2>1, <2>2, <3>1 DEF OpenUnfinished, ChunksMatch, TypeOK, Row
  <2>7. ServedHasFile' /\ CompleteMatches'
    <3>1. CASE Return(r)
      BY <1>1, <3>1 DEF ServedHasFile, CompleteMatches, Return, TypeOK
    <3>2. CASE Goto(r, "completeInsert")
      BY <1>1, <3>2 DEF ServedHasFile, CompleteMatches, Goto, TypeOK
    <3> QED
      BY <1>1, <3>1, <3>2
  <2>8. InsertReady'
    <3>1. CASE Return(r)
      BY <1>1, <2>1, <2>2, <2>3, <3>1 DEF InsertReady, InsertStages, Return, TypeOK
    <3>2. CASE Goto(r, "completeInsert")
      BY <1>1, <2>0, <2>1, <2>2, <2>3, <3>2
         DEF InsertReady, InsertStages, Goto, TypeOK
    <3> QED
      BY <1>1, <3>1, <3>2
  <2> QED
    BY <2>4, <2>5, <2>6, <2>7, <2>8
<1> QED
  BY <1>2, <1>3 DEF CompleteMultipart

LEMMA CrashKeeps ==
  ASSUME IInv, Crash
  PROVE  IInv'
<1> USE DEF IInv
<1>1. /\ UNCHANGED <<objects, uploads, pool, session, etag>>
      /\ promised' = promised /\ bucket' = bucket /\ late' = late
      /\ at' = [r \in Request |-> "idle"]
      /\ hash' = [r \in Request |-> None]
      /\ target' = [r \in Request |-> None]
      /\ hadRow' = [r \in Request |-> FALSE]
      /\ Fault
  BY DEF Crash, minio, client
<1>2. TypeOK'
  BY <1>1, FaultCounted DEF TypeOK, Stages
<1>3. ServedHasFile' /\ CompleteMatches' /\ InsertReady'
  BY <1>1 DEF ServedHasFile, CompleteMatches, InsertReady, InsertStages
<1>4. Still /\ faults' \in Nat
  BY <1>1, FaultCounted DEF Still
<1> QED
  BY <1>1, <1>2, <1>3, <1>4, StillKeeps

-----------------------------------------------------------------------------
(* IInv is inductive: one lemma above for each kind of step. *)
LEMMA NextIInv == IInv /\ [Next]_vars => IInv'
<1> SUFFICES ASSUME IInv, [Next]_vars PROVE IInv'
  OBVIOUS
<1>1. ASSUME NEW r \in Request, Arrival(r) PROVE IInv'
  BY <1>1, ArriveKeeps
<1>2. ASSUME NEW r \in Request, Serve(r) \/ CallFails(r) PROVE IInv'
  <2>1. CASE UploadPut(r)
    BY <2>1, UploadPutKeeps
  <2>2. CASE UploadInsert(r) \/ CompleteInsert(r)
    BY <2>2, InsertKeeps
  <2>3. CASE InitPart(r)
    BY <2>3, InitPartKeeps
  <2>4. CASE CompleteMultipart(r)
    BY <2>4, CompleteMultipartKeeps
  <2> QED
    BY <1>2, <2>1, <2>2, <2>3, <2>4, StillSteps DEF Serve
<1>3. ASSUME NEW u \in Uuid, NEW k \in Parts, Chunk(u, k) PROVE IInv'
  BY <1>3, ChunkKeeps
<1>4. CASE Crash
  BY <1>4, CrashKeeps
<1>5. CASE UNCHANGED vars
  <2>1. Still /\ promised' = promised /\ faults' \in Nat
    BY <1>5, FaultsAssumption DEF vars, minio, client, Still, IInv, TypeOK
  <2>2. TypeOK'
    BY <1>5 DEF IInv, TypeOK, vars, minio, client, handler
  <2>3. ServedHasFile' /\ CompleteMatches' /\ InsertReady'
    BY <1>5 DEF IInv, ServedHasFile, CompleteMatches, InsertReady, vars, minio,
       client, handler, Delivers, MadeOf, Whole, Pieces
  <2> QED
    BY <2>1, <2>2, <2>3, StillKeeps DEF IInv
<1> QED
  BY <1>1, <1>2, <1>3, <1>4, <1>5 DEF Next

THEOREM Invariance == Spec => []IInv
<1> QED
  BY InitIInv, NextIInv, PTL DEF Spec

(* TypeOK: every variable keeps its type, for all values of the constants. *)
THEOREM TypeCorrect == Spec => []TypeOK
<1>1. IInv => TypeOK
  BY DEF IInv
<1> QED
  BY <1>1, Invariance, PTL

(* RowsResolve: every row leads to the file its hash names, and to all of  *)
(* it unless a chunk's Copy broke off.                                     *)
THEOREM RowsAlwaysResolve == Spec => []RowsResolve
<1>1. IInv => RowsResolve
  BY DEF IInv
<1> QED
  BY <1>1, Invariance, PTL

(* PromisesKept: an identity handed to a client leads to the client's file. *)
THEOREM PromisesAlwaysKept == Spec => []PromisesKept
<1>1. IInv => PromisesKept
  BY DEF IInv
<1> QED
  BY <1>1, Invariance, PTL

(* OneRowPerObject: no object is registered twice. *)
THEOREM ObjectsRegisteredOnce == Spec => []OneRowPerObject
<1>1. IInv => OneRowPerObject
  BY DEF IInv
<1> QED
  BY <1>1, Invariance, PTL

-----------------------------------------------------------------------------
(* Refinement of ContentStore.  Bound picks out the row of an identity;     *)
(* rows have identities of their own and lead to their files, so Bound is   *)
(* the hash column, and it changes only where a row is added.               *)
LEMMA ContentOfCopy ==
  ASSUME NEW c \in Content, NEW b, MadeOf(b, c)
  PROVE  ContentOf(b) = c
<1>1. 1 \in Parts
  BY NumPartsAssumption DEF Parts
<1>2. ASSUME NEW d \in Content, MadeOf(b, d) PROVE d = c
  <2>1. b[1] \in Pieces(c, 1) /\ b[1] \in Pieces(d, 1)
    BY <1>1, <1>2 DEF MadeOf
  <2> QED
    BY <2>1 DEF Pieces
<1> QED
  BY <1>2 DEF ContentOf

LEMMA DeliversIsCopy ==
  ASSUME NEW u, NEW c \in Content, Delivers(u, c)
  PROVE  MadeOf(objects[u], c)
<1>1. Whole(c) \in Bytes /\ \A k \in Parts : Whole(c)[k] \in Pieces(c, k)
  BY DEF Whole, Bytes, Piece, Pieces
<1> QED
  BY <1>1, NoneAssumption DEF Delivers, MadeOf

LEMMA BoundIsHash ==
  ASSUME IInv
  PROVE  /\ \A row \in pool : Bound[row.identity] = row.hash
         /\ \A i \in Uuid : (\A row \in pool : row.identity # i)
                               => Bound[i] = None
<1>1. ASSUME NEW row \in pool PROVE Bound[row.identity] = row.hash
  <2>1. row \in Row
    BY DEF IInv, TypeOK
  <2>2. (CHOOSE x \in pool : x.identity = row.identity) = row
    BY DEF IInv, IdentityUnique
  <2>3. Bound[row.identity] = ContentOf(objects[row.path])
    BY <2>1, <2>2 DEF Bound, Row
  <2>4. MadeOf(objects[row.path], row.hash)
    BY <2>1, DeliversIsCopy DEF IInv, RowsResolve, Row
  <2> QED
    BY <2>1, <2>3, <2>4, ContentOfCopy DEF Row
<1>2. \A i \in Uuid : (\A row \in pool : row.identity # i) => Bound[i] = None
  BY DEF Bound
<1> QED
  BY <1>1, <1>2

(* The same, one step later. *)
LEMMA BoundIsHashNext ==
  ASSUME IInv'
  PROVE  /\ \A row \in pool' : Bound'[row.identity] = row.hash
         /\ \A i \in Uuid : (\A row \in pool' : row.identity # i)
                               => Bound'[i] = None
<1>1. ASSUME NEW row \in pool' PROVE Bound'[row.identity] = row.hash
  <2>1. row \in Row
    BY DEF IInv, TypeOK
  <2>2. (CHOOSE x \in pool' : x.identity = row.identity) = row
    BY DEF IInv, IdentityUnique
  <2>3. Bound'[row.identity] = ContentOf(objects'[row.path])
    BY <2>1, <2>2 DEF Bound, Row, ContentOf, MadeOf, Pieces, Parts
  <2>4. MadeOf(objects'[row.path], row.hash)
    <3>1. Delivers(row.path, row.hash)'
      BY DEF IInv, RowsResolve
    <3>2. Whole(row.hash) \in Bytes /\ row.hash \in Content
          /\ \A k \in Parts : Whole(row.hash)[k] \in Pieces(row.hash, k)
      BY <2>1 DEF Whole, Bytes, Piece, Pieces, Row
    <3> QED
      BY <3>1, <3>2, NoneAssumption DEF Delivers, MadeOf, Whole, Pieces, Parts
  <2> QED
    BY <2>1, <2>3, <2>4, ContentOfCopy DEF Row
<1>2. \A i \in Uuid : (\A row \in pool' : row.identity # i) => Bound'[i] = None
  BY DEF Bound
<1> QED
  BY <1>1, <1>2

LEMMA BoundIsFunction == Bound = [i \in Uuid |-> Bound[i]]
BY DEF Bound

LEMMA BoundIsFunctionNext == Bound' = [i \in Uuid |-> Bound'[i]]
BY DEF Bound

(* Without a new row every identity stays bound as it was. *)
LEMMA SamePoolSameBound ==
  ASSUME IInv, IInv', pool' = pool
  PROVE  Bound' = Bound
<1>1. \A i \in Uuid : Bound'[i] = Bound[i]
  <2> TAKE i \in Uuid
  <2>1. CASE \E row \in pool : row.identity = i
    BY <2>1, BoundIsHash, BoundIsHashNext
  <2>2. CASE \A row \in pool : row.identity # i
    BY <2>2, BoundIsHash, BoundIsHashNext
  <2> QED
    BY <2>1, <2>2
<1> QED
  BY <1>1, BoundIsFunction, BoundIsFunctionNext

LEMMA StoreInit == Init => Store!Init
BY DEF Init, Store!Init, Bound

(* An insert binds the new identity, and nothing else, to the file. *)
LEMMA InsertBinds ==
  ASSUME IInv, IInv', NEW r \in Request, UploadInsert(r) \/ CompleteInsert(r)
  PROVE  Store!Next
<1>1. PICK i \in Fresh :
        /\ pool' = pool \cup
             {[identity |-> i, hash |-> hash[r], path |-> target[r]]}
        /\ Answer(hash[r], i) \/ promised' = promised
  BY DEF UploadInsert, CompleteInsert, Insert
<1> DEFINE new == [identity |-> i, hash |-> hash[r], path |-> target[r]]
<1>2. hash[r] \in Content
  BY DEF IInv, ServedHasFile, UploadInsert, CompleteInsert
<1>3. i \in Uuid /\ \A row \in pool : row.identity # i
  BY DEF Fresh, Used
<1>4. Bound[i] = None
  BY <1>3, BoundIsHash
<1>5. Bound'[i] = hash[r]
  <2>1. new \in pool' /\ new.identity = i /\ new.hash = hash[r]
    BY <1>1
  <2> QED
    BY <2>1, BoundIsHashNext
<1>6. \A j \in Uuid : j # i => Bound'[j] = Bound[j]
  <2> SUFFICES ASSUME NEW j \in Uuid, j # i PROVE Bound'[j] = Bound[j]
    OBVIOUS
  <2>1. CASE \E row \in pool : row.identity = j
    BY <1>1, <2>1, BoundIsHash, BoundIsHashNext
  <2>2. CASE \A row \in pool : row.identity # j
    <3>1. \A row \in pool' : row.identity # j
      BY <1>1, <2>2
    <3> QED
      BY <2>2, <3>1, BoundIsHash, BoundIsHashNext
  <2> QED
    BY <2>1, <2>2
<1>7. Bound' = [Bound EXCEPT ![i] = hash[r]]
  BY <1>3, <1>5, <1>6, BoundIsFunction, BoundIsFunctionNext
<1>8. Store!Bind(i, hash[r])
  BY <1>1, <1>4, <1>7 DEF Store!Bind, Answer, Handed
<1> QED
  BY <1>2, <1>3, <1>8 DEF Store!Next

(* An instant upload hands out an identity already bound to the file. *)
LEMMA HitPromises ==
  ASSUME IInv, IInv', NEW c \in Content, NEW row \in RowsOf(c),
         Answer(c, row.identity), pool' = pool
  PROVE  Store!Next \/ UNCHANGED Store!vars
<1>1. row \in pool /\ row.hash = c /\ row.identity \in Uuid
  BY DEF RowsOf, IInv, TypeOK, Row
<1>2. Bound[row.identity] = c /\ Bound' = Bound
  BY <1>1, BoundIsHash, SamePoolSameBound
<1>3. CASE promised' = promised
  BY <1>2, <1>3 DEF Store!vars
<1>4. CASE promised' = promised \cup {Handed(c, row.identity)}
  <2>1. Store!Promise(row.identity, c)
    BY <1>2, <1>4 DEF Store!Promise, Handed
  <2> QED
    BY <1>1, <2>1 DEF Store!Next
<1> QED
  BY <1>3, <1>4 DEF Answer

LEMMA StoreStep ==
  ASSUME IInv, IInv', [Next]_vars
  PROVE  Store!Next \/ UNCHANGED Store!vars
<1>1. CASE pool' = pool /\ promised' = promised
  BY <1>1, SamePoolSameBound DEF Store!vars
<1>2. CASE \E r \in Request : UploadInsert(r) \/ CompleteInsert(r)
  BY <1>2, InsertBinds
<1>3. CASE \E r \in Request : UploadCheck(r) \/ PrepareCheck(r)
  <2>1. PICK r \in Request : UploadCheck(r) \/ PrepareCheck(r)
    BY <1>3
  <2>2. hash[r] \in Content /\ pool' = pool
    BY <2>1 DEF UploadCheck, PrepareCheck, IInv, ServedHasFile
  <2>3. \/ promised' = promised
        \/ \E row \in RowsOf(hash[r]) : Answer(hash[r], row.identity)
    BY <2>1 DEF UploadCheck, PrepareCheck
  <2> QED
    BY <1>1, <2>2, <2>3, HitPromises
<1>4. \/ pool' = pool /\ promised' = promised
      \/ \E r \in Request : UploadInsert(r) \/ CompleteInsert(r)
      \/ \E r \in Request : UploadCheck(r) \/ PrepareCheck(r)
  <2>1. ASSUME NEW r \in Request, Arrival(r)
        PROVE  pool' = pool /\ promised' = promised
    BY <2>1 DEF Arrival, StartUpload, StartPrepare, StartComplete, Arrive
  <2>2. ASSUME NEW r \in Request,
               \/ UploadBucket(r) \/ UploadMake(r) \/ UploadPut(r)
               \/ InitBucket(r) \/ InitMake(r) \/ InitPart(r)
               \/ CompleteMultipart(r) \/ CallFails(r)
        PROVE  pool' = pool /\ promised' = promised
    BY <2>2 DEF UploadBucket, UploadMake, UploadPut, InitBucket, InitMake,
       InitPart, CompleteMultipart, CallFails
  <2>3. ASSUME NEW u \in Uuid, NEW k \in Parts, Chunk(u, k)
        PROVE  pool' = pool /\ promised' = promised
    BY <2>3 DEF Chunk, UploadChunk, FilelessChunk
  <2>4. CASE Crash \/ UNCHANGED vars
    BY <2>4 DEF Crash, vars
  <2> QED
    BY <2>1, <2>2, <2>3, <2>4 DEF Next, Serve
<1> QED
  BY <1>1, <1>2, <1>3, <1>4

(* ImplementsStore: the table with its objects is the abstract store, for  *)
(* every instance: identities are bound once, to whole files, and promised *)
(* only while bound.                                                       *)
THEOREM Refinement == Spec => ImplementsStore
<1>1. IInv /\ IInv' /\ [Next]_vars => [Store!Next]_(Store!vars)
  BY StoreStep
<1> QED
  BY <1>1, StoreInit, Invariance, PTL DEF Spec, ImplementsStore, Store!Spec

-----------------------------------------------------------------------------
(* A file that had a row keeps having one, and its handlers go no further   *)
(* than the check.                                                          *)
StopsAtCheck == \A r \in Request :
  hadRow[r] => at[r] \in {"uploadCheck", "prepareCheck"} \cup CompleteStages

DedupInv == StopsAtCheck /\ HadRowIndexed /\ late = {}

LEMMA DedupStep ==
  ASSUME IInv, DedupInv, [Next]_vars
  PROVE  DedupInv'
<1> USE DEF DedupInv, IInv
<1>1. ASSUME pool \subseteq pool', late' = {}, NEW r \in Request,
             \/ Return(r)
             \/ /\ \E s \in Stages \ {"idle"} : Goto(r, s)
                /\ at[r] # "idle"
                /\ ~hadRow[r]
             \/ /\ at' = [at EXCEPT ![r] = "uploadInsert"]
                /\ UNCHANGED <<hash, hadRow>>
                /\ at[r] = "uploadPut"
      PROVE  DedupInv'
  <2>1. \A c : Indexed(c) => \E row \in pool' : row.hash = c
    BY <1>1 DEF Indexed
  <2>2. StopsAtCheck'
    BY <1>1 DEF StopsAtCheck, Return, Goto, TypeOK, CompleteStages
  <2>3. HadRowIndexed'
    BY <1>1, <2>1 DEF HadRowIndexed, Return, Goto, TypeOK, Indexed
  <2> QED
    BY <1>1, <2>2, <2>3
<1>2. ASSUME NEW r \in Request, Arrival(r) PROVE DedupInv'
  <2>1. PICK c \in Content : \E u :
          \E s \in {"uploadCheck", "prepareCheck", "complete"} : Arrive(r, s, c, u)
    BY <1>2 DEF Arrival, StartUpload, StartPrepare, StartComplete, TypeOK
  <2>2. StopsAtCheck'
    BY <2>1 DEF Arrive, StopsAtCheck, TypeOK, CompleteStages
  <2>3. HadRowIndexed' /\ late' = {}
    BY <2>1 DEF Arrive, HadRowIndexed, TypeOK, Indexed, minio
  <2> QED
    BY <2>2, <2>3
<1>3. ASSUME NEW r \in Request, Serve(r) \/ CallFails(r) PROVE DedupInv'
  <2>1. pool \subseteq pool'
    BY <1>3 DEF Serve, UploadCheck, UploadBucket, UploadMake, UploadPut,
       UploadInsert, PrepareCheck, InitBucket, InitMake, InitPart,
       CompleteMultipart, CompleteInsert, CallFails, Insert
  <2>7. late' = {}
    <3>1. CASE UploadPut(r) \/ InitPart(r)
      <4>1. ~hadRow[r]
        BY <3>1 DEF StopsAtCheck, CompleteStages, UploadPut, InitPart
      <4> QED
        BY <3>1, <4>1 DEF UploadPut, InitPart, Names
    <3> QED
      BY <1>3, <3>1 DEF Serve, UploadCheck, UploadBucket, UploadMake,
         UploadInsert, PrepareCheck, InitBucket, InitMake,
         CompleteMultipart, CompleteInsert, CallFails, minio
  <2>2. CASE \/ UploadInsert(r) \/ InitPart(r) \/ CompleteInsert(r)
             \/ CallFails(r)
    BY <1>1, <2>1, <2>2, <2>7
       DEF UploadInsert, InitPart, CompleteInsert, CallFails
  <2>3. CASE UploadPut(r)
    BY <1>1, <2>1, <2>3, <2>7 DEF UploadPut
  <2>4. CASE UploadCheck(r) \/ PrepareCheck(r)
    <3>1. RowsOf(hash[r]) = {} => ~hadRow[r]
      BY DEF HadRowIndexed, Indexed, RowsOf
    <3> QED
      BY <1>1, <2>1, <2>4, <3>1, <2>7
         DEF UploadCheck, PrepareCheck, Stages, UploadStages, PrepareStages
  <2>5. CASE UploadBucket(r) \/ UploadMake(r) \/ InitBucket(r) \/ InitMake(r)
    <3>1. ~hadRow[r]
      BY <2>5 DEF StopsAtCheck, CompleteStages, UploadBucket, UploadMake,
         InitBucket, InitMake
    <3> QED
      BY <1>1, <2>1, <2>5, <3>1, <2>7 DEF UploadBucket, UploadMake, InitBucket,
         InitMake, Stages, UploadStages, PrepareStages
  <2>6. CASE CompleteMultipart(r)
    <3>1. CASE Return(r)
      BY <1>1, <2>1, <2>7, <3>1
    <3>2. CASE Goto(r, "completeInsert")
      <4>1. at[r] = "complete" /\ pool' = pool
        BY <2>6 DEF CompleteMultipart
      <4> QED
        BY <2>7, <3>2, <4>1 DEF Goto, StopsAtCheck, HadRowIndexed, TypeOK,
           CompleteStages, Indexed
    <3> QED
      BY <2>6, <3>1, <3>2 DEF CompleteMultipart
  <2> QED
    BY <1>3, <2>2, <2>3, <2>4, <2>5, <2>6 DEF Serve
<1>4. ASSUME NEW u \in Uuid, NEW k \in Parts, Chunk(u, k) PROVE DedupInv'
  BY <1>4 DEF Chunk, UploadChunk, FilelessChunk, handler, minio,
     StopsAtCheck, HadRowIndexed, Indexed
<1>5. CASE Crash
  BY <1>5 DEF Crash, minio, StopsAtCheck, HadRowIndexed
<1>6. CASE UNCHANGED vars
  BY <1>6 DEF vars, minio, handler, StopsAtCheck, HadRowIndexed, Indexed
<1> QED
  BY <1>2, <1>3, <1>4, <1>5, <1>6 DEF Next

(* DuplicatesOverlap: the look at the table that FileUpload and            *)
(* FileUploadPrepare begin with keeps every request of a file that has a   *)
(* row from making a name in the store, so a row leads only to what began  *)
(* to be uploaded while the file had none.                                 *)
THEOREM DuplicatesOnlyOverlap == Spec => []DuplicatesOverlap
<1>1. Init => DedupInv
  BY DEF Init, DedupInv, StopsAtCheck, HadRowIndexed
<1>2. IInv /\ DedupInv /\ [Next]_vars => DedupInv'
  BY DedupStep
<1>3. DedupInv => DuplicatesOverlap
  BY DEF DedupInv, DuplicatesOverlap
<1> QED
  BY <1>1, <1>2, <1>3, Invariance, PTL DEF Spec

-----------------------------------------------------------------------------
(* An object stored stays on the way to its row: what registers it is the   *)
(* handler that stored it, and only a fault takes that handler away.        *)
Registered(u) == \/ \E row \in pool : row.path = u
                 \/ \E r \in Request : at[r] \in InsertStages /\ target[r] = u

LEMMA OrphanStep ==
  ASSUME IInv, NoOrphanWithoutFault, [Next]_vars
  PROVE  NoOrphanWithoutFault'
<1> USE DEF IInv
<1> SUFFICES ASSUME faults' = 0, NEW u \in Uuid, objects'[u] # None
             PROVE  Registered(u)'
  BY DEF NoOrphanWithoutFault, Registered
<1>1. faults = 0 /\ ~Fault
  <2>1. faults \in Nat /\ faults' # faults + 1
    BY FaultsAssumption DEF TypeOK
  <2>2. faults' \in {faults, faults + 1}
    BY DEF Next, Arrival, StartUpload, StartPrepare, StartComplete, Arrive,
       Serve, UploadCheck, UploadBucket, UploadMake, UploadPut, UploadInsert,
       PrepareCheck, InitBucket, InitMake, InitPart, CompleteMultipart,
       CompleteInsert, CallFails, Chunk, UploadChunk, FilelessChunk, Crash,
       NoFault, Fault, vars
  <2> QED
    BY <2>1, <2>2 DEF Fault
<1>2. objects[u] # None => Registered(u)
  BY <1>1 DEF NoOrphanWithoutFault, Registered
<1>3. ASSUME objects[u] # None, pool' = pool,
             \A q \in Request : at[q] \in InsertStages =>
                at'[q] = at[q] /\ target'[q] = target[q]
      PROVE  Registered(u)'
  BY <1>2, <1>3 DEF Registered
<1>4. ASSUME NEW r \in Request, Arrival(r) PROVE Registered(u)'
  <2>1. /\ objects' = objects /\ pool' = pool /\ at[r] = "idle"
        /\ \A q \in Request : q # r => at'[q] = at[q] /\ target'[q] = target[q]
    BY <1>4 DEF Arrival, StartUpload, StartPrepare, StartComplete, Arrive,
       minio, TypeOK
  <2> QED
    BY <1>3, <2>1 DEF InsertStages
<1>5. ASSUME NEW r \in Request,
             \/ UploadCheck(r) \/ UploadBucket(r) \/ UploadMake(r)
             \/ PrepareCheck(r) \/ InitBucket(r) \/ InitMake(r) \/ InitPart(r)
      PROVE  Registered(u)'
  <2>1. /\ objects' = objects /\ pool' = pool /\ at[r] \notin InsertStages
    BY <1>5 DEF InsertStages, minio, UploadCheck, UploadBucket, UploadMake,
       PrepareCheck, InitBucket, InitMake, InitPart
  <2>2. Return(r) \/ \E s \in Stages : Goto(r, s)
    BY <1>5 DEF UploadCheck, UploadBucket, UploadMake, PrepareCheck,
       InitBucket, InitMake, InitPart, Stages, UploadStages, PrepareStages
  <2>3. \A q \in Request : q # r => at'[q] = at[q] /\ target'[q] = target[q]
    BY <2>2 DEF Return, Goto, TypeOK
  <2> QED
    BY <1>3, <2>1, <2>3
<1>6. ASSUME NEW r \in Request, UploadPut(r) PROVE Registered(u)'
  <2>1. PICK v \in Fresh :
          /\ objects' = [objects EXCEPT ![v] = Whole(hash[r])]
          /\ at' = [at EXCEPT ![r] = "uploadInsert"]
          /\ target' = [target EXCEPT ![r] = v]
          /\ pool' = pool /\ at[r] = "uploadPut"
    BY <1>1, <1>6 DEF UploadPut
  <2>2. CASE u = v
    BY <2>1, <2>2 DEF Registered, InsertStages, TypeOK
  <2>3. CASE u # v
    <3>1. objects[u] # None
      BY <2>1, <2>3 DEF TypeOK
    <3> QED
      BY <1>3, <2>1, <3>1 DEF InsertStages, TypeOK
  <2> QED
    BY <2>2, <2>3
<1>7. ASSUME NEW r \in Request, UploadInsert(r) \/ CompleteInsert(r)
      PROVE  Registered(u)'
  <2>1. PICK i : pool' = pool \cup
             {[identity |-> i, hash |-> hash[r], path |-> target[r]]}
    BY <1>7 DEF UploadInsert, CompleteInsert, Insert
  <2>2. objects' = objects /\ Return(r)
    BY <1>7 DEF UploadInsert, CompleteInsert, minio
  <2>3. CASE \E row \in pool : row.path = u
    BY <2>1, <2>3 DEF Registered
  <2>4. CASE target[r] = u
    <3> DEFINE new == [identity |-> i, hash |-> hash[r], path |-> target[r]]
    <3>1. new \in pool' /\ new.path = u
      BY <2>1, <2>4
    <3> QED
      BY <3>1 DEF Registered
  <2>5. CASE \E q \in Request : q # r /\ at[q] \in InsertStages /\ target[q] = u
    BY <2>2, <2>5 DEF Registered, Return, TypeOK
  <2> QED
    BY <1>2, <2>2, <2>3, <2>4, <2>5 DEF Registered
<1>8. ASSUME NEW r \in Request, CompleteMultipart(r) PROVE Registered(u)'
  <2>1. at[r] = "complete" /\ pool' = pool
    BY <1>8 DEF CompleteMultipart
  <2>2. CASE Return(r) /\ objects' = objects
    BY <1>3, <2>1, <2>2 DEF Return, InsertStages, TypeOK
  <2>3. CASE /\ Goto(r, "completeInsert")
             /\ objects' = [objects EXCEPT ![target[r]] = uploads[target[r]]]
    <3>1. CASE u = target[r]
      BY <2>3, <3>1 DEF Registered, Goto, InsertStages, TypeOK
    <3>2. CASE u # target[r]
      <4>1. objects[u] # None
        BY <2>3, <3>2 DEF TypeOK
      <4> QED
        BY <1>3, <2>1, <2>3, <4>1 DEF Goto, InsertStages, TypeOK
    <3> QED
      BY <3>1, <3>2
  <2> QED
    BY <1>1, <1>8, <2>2, <2>3 DEF CompleteMultipart
<1>9. CASE \/ \E v \in Uuid, k \in Parts : Chunk(v, k)
           \/ UNCHANGED vars
  BY <1>3, <1>9 DEF Chunk, UploadChunk, FilelessChunk, handler, minio, vars
<1>10. ~Crash /\ \A r \in Request : ~CallFails(r)
  BY <1>1 DEF Crash, CallFails
<1> QED
  BY <1>4, <1>5, <1>6, <1>7, <1>8, <1>9, <1>10 DEF Next, Serve

(* NoOrphanWithoutFault: without faults, every object has its row or a     *)
(* handler about to insert it.                                             *)
THEOREM NoOrphans == Spec => []NoOrphanWithoutFault
<1>1. Init => NoOrphanWithoutFault
  BY DEF Init, NoOrphanWithoutFault
<1>2. IInv /\ NoOrphanWithoutFault /\ [Next]_vars => NoOrphanWithoutFault'
  BY OrphanStep
<1> QED
  BY <1>1, <1>2, Invariance, PTL DEF Spec

-----------------------------------------------------------------------------
(* RefusedForCause: what a completion lists is in order, and a chunk that  *)
(* was acknowledged is stored.                                             *)
LEMMA ListedAscends ==
  ASSUME NEW list \in Orders
  PROVE  Ascending(Listed(list))
<1> DEFINE Sorted(sorted) == /\ Range(sorted) = Range(list)
                             /\ \A j, k \in Parts : j < k => ~Less(sorted[k], sorted[j])
<1>1. Range(list) = Parts
  <2>1. IsFiniteSet(Parts)
    BY FS_Interval, NumPartsAssumption DEF Parts
  <2>2. list \in Surjection(Parts, Parts)
    BY <2>1, FS_Injection DEF Orders
  <2> QED
    BY <2>2 DEF Surjection, Range
<1>2. \E sorted \in Orders : Sorted(sorted)
  <2> DEFINE id == [k \in Parts |-> k]
  <2>1. id \in Orders
    BY DEF Orders, Injection, IsInjective
  <2>2. Range(id) = Range(list)
    BY <1>1 DEF Range
  <2>3. \A j, k \in Parts : j < k => ~Less(id[k], id[j])
    BY NumPartsAssumption DEF Less, Parts
  <2> QED
    BY <2>1, <2>2, <2>3
<1>3. Listed(list) \in Orders /\ Sorted(Listed(list))
  BY <1>2 DEF Listed
<1> QED
  BY <1>3, NumPartsAssumption
     DEF Ascending, Orders, Injection, IsInjective, Less, Parts

(* Nothing is acknowledged of an upload the client does not know, nor a    *)
(* chunk of an open upload that is not stored.                             *)
AckedStored == \A u \in Uuid, k \in Parts :
  /\ session[u] = None => etag[u][k] = None
  /\ uploads[u] # None /\ etag[u][k] \notin {None, Blank} => uploads[u][k] # None

LEMMA AckedStep ==
  ASSUME IInv, AckedStored, [Next]_vars
  PROVE  AckedStored'
<1> USE DEF IInv, TypeOK
<1>1. CASE UNCHANGED <<uploads, session, etag>>
  BY <1>1 DEF AckedStored
<1>2. ASSUME NEW r \in Request, InitPart(r) PROVE AckedStored'
  <2>1. ASSUME NEW u \in Fresh, etag' = etag,
               uploads' = [uploads EXCEPT ![u] = [k \in Parts |-> None]],
               session' \in {session, [session EXCEPT ![u] = hash[r]]}
        PROVE  AckedStored'
    <3>1. u \in Uuid /\ \A k \in Parts : etag[u][k] = None
      BY DEF Fresh, Used, AckedStored
    <3> QED
      BY <2>1, <3>1 DEF AckedStored
  <2> QED
    BY <1>1, <1>2, <2>1 DEF InitPart
<1>3. ASSUME NEW r \in Request, CompleteMultipart(r) PROVE AckedStored'
  <2>1. /\ UNCHANGED <<session, etag>>
        /\ \/ UNCHANGED uploads
           \/ uploads' = [uploads EXCEPT ![target[r]] = None]
    BY <1>3 DEF CompleteMultipart, client
  <2> QED
    BY <2>1 DEF AckedStored
<1>4. ASSUME NEW u \in Uuid, NEW k \in Parts, UploadChunk(u, k) PROVE AckedStored'
  <2>1. PICK piece \in Pieces(session[u], k) :
          /\ uploads' = [uploads EXCEPT ![u] = [@ EXCEPT ![k] = piece]]
          /\ Acked(u, k, piece) \/ etag' = etag
    BY <1>4 DEF UploadChunk
  <2>2. piece # None
    BY <1>4, NoneAssumption DEF UploadChunk, Piece, Pieces
  <2>3. \A v \in Uuid, j \in Parts :
          /\ uploads'[v] # None => uploads[v] # None
          /\ uploads[v] # None =>
               uploads'[v][j] = IF v = u /\ j = k THEN piece ELSE uploads[v][j]
          /\ etag'[v][j] # etag[v][j] => v = u /\ j = k
    BY <1>4, <2>1 DEF UploadChunk, Acked, Bytes
  <2>4. session' = session /\ session[u] # None
    BY <1>4 DEF UploadChunk
  <2> SUFFICES ASSUME NEW v \in Uuid, NEW j \in Parts
               PROVE  /\ session[v] = None => etag'[v][j] = None
                      /\ uploads'[v] # None /\ etag'[v][j] \notin {None, Blank}
                           => uploads'[v][j] # None
    BY <2>4 DEF AckedStored
  <2>5. CASE v = u /\ j = k
    BY <2>2, <2>3, <2>4, <2>5
  <2>6. CASE ~(v = u /\ j = k)
    <3>1. etag'[v][j] = etag[v][j]
      BY <2>3, <2>6
    <3>2. uploads'[v] # None => uploads[v] # None /\ uploads'[v][j] = uploads[v][j]
      BY <2>3, <2>6
    <3> QED
      BY <3>1, <3>2 DEF AckedStored
  <2> QED
    BY <2>5, <2>6
<1>5. ASSUME NEW u \in Uuid, NEW k \in Parts, FilelessChunk(u, k) PROVE AckedStored'
  <2>1. \A v \in Uuid, j \in Parts :
          etag'[v][j] # etag[v][j] => v = u /\ etag'[v][j] = Blank
    BY <1>5 DEF FilelessChunk, Acked
  <2>2. session' = session /\ session[u] # None /\ uploads' = uploads
    BY <1>5 DEF FilelessChunk, minio
  <2> QED
    BY <2>1, <2>2 DEF AckedStored
<1>6. ASSUME NEW r \in Request, Arrival(r) \/ CallFails(r) PROVE AckedStored'
  BY <1>1, <1>6 DEF Arrival, StartUpload, StartPrepare, StartComplete, Arrive,
     CallFails, minio, client
<1>7. ASSUME NEW r \in Request, Serve(r) PROVE AckedStored'
  BY <1>1, <1>2, <1>3, <1>7 DEF Serve, UploadCheck, UploadBucket, UploadMake,
     UploadPut, UploadInsert, PrepareCheck, InitBucket, InitMake, CompleteInsert,
     minio, client
<1>8. CASE Crash \/ UNCHANGED vars
  BY <1>1, <1>8 DEF Crash, vars, minio, client
<1> QED
  BY <1>4, <1>5, <1>6, <1>7, <1>8 DEF Next, Chunk

(* What MinIO has to say against a completion. *)
LEMMA RefusalHasCause ==
  ASSUME IInv, AckedStored, NEW r \in Request, at[r] = "complete",
         NEW list \in Orders, ~Accepts(target[r], Listed(list))
  PROVE  \/ uploads[target[r]] = None
         \/ \E k \in Parts :
              \/ etag[target[r]][k] = Blank
              \/ k # NumParts /\ uploads[target[r]][k] \in Small
              \/ faults > 0 /\ etag[target[r]][k] # uploads[target[r]][k]
<1> DEFINE u == target[r]
<1> SUFFICES ASSUME uploads[u] # None,
                    \A k \in Parts :
                      /\ etag[u][k] # Blank
                      /\ k = NumParts \/ uploads[u][k] \notin Small
                      /\ faults > 0 => etag[u][k] = uploads[u][k]
             PROVE  FALSE
  OBVIOUS
<1>1. u \in Uuid /\ \A k \in Parts : etag[u][k] # None
  BY DEF IInv, CompleteMatches
<1>2. ASSUME NEW k \in Parts PROVE etag[u][k] = uploads[u][k]
  <2>1. uploads[u][k] # None
    BY <1>1 DEF AckedStored
  <2>2. CASE faults = 0
    BY <1>1, <2>1, <2>2 DEF IInv, ChunksMatch, Sound
  <2>3. faults = 0 \/ faults > 0
    BY FaultsAssumption DEF IInv, TypeOK
  <2> QED
    BY <2>2, <2>3
<1> QED
  BY <1>2, ListedAscends DEF Accepts

LEMMA RefusalStep ==
  ASSUME IInv, AckedStored, [Next]_vars, NEW r \in Request,
         at[r] = "complete", at'[r] = "idle", faults' = faults
  PROVE  \/ uploads[target[r]] = None
         \/ \E k \in Parts :
              \/ etag[target[r]][k] = Blank
              \/ k # NumParts /\ uploads[target[r]][k] \in Small
              \/ faults > 0 /\ etag[target[r]][k] # uploads[target[r]][k]
<1> USE DEF IInv, TypeOK
<1>1. ~Fault
  BY DEF Fault
<1>2. CASE CompleteMultipart(r)
  BY <1>1, <1>2, RefusalHasCause DEF CompleteMultipart, Goto
<1>3. ASSUME NEW q \in Request, Arrival(q) \/ Serve(q), ~CompleteMultipart(r)
      PROVE  FALSE
  <2>1. CASE Arrival(q)
    BY <2>1 DEF Arrival, StartUpload, StartPrepare, StartComplete, Arrive
  <2>2. CASE Serve(q) /\ q = r
    BY <1>3, <2>2 DEF Serve, UploadCheck, UploadBucket, UploadMake, UploadPut,
       UploadInsert, PrepareCheck, InitBucket, InitMake, InitPart, CompleteInsert
  <2>3. CASE Serve(q) /\ q # r
    <3>1. at'[r] = at[r]
      BY <2>3 DEF Serve, UploadCheck, UploadBucket, UploadMake, UploadPut,
         UploadInsert, PrepareCheck, InitBucket, InitMake, InitPart,
         CompleteMultipart, CompleteInsert, Goto, Return
    <3> QED
      BY <3>1
  <2> QED
    BY <1>3, <2>1, <2>2, <2>3
<1>4. \A q \in Request : ~CallFails(q)
  BY <1>1 DEF CallFails
<1>5. ~Crash
  BY <1>1 DEF Crash
<1>6. ~(UNCHANGED vars \/ \E u \in Uuid, k \in Parts : Chunk(u, k))
  BY DEF vars, handler, Chunk, UploadChunk, FilelessChunk
<1> QED
  BY <1>2, <1>3, <1>4, <1>5, <1>6 DEF Next

(* MinIO turns a completion (MinioPartUploadComplete, helper.go) down for  *)
(* one that came before, an empty acknowledgement, a chunk below 5 MiB, or *)
(* a chunk stored otherwise than acknowledged after something failed, and  *)
(* never for the order of the parts, however many there are.               *)
THEOREM RefusalsHaveCause == Spec => RefusedForCause
<1>1. Init => AckedStored
  BY DEF Init, AckedStored
<1>2. IInv /\ AckedStored /\ [Next]_vars => AckedStored'
  BY AckedStep
<1>3. IInv /\ AckedStored /\ [Next]_vars =>
        [\A r \in Request :
           at[r] = "complete" /\ at'[r] = "idle" /\ faults' = faults =>
             \/ uploads[target[r]] = None
             \/ \E k \in Parts :
                  \/ etag[target[r]][k] = Blank
                  \/ k # NumParts /\ uploads[target[r]][k] \in Small
                  \/ faults > 0 /\ etag[target[r]][k] # uploads[target[r]][k]]_vars
  BY RefusalStep
<1> QED
  BY <1>1, <1>2, <1>3, Invariance, PTL DEF Spec, RefusedForCause

-----------------------------------------------------------------------------
(* What is safety in RequestsAnswered and UploadIndexes: the steps that     *)
(* fairness makes happen go the right way, and no other step undoes them.  *)

(* How many calls a handler at a stage makes at most before it returns.    *)
CallsLeft(stage) ==
  CASE stage = "idle" -> 0
    [] stage \in InsertStages \cup {"initPart"} -> 1
    [] stage \in {"uploadPut", "initMake", "complete"} -> 2
    [] stage \in {"uploadMake", "initBucket"} -> 3
    [] stage \in {"uploadBucket", "prepareCheck"} -> 4
    [] OTHER -> 5

(* A handler that has started gets nearer to its return with each call it  *)
(* makes, and what others do at best ends it (a crash): no handler loops,  *)
(* goes back or is sent back.                                              *)
HandlersWindDown == [][\A r \in Request : at[r] # "idle" =>
  /\ CallsLeft(at'[r]) <= CallsLeft(at[r])
  /\ Serve(r) \/ CallFails(r) => CallsLeft(at'[r]) < CallsLeft(at[r])]_vars

(* The upload of file c at slot r has the bucket, and all it lacks is its  *)
(* own calls.                                                              *)
OnItsWay(r, c) == /\ bucket /\ hash[r] = c
                  /\ at[r] \in {"uploadCheck", "uploadBucket", "uploadPut",
                                "uploadInsert"}

(* Such an upload stays on its way until its file is indexed, by itself or *)
(* by another, unless a fault comes: nothing else makes it give up.        *)
UploadsKeepOn == [][\A r \in Request, c \in Content :
  OnItsWay(r, c) /\ faults' = faults => OnItsWay(r, c)' \/ Indexed(c)']_vars

(* CallsLeft, stage by stage. *)
LEMMA CallsAtStages ==
  /\ \A s \in {"uploadInsert", "completeInsert", "initPart"} : CallsLeft(s) = 1
  /\ \A s \in {"uploadPut", "initMake", "complete"} : CallsLeft(s) = 2
  /\ \A s \in {"uploadMake", "initBucket"} : CallsLeft(s) = 3
  /\ \A s \in {"uploadBucket", "prepareCheck"} : CallsLeft(s) = 4
  /\ CallsLeft("uploadCheck") = 5 /\ CallsLeft("idle") = 0
  /\ \A s : CallsLeft(s) \in 0..5 /\ (s # "idle" => CallsLeft(s) \in 1..5)
BY DEF CallsLeft, InsertStages

(* The calls a handler makes, one after the other. *)
LEMMA CallsGoForward ==
  ASSUME IInv, NEW r \in Request, Serve(r) \/ CallFails(r)
  PROVE  /\ CallsLeft(at'[r]) < CallsLeft(at[r])
         /\ \A q \in Request : q # r => at'[q] = at[q] /\ hash'[q] = hash[q]
<1> USE CallsAtStages DEF Goto, Return
<1>1. at \in [Request -> Stages] /\ hash \in [Request -> Content \cup {None}]
  BY DEF IInv, TypeOK
<1>2. \A q \in Request : q # r => at'[q] = at[q] /\ hash'[q] = hash[q]
  BY <1>1 DEF Serve, UploadCheck, UploadBucket, UploadMake, UploadPut,
     UploadInsert, PrepareCheck, InitBucket, InitMake, InitPart,
     CompleteMultipart, CompleteInsert, CallFails
<1>3. ASSUME at[r] # "idle", at'[r] = "idle"
      PROVE  CallsLeft(at'[r]) < CallsLeft(at[r])
  BY <1>3
<1>4. CASE UploadCheck(r)
  BY <1>1, <1>4 DEF UploadCheck
<1>5. CASE UploadBucket(r)
  BY <1>1, <1>5 DEF UploadBucket
<1>6. CASE UploadMake(r)
  BY <1>1, <1>6 DEF UploadMake
<1>7. CASE UploadPut(r)
  BY <1>1, <1>7 DEF UploadPut
<1>8. CASE PrepareCheck(r)
  BY <1>1, <1>8 DEF PrepareCheck
<1>9. CASE InitBucket(r)
  BY <1>1, <1>9 DEF InitBucket
<1>10. CASE InitMake(r)
  BY <1>1, <1>10 DEF InitMake
<1>11. CASE CompleteMultipart(r)
  BY <1>1, <1>11 DEF CompleteMultipart
<1>12. CASE UploadInsert(r) \/ InitPart(r) \/ CompleteInsert(r) \/ CallFails(r)
  BY <1>1, <1>3, <1>12 DEF UploadInsert, InitPart, CompleteInsert, CallFails
<1> QED
  BY <1>2, <1>4, <1>5, <1>6, <1>7, <1>8, <1>9, <1>10, <1>11, <1>12 DEF Serve

(* No step takes a running handler back. *)
LEMMA WindDownStep ==
  ASSUME IInv, [Next]_vars, NEW r \in Request, at[r] # "idle"
  PROVE  /\ CallsLeft(at'[r]) <= CallsLeft(at[r])
         /\ Serve(r) \/ CallFails(r) => CallsLeft(at'[r]) < CallsLeft(at[r])
<1>1. CallsLeft(at[r]) \in 1..5 /\ CallsLeft(at'[r]) \in 0..5
  BY CallsAtStages
<1>2. Serve(r) \/ CallFails(r) => CallsLeft(at'[r]) < CallsLeft(at[r])
  BY CallsGoForward
<1>3. CallsLeft(at'[r]) <= CallsLeft(at[r])
  <2>1. ASSUME NEW q \in Request, Arrival(q)
        PROVE  at'[r] = at[r]
    BY <2>1 DEF Arrival, StartUpload, StartPrepare, StartComplete, Arrive,
       IInv, TypeOK
  <2>2. ASSUME NEW q \in Request, Serve(q) \/ CallFails(q), q # r
        PROVE  at'[r] = at[r]
    BY <2>2, CallsGoForward
  <2>3. CASE Crash
    BY <1>1, <2>3, CallsAtStages DEF Crash
  <2>4. ASSUME UNCHANGED vars \/ \E u \in Uuid, k \in Parts : Chunk(u, k)
        PROVE  at'[r] = at[r]
    BY <2>4 DEF vars, handler, Chunk, UploadChunk, FilelessChunk
  <2> QED
    BY <1>1, <1>2, <2>1, <2>2, <2>3, <2>4 DEF Next
<1> QED
  BY <1>2, <1>3

(* The bucket is never removed, and rows stay. *)
LEMMA BucketAndRowsStay ==
  ASSUME bucket \in BOOLEAN, [Next]_vars
  PROVE  (bucket => bucket') /\ pool \subseteq pool'
<1>1. ASSUME UNCHANGED <<bucket, pool>>
      PROVE  (bucket => bucket') /\ pool \subseteq pool'
  BY <1>1
<1>2. ASSUME NEW r \in Request, Arrival(r)
      PROVE  UNCHANGED <<bucket, pool>>
  BY <1>2 DEF Arrival, StartUpload, StartPrepare, StartComplete, Arrive, minio
<1>3. ASSUME NEW r \in Request, Insert(r, TRUE) \/ Insert(r, FALSE), bucket' = bucket
      PROVE  (bucket => bucket') /\ pool \subseteq pool'
  BY <1>3 DEF Insert
<1>4. ASSUME NEW r \in Request, bucket' \in {bucket, TRUE}, pool' = pool
      PROVE  (bucket => bucket') /\ pool \subseteq pool'
  BY <1>4
<1>5. ASSUME NEW r \in Request, Serve(r)
      PROVE  (bucket => bucket') /\ pool \subseteq pool'
  <2>1. CASE UploadInsert(r) \/ CompleteInsert(r)
    BY <1>3, <2>1 DEF UploadInsert, CompleteInsert, minio
  <2>2. CASE UploadMake(r) \/ InitMake(r)
    BY <1>4, <2>2 DEF UploadMake, InitMake
  <2>3. CASE \/ UploadCheck(r) \/ UploadBucket(r) \/ UploadPut(r)
             \/ PrepareCheck(r) \/ InitBucket(r) \/ InitPart(r)
             \/ CompleteMultipart(r)
    BY <1>1, <2>3 DEF UploadCheck, UploadBucket, UploadPut, PrepareCheck,
       InitBucket, InitPart, CompleteMultipart, minio
  <2> QED
    BY <1>5, <2>1, <2>2, <2>3 DEF Serve
<1>6. ASSUME NEW r \in Request, CallFails(r)
      PROVE  (bucket => bucket') /\ pool \subseteq pool'
  BY <1>4, <1>6 DEF CallFails
<1>7. ASSUME UNCHANGED vars \/ Crash \/ \E u \in Uuid, k \in Parts : Chunk(u, k)
      PROVE  UNCHANGED <<bucket, pool>>
  BY <1>7 DEF vars, minio, Crash, Chunk, UploadChunk, FilelessChunk
<1> QED
  BY <1>1, <1>2, <1>5, <1>6, <1>7 DEF Next

(* An upload that no fault touches keeps on. *)
LEMMA KeepOnStep ==
  ASSUME IInv, [Next]_vars, NEW r \in Request, NEW c \in Content,
         OnItsWay(r, c), faults' = faults
  PROVE  OnItsWay(r, c)' \/ Indexed(c)'
<1>1. /\ at \in [Request -> Stages] /\ hash \in [Request -> Content \cup {None}]
      /\ faults \in Nat /\ bucket \in BOOLEAN
  BY FaultsAssumption DEF IInv, TypeOK
<1>2. bucket' /\ bucket
  BY <1>1, BucketAndRowsStay DEF OnItsWay
<1>3. ~Fault
  BY <1>1 DEF Fault
<1>4. ASSUME at'[r] = at[r], hash'[r] = hash[r]
      PROVE  OnItsWay(r, c)'
  BY <1>2, <1>4 DEF OnItsWay
<1>5. CASE UploadCheck(r)
  <2>1. CASE RowsOf(c) # {}
    BY <1>5, <2>1 DEF UploadCheck, RowsOf, Indexed
  <2>2. CASE RowsOf(c) = {}
    BY <1>1, <1>2, <1>5, <2>2 DEF UploadCheck, Goto, OnItsWay
  <2> QED
    BY <2>1, <2>2
<1>6. CASE UploadBucket(r)
  BY <1>1, <1>2, <1>6 DEF UploadBucket, Goto, OnItsWay
<1>7. CASE UploadPut(r)
  BY <1>1, <1>2, <1>3, <1>7 DEF UploadPut, OnItsWay
<1>8. CASE UploadInsert(r)
  <2>1. PICK i \in Fresh :
          pool' = pool \cup {[identity |-> i, hash |-> hash[r], path |-> target[r]]}
    BY <1>8 DEF UploadInsert, Insert
  <2>2. [identity |-> i, hash |-> hash[r], path |-> target[r]].hash = c
    BY DEF OnItsWay
  <2> QED
    BY <2>1, <2>2 DEF Indexed
<1>9. ASSUME Serve(r)
      PROVE  UploadCheck(r) \/ UploadBucket(r) \/ UploadPut(r) \/ UploadInsert(r)
  BY <1>9 DEF Serve, OnItsWay, UploadMake, PrepareCheck, InitBucket, InitMake,
     InitPart, CompleteMultipart, CompleteInsert
<1>10. ASSUME NEW q \in Request, Serve(q), q # r
       PROVE  at'[r] = at[r] /\ hash'[r] = hash[r]
  BY <1>10, CallsGoForward
<1>11. ASSUME NEW q \in Request, Arrival(q)
       PROVE  at'[r] = at[r] /\ hash'[r] = hash[r]
  BY <1>1, <1>11 DEF Arrival, StartUpload, StartPrepare, StartComplete, Arrive,
     OnItsWay
<1>12. ~Crash /\ \A q \in Request : ~CallFails(q)
  BY <1>3 DEF Crash, CallFails
<1>13. ASSUME UNCHANGED vars \/ \E u \in Uuid, k \in Parts : Chunk(u, k)
       PROVE  at'[r] = at[r] /\ hash'[r] = hash[r]
  BY <1>13 DEF vars, handler, Chunk, UploadChunk, FilelessChunk
<1> QED
  BY <1>4, <1>5, <1>6, <1>7, <1>8, <1>9, <1>10, <1>11, <1>12, <1>13 DEF Next

(* HandlersWindDown: every handler of upload, prepare and complete makes a *)
(* handful of calls and returns, whatever the others do, so that with the  *)
(* fairness of goroutines each request is answered.                        *)
THEOREM HandlersComeToAnEnd == Spec => HandlersWindDown
<1>1. IInv /\ [Next]_vars =>
        [\A r \in Request : at[r] # "idle" =>
           /\ CallsLeft(at'[r]) <= CallsLeft(at[r])
           /\ Serve(r) \/ CallFails(r) =>
                CallsLeft(at'[r]) < CallsLeft(at[r])]_vars
  BY WindDownStep
<1> QED
  BY <1>1, Invariance, PTL DEF Spec, HandlersWindDown

(* UploadsKeepOn: a whole-file upload that finds the bucket is never       *)
(* diverted by other requests (FileUpload and MinIOUploadBytes in          *)
(* helper.go); what is left is a fault, or its own next calls.             *)
THEOREM UploadsGetThere == Spec => UploadsKeepOn
<1>1. IInv /\ [Next]_vars =>
        [\A r \in Request, c \in Content : OnItsWay(r, c) /\ faults' = faults
           => OnItsWay(r, c)' \/ Indexed(c)']_vars
  BY KeepOnStep
<1> QED
  BY <1>1, Invariance, PTL DEF Spec, UploadsKeepOn

-----------------------------------------------------------------------------
(* An open multipart upload is only ever closed by its completion: nothing *)
(* in the back end aborts one, so a prepare whose answer was lost leaves   *)
(* its upload open for good.                                               *)
ClosedByCompletion == [][\A u \in Uuid : uploads[u] # None /\ uploads'[u] = None =>
  /\ \E r \in Request : at[r] = "complete" /\ target[r] = u
  /\ objects'[u] = uploads[u]]_vars

(* The steps that touch the open uploads: InitPart and UploadChunk put     *)
(* bytes there, CompleteMultipart alone takes an upload away.              *)
LEMMA CloseStep ==
  ASSUME IInv, [Next]_vars, NEW u \in Uuid, uploads[u] # None, uploads'[u] = None
  PROVE  /\ \E r \in Request : at[r] = "complete" /\ target[r] = u
         /\ objects'[u] = uploads[u]
<1>1. /\ objects \in [Uuid -> Bytes \cup {None}]
      /\ uploads \in [Uuid -> Bytes \cup {None}]
  BY DEF IInv, TypeOK
<1>2. uploads' # uploads
  OBVIOUS
<1>3. ASSUME NEW r \in Request, CompleteMultipart(r)
      PROVE  /\ at[r] = "complete" /\ target[r] = u
             /\ objects'[u] = uploads[u]
  BY <1>1, <1>3 DEF CompleteMultipart
<1>4. ASSUME NEW r \in Request, InitPart(r)
      PROVE  FALSE
  <2>1. PICK v \in Fresh : uploads' = [uploads EXCEPT ![v] = [k \in Parts |-> None]]
    BY <1>2, <1>4 DEF InitPart
  <2>2. [k \in Parts |-> None] \in Bytes
    BY DEF Bytes
  <2> QED
    BY <1>1, <2>1, <2>2, NoneAssumption
<1>5. ASSUME NEW v \in Uuid, NEW k \in Parts, UploadChunk(v, k)
      PROVE  FALSE
  <2>1. PICK piece \in Pieces(session[v], k) :
          /\ uploads' = [uploads EXCEPT ![v] = [@ EXCEPT ![k] = piece]]
          /\ uploads[v] \in Bytes /\ session[v] \in Content
    BY <1>1, <1>5 DEF UploadChunk, IInv, TypeOK
  <2>2. [uploads[v] EXCEPT ![k] = piece] \in Bytes
    BY <2>1 DEF Bytes, Piece, Pieces
  <2> QED
    BY <1>1, <2>1, <2>2, NoneAssumption
<1>6. ASSUME NEW r \in Request,
             Arrival(r) \/ CallFails(r) \/ (Serve(r) /\ ~CompleteMultipart(r)
                                                     /\ ~InitPart(r))
      PROVE  uploads' = uploads
  BY <1>6 DEF Arrival, StartUpload, StartPrepare, StartComplete, Arrive,
     CallFails, Serve, UploadCheck, UploadBucket, UploadMake, UploadPut,
     UploadInsert, PrepareCheck, InitBucket, InitMake, CompleteInsert, minio
<1>7. ASSUME UNCHANGED vars \/ Crash \/ \E v \in Uuid, k \in Parts : FilelessChunk(v, k)
      PROVE  uploads' = uploads
  BY <1>7 DEF vars, minio, Crash, FilelessChunk
<1> QED
  BY <1>2, <1>3, <1>4, <1>5, <1>6, <1>7 DEF Next, Chunk, Serve

(* ClosedByCompletion: no handler calls AbortMultipartUpload, and a failed *)
(* completion leaves the upload open with all its chunks.                  *)
THEOREM NothingAborts == Spec => ClosedByCompletion
<1>1. IInv /\ [Next]_vars =>
        [\A u \in Uuid : uploads[u] # None /\ uploads'[u] = None =>
           /\ \E r \in Request : at[r] = "complete" /\ target[r] = u
           /\ objects'[u] = uploads[u]]_vars
  BY CloseStep
<1> QED
  BY <1>1, Invariance, PTL DEF Spec, ClosedByCompletion
=============================================================================
