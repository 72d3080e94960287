--------------------------- MODULE RepositoryPool ---------------------------
(***************************************************************************)
(* The upload side of the back end: the repository_pool table, the MinIO   *)
(* bucket, and the handlers that keep the two in step.                     *)
(*   /file/upload            (file_upload_handler.go)                      *)
(*   /file/upload/prepare    (file_upload_prepare_logic.go)                *)
(*   /file/upload/chunk      (file_upload_chunk_handler.go)                *)
(*   /file/upload/chunk/complete (file_upload_chunk_complete_logic.go)     *)
(*                                                                         *)
(* A handler runs in its own goroutine, and between two calls of the       *)
(* database or of MinIO anything may happen.  Each of those calls is one   *)
(* action; at[r] is the call handler r makes next.  MD5 is taken to be     *)
(* free of collisions, so a content stands for its own hash.  A chunk can  *)
(* be stored cut short: MinioPartUpload drops the error of the io.Copy     *)
(* that reads it from the form.                                            *)
(***************************************************************************)
EXTENDS Integers, FiniteSets, SequencesExt

CONSTANTS
  Content,     \* the distinct files clients upload
  NumParts,    \* how many chunks a file is cut into
  Uuid,        \* what uuid.NewV4 can return
  Request,     \* handler slots: the requests in flight at one time
  Small,       \* the chunks smaller than 5 MiB, whole or cut short
  MaxFaults,   \* bound: failed or unanswered calls, cut chunks, and crashes
  None,        \* the absence of a value
  Blank        \* the empty ETag, ""

Parts == 1..NumParts

(* Chunk k of file c, all of it or cut short. *)
Piece == Content \X Parts \X {"whole", "cut"}
Pieces(c, k) == {<<c, k, "whole">>, <<c, k, "cut">>}
Bytes == [Parts -> Piece \cup {None}]
Whole(c) == [k \in Parts |-> <<c, k, "whole">>]

ASSUME NumPartsAssumption == NumParts \in Nat \ {0}
ASSUME SmallAssumption == Small \subseteq Piece
ASSUME FaultsAssumption == MaxFaults \in Nat
ASSUME NoneAssumption == /\ None \notin Content /\ None \notin Uuid
                         /\ None \notin Piece /\ None \notin Bytes
ASSUME BlankAssumption == Blank \notin Piece /\ Blank # None

VARIABLES
  bucket,      \* whether the bucket exists in MinIO
  objects,     \* objects[u]: the bytes stored under the name made from u
  uploads,     \* uploads[u]: the parts of the open multipart upload of key u
  pool,        \* the rows of repository_pool
  session,     \* session[u]: the file a client uploads in chunks to key u
  etag,        \* etag[u][k]: what the client was answered for chunk k
  promised,    \* the identities clients were handed for their files
  at,          \* at[r]: the next call of handler r
  hash,        \* hash[r]: the file request r is about
  target,      \* target[r]: the object name handler r has stored under
  hadRow,      \* hadRow[r]: whether the file had a row when r arrived
  late,        \* history: the object names made for requests that had a row
  faults       \* how many faults have happened

minio == <<bucket, objects, uploads, late>>
client == <<session, etag>>
handler == <<at, hash, target, hadRow>>
vars == <<minio, pool, client, promised, handler, faults>>

UploadStages == {"uploadCheck", "uploadBucket", "uploadMake", "uploadPut"}
PrepareStages == {"prepareCheck", "initBucket", "initMake", "initPart"}
CompleteStages == {"complete", "completeInsert"}
InsertStages == {"uploadInsert", "completeInsert"}
Stages == {"idle", "uploadInsert"} \cup UploadStages \cup PrepareStages
          \cup CompleteStages

Row == [identity : Uuid, hash : Content, path : Uuid]
Indexed(c) == \E row \in pool : row.hash = c

(* Mutant of RowsOf: the lookup loses its condition on the hash. *)
AnyRow(c) == pool

(* The engine's Get returns some row with the hash. *)
RowsOf(c) == {row \in pool : row.hash = c}

Handed(c, i) == [content |-> c, identity |-> i]

(* uuid.NewV4: a value nothing in the system carries yet. *)
Used(u) == \/ objects[u] # None \/ uploads[u] # None \/ session[u] # None
           \/ \E row \in pool : u \in {row.identity, row.path}
           \/ \E r \in Request : target[r] = u
\* Mutant of Fresh: names that may be taken, such as the client's file name.
AnyName == Uuid
Fresh == {u \in Uuid : ~Used(u)}

(* Bound: a request is admitted only if the model has the UUIDs it and the *)
(* requests in flight can still ask for.                                   *)
Owed == Cardinality({r \in Request : at[r] # "idle"})
        + Cardinality({r \in Request : at[r] \in UploadStages})
Supply(n) == Cardinality(Fresh) >= Owed + n

-----------------------------------------------------------------------------
Init ==
  /\ bucket \in BOOLEAN
  /\ objects = [u \in Uuid |-> None]
  /\ uploads = [u \in Uuid |-> None]
  /\ pool = {}
  /\ session = [u \in Uuid |-> None]
  /\ etag = [u \in Uuid |-> [k \in Parts |-> None]]
  /\ promised = {}
  /\ at = [r \in Request |-> "idle"]
  /\ hash = [r \in Request |-> None]
  /\ target = [r \in Request |-> None]
  /\ hadRow = [r \in Request |-> FALSE]
  /\ late = {}
  /\ faults = 0

(* A request for file c arrives at slot r, and its handler starts. *)
Arrive(r, stage, c, u) ==
  /\ at[r] = "idle"
  /\ at' = [at EXCEPT ![r] = stage]
  /\ hash' = [hash EXCEPT ![r] = c]
  /\ target' = [target EXCEPT ![r] = u]
  /\ hadRow' = [hadRow EXCEPT ![r] = Indexed(c)]
  /\ UNCHANGED <<minio, pool, client, promised, faults>>

(* Mutant of Goto: the object's path does not reach the insert. *)
GotoForgetsPath(r, stage) == /\ at' = [at EXCEPT ![r] = stage]
                             /\ target' = [target EXCEPT ![r] = None]
                             /\ UNCHANGED <<hash, hadRow>>

Goto(r, stage) == /\ at' = [at EXCEPT ![r] = stage]
                  /\ UNCHANGED <<hash, target, hadRow>>

(* The handler returns. *)
Return(r) == /\ at' = [at EXCEPT ![r] = "idle"]
             /\ hash' = [hash EXCEPT ![r] = None]
             /\ target' = [target EXCEPT ![r] = None]
             /\ hadRow' = [hadRow EXCEPT ![r] = FALSE]

Fault == faults < MaxFaults /\ faults' = faults + 1
NoFault == faults' = faults

(* History: the name u is made for the object of request r. *)
Names(r, u) == late' = IF hadRow[r] THEN late \cup {u} ELSE late

(* An answer with an identity reaches the client, or is lost on its way    *)
(* (the connection broke, or the 3 s timeout answered before).             *)
Answer(c, i) == promised' \in {promised, promised \cup {Handed(c, i)}}

-----------------------------------------------------------------------------
(* POST /file/upload: one request carries the whole file. *)

StartUpload(r) == \E c \in Content :
  Supply(2) /\ Arrive(r, "uploadCheck", c, None)

(* Mutant of UploadCheck: the file is stored without a look at the table. *)
UploadUnchecked(r) ==
  /\ at[r] = "uploadCheck"
  /\ Goto(r, "uploadBucket")
  /\ NoFault
  /\ UNCHANGED <<minio, pool, client, promised>>

(* Where("hash = ?").Get: a hit is answered at once with the row found. *)
UploadCheck(r) ==
  /\ at[r] = "uploadCheck"
  /\ \/ /\ \E row \in RowsOf(hash[r]) : Answer(hash[r], row.identity)
        /\ Return(r)
     \/ /\ RowsOf(hash[r]) = {}
        /\ Goto(r, "uploadBucket")
        /\ UNCHANGED promised
  /\ NoFault
  /\ UNCHANGED <<minio, pool, client>>

(* Mutant of UploadBucket: the answer of BucketExists is read inverted. *)
UploadBucketInverted(r) ==
  /\ at[r] = "uploadBucket"
  /\ Goto(r, IF bucket THEN "uploadMake" ELSE "uploadPut")
  /\ NoFault
  /\ UNCHANGED <<minio, pool, client, promised>>

(* Mutant of UploadBucket: the handler waits for someone to make it. *)
UploadBucketWaits(r) ==
  /\ at[r] = "uploadBucket" /\ bucket
  /\ Goto(r, "uploadPut")
  /\ NoFault
  /\ UNCHANGED <<minio, pool, client, promised>>

(* MinIOUploadBytes: BucketExists decides whether MakeBucket is called. *)
UploadBucket(r) ==
  /\ at[r] = "uploadBucket"
  /\ Goto(r, IF bucket THEN "uploadPut" ELSE "uploadMake")
  /\ NoFault
  /\ UNCHANGED <<minio, pool, client, promised>>

(* MakeBucket: MinIO refuses a bucket that exists by now, and the refusal  *)
(* ends the upload.                                                        *)
UploadMake(r) ==
  /\ at[r] = "uploadMake"
  /\ bucket' = TRUE
  /\ IF bucket THEN Return(r) ELSE Goto(r, "uploadPut")
  /\ NoFault
  /\ UNCHANGED <<objects, uploads, late, pool, client, promised>>

(* PutObject under a fresh UUID; without an answer the upload fails, the   *)
(* object stored or not.                                                   *)
UploadPut(r) ==
  /\ at[r] = "uploadPut"
  /\ \E u \in Fresh :
       /\ objects' = [objects EXCEPT ![u] = Whole(hash[r])]
       /\ Names(r, u)
       /\ \/ /\ at' = [at EXCEPT ![r] = "uploadInsert"]
             /\ target' = [target EXCEPT ![r] = u]
             /\ UNCHANGED <<hash, hadRow>>
             /\ NoFault
          \/ Return(r) /\ Fault
  /\ UNCHANGED <<bucket, uploads, pool, client, promised>>

(* A row for the object just stored, under an identity of its own. *)
Insert(r, told) == \E i \in Fresh :
  /\ pool' = pool \cup {[identity |-> i, hash |-> hash[r], path |-> target[r]]}
  /\ IF told THEN Answer(hash[r], i) ELSE UNCHANGED promised

(* Mutant of UploadInsert: the hash is looked up again before the insert,  *)
(* and the object just stored is left behind.                              *)
UploadInsertRechecks(r) ==
  /\ at[r] = "uploadInsert"
  /\ IF Indexed(hash[r]) THEN UNCHANGED <<pool, promised>> ELSE Insert(r, TRUE)
  /\ NoFault
  /\ Return(r)
  /\ UNCHANGED <<minio, client>>

(* FileUpload: insert the row and answer its identity. *)
UploadInsert(r) ==
  /\ at[r] = "uploadInsert"
  /\ \/ Insert(r, TRUE) /\ NoFault
     \/ Insert(r, FALSE) /\ Fault
  /\ Return(r)
  /\ UNCHANGED <<minio, client>>

-----------------------------------------------------------------------------
(* POST /file/upload/prepare: look the file up, or open a multipart upload. *)

StartPrepare(r) == \E c \in Content :
  Supply(1) /\ Arrive(r, "prepareCheck", c, None)

PrepareCheck(r) ==
  /\ at[r] = "prepareCheck"
  /\ \/ /\ \E row \in RowsOf(hash[r]) : Answer(hash[r], row.identity)
        /\ Return(r)
     \/ /\ RowsOf(hash[r]) = {}
        /\ Goto(r, "initBucket")
        /\ UNCHANGED promised
  /\ NoFault
  /\ UNCHANGED <<minio, pool, client>>

(* MinioInitPart drops the error of BucketExists: no answer reads as FALSE. *)
InitBucket(r) ==
  /\ at[r] = "initBucket"
  /\ \/ Goto(r, IF bucket THEN "initPart" ELSE "initMake") /\ NoFault
     \/ Goto(r, "initMake") /\ Fault
  /\ UNCHANGED <<minio, pool, client, promised>>

(* It drops the error of MakeBucket too. *)
InitMake(r) ==
  /\ at[r] = "initMake"
  /\ \/ bucket' = TRUE /\ NoFault
     \/ bucket' \in {bucket, TRUE} /\ Fault
  /\ Goto(r, "initPart")
  /\ UNCHANGED <<objects, uploads, late, pool, client, promised>>

(* NewMultipartUpload under a fresh key, which the client learns only from *)
(* the answer; without the bucket MinIO refuses.                           *)
InitPart(r) ==
  /\ at[r] = "initPart"
  /\ \/ /\ ~bucket
        /\ NoFault
        /\ UNCHANGED <<uploads, late, session>>
     \/ \E u \in Fresh :
          /\ bucket
          /\ uploads' = [uploads EXCEPT ![u] = [k \in Parts |-> None]]
          /\ Names(r, u)
          /\ \/ /\ session' \in {session, [session EXCEPT ![u] = hash[r]]}
                /\ NoFault
             \/ UNCHANGED session /\ Fault
  /\ Return(r)
  /\ UNCHANGED <<bucket, objects, pool, etag, promised>>

-----------------------------------------------------------------------------
(* POST /file/upload/chunk.  The handler makes one call of MinIO, so it is *)
(* one action.  The client sends a chunk until it is answered for it, and  *)
(* one it sent before may still be stored after that.                      *)

Acked(u, k, tag) == etag' = [etag EXCEPT ![u] = [@ EXCEPT ![k] = tag]]

(* What io.Copy reads of the form, the whole chunk or a beginning of it,   *)
(* goes to PutObjectPart (MinIO refuses a closed upload), and the client   *)
(* learns the ETag unless the answer is lost.                              *)
UploadChunk(u, k) ==
  /\ session[u] # None /\ uploads[u] # None
  /\ \E piece \in Pieces(session[u], k) :
       /\ IF piece = Whole(session[u])[k] THEN NoFault ELSE Fault
       /\ uploads' = [uploads EXCEPT ![u] = [@ EXCEPT ![k] = piece]]
       /\ \/ etag[u][k] = None /\ Acked(u, k, piece)
          \/ UNCHANGED etag
  /\ UNCHANGED <<bucket, objects, late, pool, session, promised, handler>>

(* A form without a file: MinioPartUpload returns "" and no error, so the  *)
(* handler answers success.                                                *)
FilelessChunk(u, k) ==
  /\ session[u] # None /\ etag[u][k] = None
  /\ Acked(u, k, Blank)
  /\ UNCHANGED <<minio, pool, session, promised, handler, faults>>

-----------------------------------------------------------------------------
(* POST /file/upload/chunk/complete, once every chunk has been answered;   *)
(* the client may send it again while the first is still running.          *)

StartComplete(r) == \E u \in Uuid :
  /\ session[u] # None /\ \A k \in Parts : etag[u][k] # None
  /\ Supply(1) /\ Arrive(r, "complete", session[u], u)

(* The client lists the parts in any order; the handler sorts the list:    *)
(* the same parts, none before one that is less (the contract of sort.Sort). *)
Orders == Injection(Parts, Parts)
Less(a, b) == a < b
\* Mutant of Listed: the parts are sent in the client's order.
Unsorted(list) == list
Listed(list) == CHOOSE sorted \in Orders :
  /\ Range(sorted) = Range(list)
  /\ \A j, k \in Parts : j < k => ~Less(sorted[k], sorted[j])

(* CompleteMultipartUpload: the upload is open, the parts are listed in    *)
(* ascending order, each ETag is that of the part as stored, and no part   *)
(* but the last is below 5 MiB (EntityTooSmall).                           *)
Ascending(list) == \A j, k \in Parts : j < k => list[j] < list[k]
Accepts(u, list) == /\ uploads[u] # None
                    /\ Ascending(list)
                    /\ \A k \in Parts : /\ etag[u][k] # Blank
                                        /\ etag[u][k] = uploads[u][k]
                                        /\ k = NumParts \/ uploads[u][k] \notin Small

(* Mutant of CompleteMultipart: the error of MinIO is not looked at. *)
CompleteUnchecked(r) ==
  /\ at[r] = "complete"
  /\ IF Accepts(target[r], [k \in Parts |-> k])
     THEN /\ objects' = [objects EXCEPT ![target[r]] = uploads[target[r]]]
          /\ uploads' = [uploads EXCEPT ![target[r]] = None]
     ELSE UNCHANGED <<objects, uploads>>
  /\ Goto(r, "completeInsert") /\ NoFault
  /\ UNCHANGED <<bucket, late, pool, client, promised>>

CompleteMultipart(r) ==
  /\ at[r] = "complete"
  /\ \E list \in Orders :
       \/ /\ Accepts(target[r], Listed(list))
          /\ objects' = [objects EXCEPT ![target[r]] = uploads[target[r]]]
          /\ uploads' = [uploads EXCEPT ![target[r]] = None]
          /\ \/ Goto(r, "completeInsert") /\ NoFault
             \/ Return(r) /\ Fault
       \/ /\ ~Accepts(target[r], Listed(list))
          /\ Return(r) /\ NoFault
          /\ UNCHANGED <<objects, uploads>>
  /\ UNCHANGED <<bucket, late, pool, client, promised>>

(* The row takes the hash from the request and is not looked up again. *)
CompleteInsert(r) ==
  /\ at[r] = "completeInsert"
  /\ \/ Insert(r, TRUE) /\ NoFault
     \/ Insert(r, FALSE) /\ Fault
  /\ Return(r)
  /\ UNCHANGED <<minio, client>>

-----------------------------------------------------------------------------
(* A call that fails without effect ends the handler with an error; a      *)
(* MakeBucket without an answer may have made the bucket.                  *)
CallFails(r) ==
  /\ at[r] \notin {"idle", "initBucket", "initMake"}
  /\ \/ UNCHANGED bucket
     \/ at[r] = "uploadMake" /\ bucket' = TRUE
  /\ Return(r) /\ Fault
  /\ UNCHANGED <<objects, uploads, late, pool, client, promised>>

(* The back end is one process: a crash ends every handler. *)
Crash ==
  /\ \E r \in Request : at[r] # "idle"
  /\ at' = [r \in Request |-> "idle"]
  /\ hash' = [r \in Request |-> None]
  /\ target' = [r \in Request |-> None]
  /\ hadRow' = [r \in Request |-> FALSE]
  /\ Fault
  /\ UNCHANGED <<minio, pool, client, promised>>

Arrival(r) == StartUpload(r) \/ StartPrepare(r) \/ StartComplete(r)
Serve(r) == \/ UploadCheck(r) \/ UploadBucket(r) \/ UploadMake(r)
            \/ UploadPut(r) \/ UploadInsert(r)
            \/ PrepareCheck(r) \/ InitBucket(r) \/ InitMake(r) \/ InitPart(r)
            \/ CompleteMultipart(r) \/ CompleteInsert(r)
Chunk(u, k) == UploadChunk(u, k) \/ FilelessChunk(u, k)

Next == \/ \E r \in Request : Arrival(r) \/ Serve(r) \/ CallFails(r)
        \/ \E u \in Uuid, k \in Parts : Chunk(u, k)
        \/ Crash

Spec == Init /\ [][Next]_vars

(* A goroutine that can make its next call makes it; clients owe nothing. *)
Fairness == \A r \in Request : WF_vars(Serve(r))
FairSpec == Spec /\ Fairness

-----------------------------------------------------------------------------
TypeOK ==
  /\ bucket \in BOOLEAN
  /\ objects \in [Uuid -> Bytes \cup {None}]
  /\ uploads \in [Uuid -> Bytes \cup {None}]
  /\ pool \subseteq Row
  /\ session \in [Uuid -> Content \cup {None}]
  /\ etag \in [Uuid -> [Parts -> Piece \cup {None, Blank}]]
  /\ promised \subseteq [content : Content, identity : Uuid]
  /\ at \in [Request -> Stages]
  /\ hash \in [Request -> Content \cup {None}]
  /\ target \in [Request -> Uuid \cup {None}]
  /\ hadRow \in [Request -> BOOLEAN]
  /\ late \subseteq Uuid
  /\ faults \in 0..MaxFaults

(* The bytes are the chunks of the file, in their places. *)
MadeOf(b, c) == b # None /\ \A k \in Parts : b[k] \in Pieces(c, k)

(* What a file's row or a client's identity may lead to: the whole file,   *)
(* or, once something failed, the file as the client's own chunks came in, *)
(* each of them that chunk of that file, if only its beginning.            *)
Delivers(u, c) == \/ objects[u] = Whole(c)
                  \/ faults > 0 /\ session[u] = c /\ MadeOf(objects[u], c)

(* Every row leads to the file its hash names, whatever failed and however *)
(* the steps of uploads, chunks and completions interleaved: a row is      *)
(* written only after its object is there, nothing overwrites it, and no   *)
(* chunk is missing, misplaced or another file's.  A chunk whose Copy      *)
(* broke off (helper.go:224) may be cut short, and nothing else may be.    *)
RowsResolve == \A row \in pool : Delivers(row.path, row.hash)

(* An identity a client was handed (by a finished upload or by the instant *)
(* upload of a file already there) stays the identity of a row that leads  *)
(* to the file that client offered.                                        *)
PromisesKept == \A p \in promised : \E row \in pool :
  /\ row.identity = p.identity
  /\ Delivers(row.path, p.content)

(* No two rows share an object: a completion sent twice registers once.    *)
OneRowPerObject == \A a, b \in pool : a.path = b.path => a = b

(* No row leads to an object whose upload, or whose prepare, arrived when  *)
(* the file had a row already.  Several rows with one hash thus come only  *)
(* from uploads that all began before the first of them was written; a     *)
(* chunked one may be completed, and its row written, long after.          *)
DuplicatesOverlap == \A row \in pool : row.path \notin late

(* As long as no call fails and nothing crashes, an object without a row   *)
(* is one that a running handler is about to register.                     *)
NoOrphanWithoutFault == faults = 0 => \A u \in Uuid :
  objects[u] # None => \/ \E row \in pool : row.path = u
                       \/ \E r \in Request :
                            at[r] \in InsertStages /\ target[r] = u

(* MinIO turns a completion down only if another completion was first, a   *)
(* chunk was acknowledged empty, a chunk but the last is below 5 MiB, or   *)
(* the chunk stored last is not the one acknowledged, which takes a cut    *)
(* one; never for the order the client listed the parts in: the handler    *)
(* sorts the list.                                                         *)
RefusedForCause == [][\A r \in Request :
  at[r] = "complete" /\ at'[r] = "idle" /\ faults' = faults =>
    \/ uploads[target[r]] = None
    \/ \E k \in Parts :
         \/ etag[target[r]][k] = Blank
         \/ k # NumParts /\ uploads[target[r]][k] \in Small
         \/ faults > 0 /\ etag[target[r]][k] # uploads[target[r]][k]]_vars

(* repository_pool with its objects implements the abstract store: an      *)
(* identity stands for the content of the object its row points to.  The   *)
(* refinement looks at whose chunks an object is made of, in their places, *)
(* not at their lengths: those are RowsResolve's matter.                   *)
ContentOf(b) == IF \E c \in Content : MadeOf(b, c)
                THEN CHOOSE c \in Content : MadeOf(b, c) ELSE None
Bound == [i \in Uuid |-> IF \E row \in pool : row.identity = i
            THEN ContentOf(objects[(CHOOSE row \in pool : row.identity = i).path])
            ELSE None]
Store == INSTANCE ContentStore WITH Identity <- Uuid, bound <- Bound
ImplementsStore == Store!Spec

(* Every request is answered in the end, also after faults. *)
RequestsAnswered == \A r \in Request : at[r] # "idle" ~> at[r] = "idle"

(* With the bucket there, an upload no fault touches leaves its file       *)
(* indexed, whatever other requests do meanwhile.                          *)
UploadIndexes == \A r \in Request, c \in Content :
  at[r] = "uploadCheck" /\ hash[r] = c /\ bucket ~> Indexed(c) \/ faults > 0

-----------------------------------------------------------------------------
(* Statements of the repository's texts that the code does not keep.       *)

(* test/minio_test.go:39-41 treats a bucket that exists already as success *)
(* of MakeBucket; an upload that loses the race for the bucket fails.      *)
BucketRaceHarmless == [][\A r \in Request :
  at[r] = "uploadMake" /\ at'[r] = "idle" => faults' > faults]_vars
=============================================================================
