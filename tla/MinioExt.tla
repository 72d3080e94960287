------------------------------ MODULE MinioExt ------------------------------
(***************************************************************************)
(* The client of an S3 server in lib/minio_ext: ListObjectParts and        *)
(* GenUploadPartSignedUrl, called side by side on one Client.              *)
(* ListObjectParts pages through the parts of an upload; each page is an   *)
(* executeMethod, which tries up to MaxRetry times at the pace of a timer, *)
(* a goroutine of its own.  Requests are signed for the region a bucket is *)
(* taken to be in: a cache all calls share, filled by a request for the    *)
(* location and corrected by what a refusal says.  Queries have no body,   *)
(* so every one may be repeated.  Modelled is a Client without a region of *)
(* its own; with one the cache is not used.                                *)
(***************************************************************************)
EXTENDS Integers, FiniteSets

CONSTANTS
  Call,        \* slots for calls in flight
  Timer,       \* slots for the goroutines of retry timers
  Region, Default,
  MaxRetry,    \* attempts per request (10 in retry.go)
  MaxParts,    \* parts per page (1000 in api-list.go)
  LastPart,    \* bound: the parts an upload has
  MaxMoves,    \* bound: how often the bucket turns up in another region
  MaxFaults,   \* bound: how many requests fail
  None         \* no value

ASSUME RetryAssumption == MaxRetry \in Nat /\ MaxRetry > 1
ASSUME PartsAssumption == MaxParts \in Nat \ {0} /\ LastPart \in Nat
ASSUME BoundsAssumption == MaxMoves \in Nat /\ MaxFaults \in Nat
ASSUME RegionAssumption == Default \in Region
ASSUME NoneAssumption ==
  None \notin Region \cup Timer \cup {"list", "sign", "page", "refused", "failed"}

VARIABLES
  home,        \* the region the bucket is in
  parts,       \* the parts the server has
  moves, faults,
  cache,       \* the region the Client takes the bucket to be in, or None
  at,          \* at[c]: what call c does next
  job,         \* job[c]: what it was called for
  marker,      \* marker[c]: the part after which the next page begins
  listed,      \* listed[c]: the parts collected (partsInfo)
  timer,       \* timer[c]: the timer of its request
  loc,         \* loc[c]: the region its request is signed for
  res, err,    \* res[c], err[c]: what executeMethod would return
  page,        \* page[c]: the parts of the page received
  more,        \* more[c]: whether the page said there are more (IsTruncated)
  hint,        \* hint[c]: the region a refusal named
  run,         \* run[t]: what timer t does
  sent,        \* sent[t]: the attempts it has given
  closed,      \* closed[t]: whether doneCh was closed
  before,      \* before[c]: the parts there were when c began
  troubled     \* troubled[c]: whether something got in the way of its request

server == <<home, parts, moves, faults>>
listing == <<job, marker, listed, before>>
attempt == <<timer, loc, res, err, page, more, hint>>
timers == <<run, sent, closed>>
vars == <<server, cache, at, listing, attempt, timers, troubled>>

Stages == {"idle", "query", "wait", "locate", "fetch", "store", "send",
           "correct", "back", "answer"}
Results == {"page", "refused", "failed"}
Trying == {"wait", "locate", "fetch", "store", "send", "correct"}

(* A new Client has an empty cache (newBucketLocationCache). *)
Init ==
  /\ home \in Region /\ parts = {} /\ moves = 0 /\ faults = 0
  /\ cache = None
  /\ at = [c \in Call |-> "idle"]
  /\ job = [c \in Call |-> None]
  /\ marker = [c \in Call |-> 0]
  /\ listed = [c \in Call |-> {}]
  /\ before = [c \in Call |-> {}]
  /\ timer = [c \in Call |-> None]
  /\ loc = [c \in Call |-> None]
  /\ res = [c \in Call |-> None]
  /\ err = [c \in Call |-> FALSE]
  /\ page = [c \in Call |-> {}]
  /\ more = [c \in Call |-> FALSE]
  /\ hint = [c \in Call |-> None]
  /\ run = [t \in Timer |-> "free"]
  /\ sent = [t \in Timer |-> 0]
  /\ closed = [t \in Timer |-> FALSE]
  /\ troubled = [c \in Call |-> FALSE]

Goto(c, stage) == at' = [at EXCEPT ![c] = stage]

-----------------------------------------------------------------------------
(* The world around: parts are uploaded, a bucket is made anew elsewhere.  *)
Upload == \E p \in 1..LastPart :
  /\ parts' = parts \cup {p}
  /\ UNCHANGED <<home, moves, faults, cache, at, listing, attempt, timers, troubled>>

Move == \E r \in Region \ {home} :
  /\ moves < MaxMoves /\ moves' = moves + 1
  /\ home' = r
  /\ troubled' = [c \in Call |-> troubled[c] \/ at[c] \in Trying]
  /\ UNCHANGED <<parts, faults, cache, at, listing, attempt, timers>>

Fault(c) ==
  /\ faults < MaxFaults /\ faults' = faults + 1
  /\ troubled' = [troubled EXCEPT ![c] = TRUE]
  /\ UNCHANGED <<home, parts, moves>>

-----------------------------------------------------------------------------
(* The retry timer: it offers an attempt, and then sleeps while the        *)
(* attempt runs.  After the last one it closes the channel of attempts.    *)
Frees(t) == /\ run' = [run EXCEPT ![t] = "free"]
            /\ sent' = [sent EXCEPT ![t] = 0]
            /\ closed' = [closed EXCEPT ![t] = FALSE]

\* Mutant of AttemptsLeft: i <= maxRetry.
OneMoreAttempt(t) == sent[t] <= MaxRetry

AttemptsLeft(t) == sent[t] < MaxRetry

TimerWakes(t) ==
  /\ run[t] = "asleep"
  /\ \/ /\ AttemptsLeft(t)
        /\ run' = [run EXCEPT ![t] = "offers"]
        /\ UNCHANGED <<sent, closed>>
     \/ /\ ~AttemptsLeft(t) /\ ~closed[t]
        /\ run' = [run EXCEPT ![t] = "over"]
        /\ UNCHANGED <<sent, closed>>
     \/ ~AttemptsLeft(t) /\ closed[t] /\ Frees(t)
  /\ UNCHANGED <<server, cache, at, listing, attempt, troubled>>

TimerStops(t) ==
  /\ run[t] = "offers" /\ closed[t]
  /\ Frees(t)
  /\ UNCHANGED <<server, cache, at, listing, attempt, troubled>>

(* Mutant of ClosesDone: executeMethod returns and leaves doneCh open. *)
LeavesDoneOpen(t) == UNCHANGED timers

ClosesDone(t) ==
  IF run[t] = "over" THEN Frees(t)
  ELSE closed' = [closed EXCEPT ![t] = TRUE] /\ UNCHANGED <<run, sent>>

(* executeMethod returns res and err, or goes on to the next attempt; what *)
(* the iteration of the loop kept for itself is gone.                      *)
Returns(c) == /\ Goto(c, "back")
              /\ timer' = [timer EXCEPT ![c] = None]
              /\ ClosesDone(timer[c])
              /\ loc' = [loc EXCEPT ![c] = None]

(* Which errors, codes and states are retryable (retry.go) is left open.   *)
TriesAgain(c) == /\ Goto(c, "wait")
                 /\ loc' = [loc EXCEPT ![c] = None]
                 /\ UNCHANGED <<timer, timers>>

-----------------------------------------------------------------------------
(* ListObjectParts: a query for each page, until one is not truncated.     *)
AskList(c) ==
  /\ at[c] = "idle"
  /\ Goto(c, "query")
  /\ job' = [job EXCEPT ![c] = "list"]
  /\ before' = [before EXCEPT ![c] = parts]
  /\ UNCHANGED <<server, cache, marker, listed, attempt, timers, troubled>>

StartQuery(c) == \E t \in Timer :
  /\ at[c] = "query"
  /\ run[t] = "free"
  /\ run' = [run EXCEPT ![t] = "offers"]
  /\ timer' = [timer EXCEPT ![c] = t]
  /\ troubled' = [troubled EXCEPT ![c] = FALSE]
  /\ Goto(c, "wait")
  /\ UNCHANGED <<server, cache, listing, loc, res, err, page, more, hint, sent, closed>>

Forgets(c) == /\ loc' = [loc EXCEPT ![c] = None]
              /\ res' = [res EXCEPT ![c] = None]
              /\ err' = [err EXCEPT ![c] = FALSE]
              /\ page' = [page EXCEPT ![c] = {}]
              /\ more' = [more EXCEPT ![c] = FALSE]
              /\ hint' = [hint EXCEPT ![c] = None]
              /\ troubled' = [troubled EXCEPT ![c] = FALSE]

CallEnds(c) == /\ Goto(c, "idle")
               /\ job' = [job EXCEPT ![c] = None]
               /\ marker' = [marker EXCEPT ![c] = 0]
               /\ listed' = [listed EXCEPT ![c] = {}]
               /\ before' = [before EXCEPT ![c] = {}]
               /\ Forgets(c)

MaxOf(S) == CHOOSE m \in S : \A n \in S : n <= m

(* In the answer, the server's: the last part of a page that is truncated. *)
NextPartNumberMarker(c) == IF more[c] THEN MaxOf(page[c]) ELSE 0

(* Mutant of NextMarker: the marker is taken for the last part received,   *)
(* and the next page is asked for from the one after it.                   *)
MarkerBeyond(c) == NextPartNumberMarker(c) + 1

(* What is kept from a page for the next query. *)
NextMarker(c) == NextPartNumberMarker(c)

ListPage(c) ==
  /\ at[c] = "back" /\ ~err[c] /\ res[c] = "page"
  /\ listed' = [listed EXCEPT ![c] = @ \cup page[c]]
  /\ marker' = [marker EXCEPT ![c] = NextMarker(c)]
  /\ Goto(c, IF more[c] THEN "query" ELSE "answer")
  /\ Forgets(c)
  /\ UNCHANGED <<server, cache, job, before, timer, timers>>

(* The list is returned, or the error of a query or a signature. *)
CallReturns(c) ==
  /\ at[c] = "answer" \/ (at[c] = "back" /\ (err[c] \/ res[c] # "page"))
  /\ CallEnds(c)
  /\ UNCHANGED <<server, cache, timer, timers>>

-----------------------------------------------------------------------------
(* executeMethod: an attempt begins when the timer gives one.              *)
Attempt(c) ==
  /\ at[c] = "wait" /\ run[timer[c]] = "offers"
  /\ run' = [run EXCEPT ![timer[c]] = "asleep"]
  /\ sent' = [sent EXCEPT ![timer[c]] = @ + 1]
  /\ Goto(c, "locate")
  /\ UNCHANGED <<server, cache, listing, attempt, closed, troubled>>

AttemptsOver(c) ==
  /\ at[c] = "wait" /\ run[timer[c]] = "over"
  /\ Returns(c)
  /\ UNCHANGED <<server, cache, listing, res, err, page, more, hint, troubled>>

(* getBucketLocation: look into the cache; without an entry ask the server. *)
Locate(c) ==
  /\ at[c] = "locate"
  /\ loc' = [loc EXCEPT ![c] = cache]
  /\ Goto(c, IF cache = None THEN "fetch" ELSE "send")
  /\ UNCHANGED <<server, cache, listing, timer, res, err, page, more, hint,
                 timers, troubled>>

(* A refusal that names no region is taken for the default one. *)
LocationAnswers == {home, Default}

FetchAnswered(c) ==
  /\ at[c] = "fetch"
  /\ \E r \in LocationAnswers : loc' = [loc EXCEPT ![c] = r]
  /\ Goto(c, "store")
  /\ UNCHANGED <<server, cache, listing, timer, res, err, page, more, hint,
                 timers, troubled>>

(* Mutant of FetchRetried: the error does not get out of the iteration.    *)
FetchRetriedShadowed(c) == TriesAgain(c) /\ UNCHANGED <<res, err>>

FetchRetried(c) == /\ TriesAgain(c)
                   /\ err' = [err EXCEPT ![c] = TRUE]
                   /\ UNCHANGED res

(* newRequest has failed: a code that is retryable leads to the next       *)
(* attempt.  A signature is given up.                                      *)
FetchFails(c) ==
  /\ at[c] = "fetch"
  /\ Fault(c)
  /\ \/ job[c] = "list" /\ FetchRetried(c)
     \/ /\ job[c] = "list" /\ Returns(c)
        /\ res' = [res EXCEPT ![c] = None]
        /\ err' = [err EXCEPT ![c] = TRUE]
     \/ /\ job[c] = "sign" /\ Goto(c, "back")
        /\ err' = [err EXCEPT ![c] = TRUE]
        /\ UNCHANGED <<timer, timers, loc, res>>
  /\ UNCHANGED <<cache, listing, page, more, hint>>

(* Another call wrote the cache, and not the region the bucket is in. *)
Misled(c, r) == [d \in Call |->
  troubled[d] \/ (d # c /\ at[d] \in Trying /\ r # home)]

(* Mutant of Cached: the location is used and not kept. *)
NotCached(r) == UNCHANGED cache

Cached(r) == cache' = r

Store(c) ==
  /\ at[c] = "store"
  /\ Cached(loc[c])
  /\ troubled' = Misled(c, loc[c])
  /\ Goto(c, "send")
  /\ UNCHANGED <<server, listing, attempt, timers>>

(* The parts after a marker, in the order of their numbers. *)
After(m) == {p \in parts : p > m}
PageAfter(m) == {p \in After(m) : Cardinality({q \in After(m) : q <= p}) <= MaxParts}

(* The request is carried out in the region it was signed for, all that    *)
(* matters here of the URL, the headers and the signature of newRequest.   *)
SendServed(c) ==
  /\ at[c] = "send" /\ job[c] = "list" /\ loc[c] = home
  /\ res' = [res EXCEPT ![c] = "page"]
  /\ err' = [err EXCEPT ![c] = FALSE]
  /\ page' = [page EXCEPT ![c] = PageAfter(marker[c])]
  /\ more' = [more EXCEPT ![c] = PageAfter(marker[c]) # After(marker[c])]
  /\ Returns(c)
  /\ UNCHANGED <<server, cache, listing, hint, troubled>>

(* It was signed for another region: the refusal may name the right one.   *)
SendRefused(c) ==
  /\ at[c] = "send" /\ job[c] = "list" /\ loc[c] # home
  /\ res' = [res EXCEPT ![c] = "refused"]
  /\ err' = [err EXCEPT ![c] = FALSE]
  /\ \E r \in {home, None} : hint' = [hint EXCEPT ![c] = r]
  /\ Goto(c, "correct")
  /\ UNCHANGED <<server, cache, listing, timer, loc, page, more, timers, troubled>>

(* No answer, or one with another error: either may be retryable. *)
SendFails(c) ==
  /\ at[c] = "send" /\ job[c] = "list"
  /\ Fault(c)
  /\ \E answered \in BOOLEAN :
       /\ res' = [res EXCEPT ![c] = IF answered THEN "failed" ELSE None]
       /\ err' = [err EXCEPT ![c] = ~answered]
  /\ TriesAgain(c) \/ Returns(c)
  /\ UNCHANGED <<cache, listing, page, more, hint>>

(* The region the refusal named goes into the cache, if the bucket is      *)
(* there, and the request is tried again.                                  *)
Correct(c) ==
  /\ at[c] = "correct"
  /\ \/ /\ hint[c] # None /\ cache # None
        /\ Cached(hint[c])
        /\ troubled' = Misled(c, hint[c])
        /\ TriesAgain(c)
     \/ /\ hint[c] = None \/ cache = None
        /\ Returns(c)
        /\ UNCHANGED <<cache, troubled>>
  /\ UNCHANGED <<server, listing, res, err, page, more, hint>>

-----------------------------------------------------------------------------
(* GenUploadPartSignedUrl: newRequest alone, for a bucket whose location   *)
(* the caller does not give.                                               *)
AskSign(c) ==
  /\ at[c] = "idle"
  /\ Goto(c, "locate")
  /\ job' = [job EXCEPT ![c] = "sign"]
  /\ UNCHANGED <<server, cache, marker, listed, before, attempt, timers, troubled>>

SignEnds(c) ==
  /\ job[c] = "sign" /\ at[c] = "send"
  /\ CallEnds(c)
  /\ UNCHANGED <<server, cache, timer, timers>>

-----------------------------------------------------------------------------
Serve(c) ==
  \/ AskList(c) \/ StartQuery(c) \/ ListPage(c) \/ CallReturns(c)
  \/ Attempt(c) \/ AttemptsOver(c) \/ Locate(c)
  \/ FetchAnswered(c) \/ FetchFails(c) \/ Store(c)
  \/ SendServed(c) \/ SendRefused(c) \/ SendFails(c) \/ Correct(c)
  \/ AskSign(c) \/ SignEnds(c)

TimerStep(t) == TimerWakes(t) \/ TimerStops(t)

Next == \/ Upload \/ Move
        \/ \E c \in Call : Serve(c)
        \/ \E t \in Timer : TimerStep(t)

Spec == Init /\ [][Next]_vars

-----------------------------------------------------------------------------
TypeOK ==
  /\ home \in Region
  /\ parts \subseteq 1..LastPart
  /\ moves \in 0..MaxMoves /\ faults \in 0..MaxFaults
  /\ cache \in Region \cup {None}
  /\ at \in [Call -> Stages]
  /\ job \in [Call -> {"list", "sign", None}]
  /\ marker \in [Call -> 0..LastPart]
  /\ listed \in [Call -> SUBSET parts]
  /\ before \in [Call -> SUBSET parts]
  /\ page \in [Call -> SUBSET parts]
  /\ timer \in [Call -> Timer \cup {None}]
  /\ loc \in [Call -> Region \cup {None}]
  /\ res \in [Call -> Results \cup {None}]
  /\ err \in [Call -> BOOLEAN]
  /\ more \in [Call -> BOOLEAN]
  /\ hint \in [Call -> Region \cup {None}]
  /\ run \in [Timer -> {"free", "offers", "asleep", "over"}]
  /\ sent \in [Timer -> 0..MaxRetry]
  /\ closed \in [Timer -> BOOLEAN]
  /\ troubled \in [Call -> BOOLEAN]

(* What executeMethod hands back is an error or a response: its callers    *)
(* read the response whenever there is no error (api-list.go:85).          *)
NeverEmptyHanded == \A c \in Call : at[c] = "back" => err[c] \/ res[c] # None

(* A query that nothing gets in the way of is not given up because of the  *)
(* region it was signed for, whatever the cache held when it began, if the *)
(* server names the right one: the correction reaches the next attempt.    *)
(* In the way are a fault, the bucket moving, and another call that writes *)
(* to the shared cache a region the bucket is not in (any more).           *)
RegionLearned == \A c \in Call :
  at[c] = "back" /\ ~err[c] /\ res[c] = "refused" => hint[c] = None \/ troubled[c]

(* The list holds every part that was there when it was asked for, however *)
(* many pages it took and whatever was uploaded meanwhile.                 *)
PartsListed == \A c \in Call : at[c] = "answer" => before[c] \subseteq listed[c]

(* The goroutine of a timer does not outlive its request but to sleep on:  *)
(* it is never left with an attempt to give and nobody to take it.         *)
NoTimerStranded == \A t \in Timer :
  run[t] # "free" => closed[t] \/ \E c \in Call : timer[c] = t
=============================================================================
