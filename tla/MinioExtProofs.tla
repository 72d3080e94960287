--------------------------- MODULE MinioExtProofs ---------------------------
(***************************************************************************)
(* Proofs about MinioExt, for any number of calls, timers, regions, parts  *)
(* and attempts: types, what a request hands back, that a region once      *)
(* learned is used, that no part is left out, that no timer is stranded.   *)
(***************************************************************************)
EXTENDS MinioExt, TLAPS, FiniteSetTheorems, WellFoundedInduction

-----------------------------------------------------------------------------
(* Pages: the parts after a marker, in order.                              *)
LEMMA MinOfSet ==
  ASSUME NEW S \in SUBSET Nat, S # {}
  PROVE  \E m \in S : \A n \in S : m <= n
<1>1. PICK m \in S : \A n \in S : <<n, m>> \notin OpToRel(<, Nat)
  BY WFMin, NatLessThanWellFounded, Zenon
<1>2. ASSUME NEW n \in S PROVE m <= n
  <2>1. ~(n < m)
    BY <1>1, Zenon DEF OpToRel
  <2> QED
    BY <2>1
<1> QED
  BY <1>2

LEMMA MaxOfSet ==
  ASSUME NEW S \in SUBSET (1..LastPart), S # {}
  PROVE  MaxOf(S) \in S /\ \A n \in S : n <= MaxOf(S)
<1> DEFINE T == {LastPart - n : n \in S}
<1>0. LastPart \in Nat
  BY PartsAssumption
<1>1. T \in SUBSET Nat /\ T # {}
  <2>1. PICK n \in S : TRUE
    OBVIOUS
  <2>2. LastPart - n \in T
    OBVIOUS
  <2> QED
    BY <1>0, <2>2
<1>2. PICK k \in T : \A j \in T : k <= j
  <2> HIDE DEF T
  <2> QED
    BY <1>1, MinOfSet
<1>3. PICK m \in S : k = LastPart - m
  OBVIOUS
<1>4. ASSUME NEW n \in S PROVE n <= m
  <2>1. k <= LastPart - n
    BY <1>2
  <2> QED
    BY <1>0, <1>3, <2>1
<1> QED
  BY <1>4 DEF MaxOf

(* A page that is not the rest of the parts is not empty, and holds every  *)
(* part after the marker up to its last one.                               *)
LEMMA PageIsNext ==
  ASSUME parts \subseteq 1..LastPart, NEW m \in 0..LastPart
  PROVE  /\ PageAfter(m) \subseteq After(m) /\ After(m) \subseteq parts
         /\ PageAfter(m) # After(m) => PageAfter(m) # {}
         /\ \A p \in After(m), q \in PageAfter(m) : p <= q => p \in PageAfter(m)
<1> DEFINE UpTo(p) == {q \in After(m) : q <= p}
<1>0. LastPart \in Nat /\ MaxParts \in Nat \ {0}
  BY PartsAssumption
<1>1. IsFiniteSet(1..LastPart)
  BY <1>0, FS_Interval
<1>2. After(m) \subseteq 1..LastPart /\ After(m) \subseteq parts
  BY DEF After
<1>3. ASSUME NEW p \in After(m) PROVE IsFiniteSet(UpTo(p))
  <2>1. UpTo(p) \subseteq 1..LastPart
    BY <1>2
  <2> QED
    BY <1>1, <2>1, FS_Subset
<1>4. ASSUME NEW p \in After(m), NEW q \in PageAfter(m), p <= q
      PROVE  p \in PageAfter(m)
  <2>1. q \in After(m) /\ Cardinality(UpTo(q)) <= MaxParts
    BY DEF PageAfter
  <2>2. UpTo(p) \subseteq UpTo(q)
    BY <1>0, <1>2, <1>4, <2>1
  <2>3. IsFiniteSet(UpTo(q))
    BY <1>3, <2>1
  <2>4. /\ Cardinality(UpTo(p)) <= Cardinality(UpTo(q))
        /\ Cardinality(UpTo(p)) \in Nat /\ Cardinality(UpTo(q)) \in Nat
    <3> HIDE DEF UpTo
    <3> QED
      BY <1>3, <2>2, <2>3, FS_Subset, FS_CardinalityType
  <2>5. Cardinality(UpTo(p)) <= MaxParts
    BY <1>0, <2>1, <2>4
  <2> QED
    BY <2>5 DEF PageAfter
<1>5. ASSUME After(m) # {} PROVE PageAfter(m) # {}
  <2>1. PICK p \in After(m) : \A n \in After(m) : p <= n
    <3>1. After(m) \in SUBSET Nat
      BY <1>0, <1>2
    <3> QED
      BY <1>5, <3>1, MinOfSet
  <2>2. UpTo(p) = {p}
    BY <1>0, <1>2, <2>1
  <2>3. Cardinality({p}) = 1
    BY FS_Singleton
  <2>4. Cardinality(UpTo(p)) <= MaxParts
    BY <1>0, <2>2, <2>3
  <2> QED
    BY <2>1, <2>4 DEF PageAfter
<1>6. PageAfter(m) \subseteq After(m)
  BY DEF PageAfter
<1> QED
  BY <1>2, <1>4, <1>5, <1>6

-----------------------------------------------------------------------------
(* A list in its loop has a timer, and one of its own.                     *)
JobsOK == \A c \in Call :
  /\ timer[c] # None <=> job[c] = "list" /\ at[c] \in Trying
  /\ at[c] \in {"query", "wait", "correct", "answer"} => job[c] = "list"
  /\ \A d \in Call : c # d /\ timer[c] # None => timer[c] # timer[d]
  /\ timer[c] # None => run[timer[c]] # "free" /\ ~closed[timer[c]]

TimersOK == \A t \in Timer :
  /\ run[t] = "free" => sent[t] = 0 /\ ~closed[t]
  /\ run[t] = "offers" => sent[t] < MaxRetry
  /\ run[t] = "over" => sent[t] = MaxRetry

(* After an attempt there is something to hand back.                       *)
ResultsOK == \A c \in Call :
  /\ at[c] = "wait" /\ sent[timer[c]] > 0 => err[c] \/ res[c] # None
  /\ at[c] = "correct" => res[c] = "refused"
  /\ res[c] = "page" => at[c] = "back" /\ job[c] = "list"

(* The location is known when a request is sent.                           *)
LocatedOK == \A c \in Call :
  /\ at[c] \in {"send", "correct"} => cache # None
  /\ at[c] = "store" => loc[c] # None

(* Nothing having got in the way, the first attempt may be refused for its *)
(* region; then the cache is right, and the second one will not be.        *)
LearnedOK == \A c \in Call : timer[c] # None /\ ~troubled[c] =>
  /\ at[c] \in {"wait", "fetch", "store", "correct"} => sent[timer[c]] <= 1
  /\ at[c] = "wait" /\ sent[timer[c]] = 1 => cache = home
  /\ at[c] = "locate" /\ sent[timer[c]] > 1 => cache = home
  /\ at[c] = "send" /\ sent[timer[c]] > 1 => loc[c] = home
  /\ at[c] = "correct" /\ hint[c] # None => hint[c] = home

(* Up to the marker, and on a page up to its last part, all is collected.  *)
PagesOK == \A c \in Call :
  /\ at[c] = "idle" => marker[c] = 0
  /\ at[c] # "answer" => \A p \in before[c] : p <= marker[c] => p \in listed[c]
  /\ res[c] = "page" =>
       /\ more[c] => page[c] # {}
       /\ \A p \in before[c] :
            p > marker[c] /\ (more[c] => p <= MaxOf(page[c])) => p \in page[c]

IInv ==
  /\ TypeOK /\ JobsOK /\ TimersOK /\ ResultsOK /\ LocatedOK /\ LearnedOK /\ PagesOK
  /\ NeverEmptyHanded /\ RegionLearned /\ PartsListed /\ NoTimerStranded

LEMMA InitIInv == Init => IInv
<1> SUFFICES ASSUME Init PROVE IInv
  OBVIOUS
<1> USE DEF Init
<1>1. TypeOK
  BY RetryAssumption, PartsAssumption, BoundsAssumption DEF TypeOK, Stages
<1>2. JobsOK /\ TimersOK /\ LocatedOK /\ LearnedOK
  BY NoneAssumption DEF JobsOK, TimersOK, LocatedOK, LearnedOK, Trying
<1>4. ResultsOK /\ PagesOK
  BY NoneAssumption DEF ResultsOK, PagesOK
<1>3. NeverEmptyHanded /\ RegionLearned /\ PartsListed /\ NoTimerStranded
  BY DEF NeverEmptyHanded, RegionLearned, PartsListed, NoTimerStranded
<1> QED
  BY <1>1, <1>2, <1>3, <1>4 DEF IInv

-----------------------------------------------------------------------------
(* executeMethod returns: the timer is told, and forgotten.                *)
LEMMA Closing ==
  ASSUME TypeOK, NEW t \in Timer, ClosesDone(t)
  PROVE  /\ run' \in [Timer -> {"free", "offers", "asleep", "over"}]
         /\ sent' \in [Timer -> 0..MaxRetry] /\ closed' \in [Timer -> BOOLEAN]
         /\ \A u \in Timer \ {t} :
              run'[u] = run[u] /\ sent'[u] = sent[u] /\ closed'[u] = closed[u]
         /\ \/ run'[t] = "free" /\ sent'[t] = 0 /\ ~closed'[t]
            \/ run'[t] = run[t] /\ sent'[t] = sent[t] /\ closed'[t]
<1>1. CASE run[t] = "over"
  <2>1. /\ run' = [run EXCEPT ![t] = "free"] /\ sent' = [sent EXCEPT ![t] = 0]
        /\ closed' = [closed EXCEPT ![t] = FALSE]
    BY <1>1 DEF ClosesDone, Frees
  <2>2. 0 \in 0..MaxRetry
    BY RetryAssumption
  <2> QED
    BY <2>1, <2>2 DEF TypeOK
<1>2. CASE run[t] # "over"
  BY <1>2 DEF ClosesDone, TypeOK
<1> QED
  BY <1>1, <1>2

ReturnTypes ==
  /\ at' \in [Call -> Stages]
  /\ timer' \in [Call -> Timer \cup {None}]
  /\ loc' \in [Call -> Region \cup {None}]
  /\ run' \in [Timer -> {"free", "offers", "asleep", "over"}]
  /\ sent' \in [Timer -> 0..MaxRetry]
  /\ closed' \in [Timer -> BOOLEAN]

(* A return leaves the other calls and their timers alone.                 *)
OthersKept(c) == \A d \in Call \ {c} :
  /\ at'[d] = at[d] /\ timer'[d] = timer[d] /\ loc'[d] = loc[d]
  /\ timer[d] # None => sent'[timer[d]] = sent[timer[d]]

LEMMA ReturnsKeeps ==
  ASSUME TypeOK, JobsOK, TimersOK, NoTimerStranded,
         NEW c \in Call, timer[c] # None, Returns(c), UNCHANGED job
  PROVE  /\ ReturnTypes /\ JobsOK' /\ TimersOK' /\ NoTimerStranded'
         /\ OthersKept(c) /\ at'[c] = "back" /\ timer'[c] = None
<1>0. run[timer[c]] # "free"
  BY DEF JobsOK
<1>1. timer[c] \in Timer /\ ClosesDone(timer[c])
  BY DEF TypeOK, Returns
<1>2. /\ run' \in [Timer -> {"free", "offers", "asleep", "over"}]
      /\ sent' \in [Timer -> 0..MaxRetry] /\ closed' \in [Timer -> BOOLEAN]
      /\ \A u \in Timer \ {timer[c]} :
           run'[u] = run[u] /\ sent'[u] = sent[u] /\ closed'[u] = closed[u]
      /\ \/ run'[timer[c]] = "free" /\ sent'[timer[c]] = 0 /\ ~closed'[timer[c]]
         \/ run'[timer[c]] = run[timer[c]] /\ sent'[timer[c]] = sent[timer[c]]
              /\ closed'[timer[c]]
  BY <1>1, Closing, Zenon
<1>3. at' = [at EXCEPT ![c] = "back"] /\ timer' = [timer EXCEPT ![c] = None]
      /\ loc' = [loc EXCEPT ![c] = None]
  BY DEF Returns, Goto
<1>4. ReturnTypes
  BY <1>2, <1>3 DEF ReturnTypes, TypeOK, Stages
<1>5. \A d \in Call \ {c} : /\ at'[d] = at[d] /\ timer'[d] = timer[d] /\ loc'[d] = loc[d]
                            /\ timer[d] # None => timer[d] \in Timer \ {timer[c]}
  BY <1>3 DEF TypeOK, JobsOK
<1>6. OthersKept(c)
  BY <1>2, <1>5 DEF OthersKept
<1>7. at'[c] = "back" /\ timer'[c] = None
  BY <1>3 DEF TypeOK
<1>8. JobsOK'
  <2> SUFFICES ASSUME NEW d \in Call
               PROVE  /\ timer'[d] # None <=> job'[d] = "list" /\ at'[d] \in Trying
                      /\ at'[d] \in {"query", "wait", "correct", "answer"} => job'[d] = "list"
                      /\ \A e \in Call : d # e /\ timer'[d] # None => timer'[d] # timer'[e]
                      /\ timer'[d] # None => run'[timer'[d]] # "free" /\ ~closed'[timer'[d]]
    BY DEF JobsOK
  <2>1. CASE d = c
    BY <2>1, <1>7 DEF Trying
  <2>2. CASE d # c
    BY <2>2, <1>2, <1>5, <1>7 DEF JobsOK
  <2> QED
    BY <2>1, <2>2
<1>9. TimersOK'
  <2> SUFFICES ASSUME NEW t \in Timer
               PROVE  /\ run'[t] = "free" => sent'[t] = 0 /\ ~closed'[t]
                      /\ run'[t] = "offers" => sent'[t] < MaxRetry
                      /\ run'[t] = "over" => sent'[t] = MaxRetry
    BY DEF TimersOK
  <2>1. CASE t = timer[c]
    BY <2>1, <1>2, <1>0 DEF TimersOK
  <2>2. CASE t # timer[c]
    BY <2>2, <1>2 DEF TimersOK
  <2> QED
    BY <2>1, <2>2
<1>10. NoTimerStranded'
  <2> SUFFICES ASSUME NEW t \in Timer, run'[t] # "free", ~closed'[t]
               PROVE  \E d \in Call : timer'[d] = t
    BY DEF NoTimerStranded
  <2>1. t # timer[c] /\ run[t] # "free" /\ ~closed[t]
    BY <1>2
  <2>2. PICK d \in Call : timer[d] = t
    BY <2>1 DEF NoTimerStranded
  <2> QED
    BY <2>1, <2>2, <1>5
<1> QED
  BY <1>4, <1>6, <1>7, <1>8, <1>9, <1>10

-----------------------------------------------------------------------------
(* The goroutine of a timer ends once its request has closed doneCh.       *)
LEMMA FreesKeeps ==
  ASSUME IInv, NEW t \in Timer, closed[t], Frees(t),
         UNCHANGED <<server, cache, at, listing, attempt, troubled>>
  PROVE  IInv'
<1> USE DEF IInv
<1>1. \A c \in Call : timer[c] # None => timer[c] \in Timer /\ timer[c] # t
  BY DEF JobsOK, TypeOK
<1>2. 0 \in 0..MaxRetry
  BY RetryAssumption
<1>3. TypeOK'
  BY <1>2 DEF TypeOK, Frees, server, listing, attempt
<1>4. \A c \in Call : timer[c] # None =>
        /\ run'[timer[c]] = run[timer[c]] /\ sent'[timer[c]] = sent[timer[c]]
        /\ closed'[timer[c]] = closed[timer[c]]
  BY <1>1 DEF Frees, TypeOK
<1>5. JobsOK'
  BY <1>4 DEF JobsOK, listing, attempt
<1>6. TimersOK'
  BY DEF TimersOK, Frees, TypeOK
<1>7. ResultsOK' /\ LearnedOK'
  BY <1>4 DEF ResultsOK, LearnedOK, JobsOK, Trying, server, listing, attempt
<1>8. LocatedOK' /\ PagesOK' /\ NeverEmptyHanded' /\ RegionLearned' /\ PartsListed'
  BY DEF LocatedOK, PagesOK, NeverEmptyHanded, RegionLearned, PartsListed,
     server, listing, attempt
<1>9. NoTimerStranded'
  BY DEF NoTimerStranded, Frees, TypeOK, attempt
<1> QED
  BY <1>3, <1>5, <1>6, <1>7, <1>8, <1>9

LEMMA NextMarkerType ==
  ASSUME TypeOK, PagesOK, NEW c \in Call, res[c] = "page"
  PROVE  NextMarker(c) \in 0..LastPart
<1>1. page[c] \in SUBSET (1..LastPart)
  BY DEF TypeOK
<1>2. more[c] => MaxOf(page[c]) \in 1..LastPart
  BY <1>1, MaxOfSet DEF PagesOK
<1> QED
  BY <1>2, PartsAssumption DEF NextMarker, NextPartNumberMarker

-----------------------------------------------------------------------------
(* Whatever became of a request of a list that failed, it is to be tried   *)
(* again or given up, and there is an error or a response.                 *)
LEMMA FailureKeeps ==
  ASSUME IInv, NEW c \in Call, timer[c] # None, Fault(c),
         TriesAgain(c) \/ Returns(c),
         NEW rc \in {None, "failed"} \cup {res[c]}, NEW ec \in BOOLEAN, ec \/ rc # None,
         res[c] # "page",
         res' = [res EXCEPT ![c] = rc], err' = [err EXCEPT ![c] = ec],
         UNCHANGED <<cache, listing, page, more, hint>>
  PROVE  IInv'
<1> USE DEF IInv
<1>1. /\ UNCHANGED <<home, parts, moves, cache, job, marker, listed, before, page, more, hint>>
      /\ faults' \in 0..MaxFaults /\ troubled' = [troubled EXCEPT ![c] = TRUE]
  BY BoundsAssumption DEF Fault, listing, TypeOK
<1>2. job[c] = "list" /\ at[c] # "answer" /\ at[c] # "idle"
  BY DEF JobsOK, Trying
<1>3. rc \in Results \cup {None} /\ rc # "page"
  BY NoneAssumption DEF TypeOK, Results
<1>4. /\ troubled'[c] /\ res'[c] = rc /\ (err'[c] <=> ec)
  BY <1>1 DEF TypeOK
<1>5. \A d \in Call : d # c =>
        res'[d] = res[d] /\ err'[d] = err[d] /\ troubled'[d] = troubled[d]
  BY <1>1 DEF TypeOK
<1>6. CASE TriesAgain(c)
  <2>1. /\ at' = [at EXCEPT ![c] = "wait"] /\ loc' = [loc EXCEPT ![c] = None]
        /\ UNCHANGED <<timer, run, sent, closed>>
    BY <1>6 DEF TriesAgain, Goto, timers
  <2>2. at'[c] = "wait" /\ \A d \in Call : d # c => at'[d] = at[d] /\ loc'[d] = loc[d]
    BY <2>1 DEF TypeOK
  <2>3. TypeOK'
    BY <1>1, <1>3, <2>1 DEF TypeOK, Stages
  <2>4. JobsOK' /\ TimersOK' /\ NoTimerStranded'
    BY <1>1, <1>2, <2>1, <2>2 DEF JobsOK, Trying, TimersOK, NoTimerStranded
  <2>5. ResultsOK' /\ NeverEmptyHanded'
    BY <1>1, <1>3, <1>4, <1>5, <2>1, <2>2 DEF ResultsOK, NeverEmptyHanded
  <2>6. LocatedOK' /\ LearnedOK' /\ RegionLearned'
    BY <1>1, <1>4, <1>5, <2>1, <2>2 DEF LocatedOK, LearnedOK, RegionLearned
  <2>7. PagesOK' /\ PartsListed'
    BY <1>1, <1>2, <1>3, <1>4, <1>5, <2>2 DEF PagesOK, PartsListed
  <2> QED
    BY <2>3, <2>4, <2>5, <2>6, <2>7
<1>7. CASE Returns(c)
  <2>1. /\ ReturnTypes /\ JobsOK' /\ TimersOK' /\ NoTimerStranded'
        /\ OthersKept(c) /\ at'[c] = "back" /\ timer'[c] = None
    BY <1>1, <1>7, ReturnsKeeps
  <2>2. TypeOK'
    BY <1>1, <1>3, <2>1 DEF TypeOK, ReturnTypes
  <2>3. ResultsOK' /\ NeverEmptyHanded'
    BY <1>1, <1>3, <1>4, <1>5, <2>1 DEF OthersKept, ResultsOK, NeverEmptyHanded,
       JobsOK, Trying
  <2>4. LocatedOK' /\ LearnedOK' /\ RegionLearned'
    BY <1>1, <1>4, <1>5, <2>1 DEF OthersKept, LocatedOK, LearnedOK, RegionLearned
  <2>5. PagesOK' /\ PartsListed'
    BY <1>1, <1>2, <1>3, <1>4, <1>5, <2>1 DEF OthersKept, PagesOK, PartsListed
  <2> QED
    BY <2>1, <2>2, <2>3, <2>4, <2>5
<1> QED
  BY <1>6, <1>7

LEMMA UploadKeeps ==
  ASSUME IInv, Upload
  PROVE  IInv'
<1> USE DEF IInv
<1>1. TypeOK'
  BY DEF Upload, TypeOK, listing, attempt, timers
<1>2. JobsOK'
  BY DEF Upload, JobsOK, listing, attempt, timers
<1>3. TimersOK'
  BY DEF Upload, TimersOK, timers
<1>4. ResultsOK' /\ NeverEmptyHanded'
  BY DEF Upload, ResultsOK, NeverEmptyHanded, listing, attempt, timers
<1>5. LocatedOK'
  BY DEF Upload, LocatedOK, attempt
<1>6. LearnedOK' /\ RegionLearned'
  BY DEF Upload, LearnedOK, RegionLearned, attempt, timers
<1>7. PagesOK' /\ PartsListed'
  BY DEF Upload, PagesOK, PartsListed, listing, attempt
<1>8. NoTimerStranded'
  BY DEF Upload, NoTimerStranded, attempt, timers
<1> QED
  BY <1>1, <1>2, <1>3, <1>4, <1>5, <1>6, <1>7, <1>8

LEMMA MoveKeeps ==
  ASSUME IInv, Move
  PROVE  IInv'
<1> USE DEF IInv
<1>1. TypeOK'
  BY BoundsAssumption DEF Move, TypeOK, listing, attempt, timers
<1>2. JobsOK'
  BY DEF Move, JobsOK, listing, attempt, timers
<1>3. TimersOK'
  BY DEF Move, TimersOK, timers
<1>4. ResultsOK' /\ NeverEmptyHanded'
  BY DEF Move, ResultsOK, NeverEmptyHanded, listing, attempt, timers
<1>5. LocatedOK'
  BY DEF Move, LocatedOK, attempt
<1>6. LearnedOK' /\ RegionLearned'
  <2>1. \A c \in Call : troubled'[c] <=> troubled[c] \/ at[c] \in Trying
    BY DEF Move, TypeOK
  <2>2. UNCHANGED <<at, timer, job, hint, err, res>>
    BY DEF Move, listing, attempt
  <2> QED
    BY <2>1, <2>2 DEF LearnedOK, RegionLearned, JobsOK
<1>7. PagesOK' /\ PartsListed'
  BY DEF Move, PagesOK, PartsListed, listing, attempt
<1>8. NoTimerStranded'
  BY DEF Move, NoTimerStranded, attempt, timers
<1> QED
  BY <1>1, <1>2, <1>3, <1>4, <1>5, <1>6, <1>7, <1>8

LEMMA TimerWakesKeeps ==
  ASSUME IInv, NEW t \in Timer, TimerWakes(t)
  PROVE  IInv'
<1> USE DEF IInv
<1> DEFINE Kept == UNCHANGED <<server, cache, at, listing, attempt, troubled>>
<1>1. CASE AttemptsLeft(t) /\ run' = [run EXCEPT ![t] = "offers"]
           /\ UNCHANGED <<sent, closed>>
  <2>1. run[t] = "asleep" /\ sent[t] < MaxRetry /\ Kept
    BY <1>1 DEF TimerWakes, AttemptsLeft
  <2>2. TypeOK' /\ JobsOK'
    BY <1>1, <2>1 DEF TypeOK, JobsOK, server, listing, attempt
  <2>3. TimersOK'
    BY <1>1, <2>1 DEF TimersOK, TypeOK
  <2>4. ResultsOK' /\ LocatedOK' /\ LearnedOK' /\ PagesOK' /\ NeverEmptyHanded'
        /\ RegionLearned' /\ PartsListed'
    BY <1>1, <2>1 DEF ResultsOK, LocatedOK, LearnedOK, PagesOK, NeverEmptyHanded,
       RegionLearned, PartsListed, server, listing, attempt
  <2>5. NoTimerStranded'
    BY <1>1, <2>1 DEF NoTimerStranded, TypeOK, attempt
  <2> QED
    BY <2>2, <2>3, <2>4, <2>5
<1>2. CASE ~AttemptsLeft(t) /\ run' = [run EXCEPT ![t] = "over"]
           /\ UNCHANGED <<sent, closed>>
  <2>1. run[t] = "asleep" /\ ~(sent[t] < MaxRetry) /\ Kept
    BY <1>2 DEF TimerWakes, AttemptsLeft
  <2>2. TypeOK' /\ JobsOK'
    BY <1>2, <2>1 DEF TypeOK, JobsOK, server, listing, attempt
  <2>3. TimersOK'
    <3>1. sent[t] = MaxRetry
      BY <2>1, RetryAssumption DEF TypeOK
    <3> QED
      BY <1>2, <2>1, <3>1 DEF TimersOK, TypeOK
  <2>4. ResultsOK' /\ LocatedOK' /\ LearnedOK' /\ PagesOK' /\ NeverEmptyHanded'
        /\ RegionLearned' /\ PartsListed'
    BY <1>2, <2>1 DEF ResultsOK, LocatedOK, LearnedOK, PagesOK, NeverEmptyHanded,
       RegionLearned, PartsListed, server, listing, attempt
  <2>5. NoTimerStranded'
    BY <1>2, <2>1 DEF NoTimerStranded, TypeOK, attempt
  <2> QED
    BY <2>2, <2>3, <2>4, <2>5
<1>3. CASE closed[t] /\ Frees(t)
  BY <1>3, FreesKeeps DEF TimerWakes
<1> QED
  BY <1>1, <1>2, <1>3 DEF TimerWakes

LEMMA TimerStopsKeeps ==
  ASSUME IInv, NEW t \in Timer, TimerStops(t)
  PROVE  IInv'
<1> QED
  BY FreesKeeps DEF TimerStops

LEMMA AskListKeeps ==
  ASSUME IInv, NEW c \in Call, AskList(c)
  PROVE  IInv'
<1> USE DEF IInv
<1>1. TypeOK'
  BY DEF AskList, Goto, TypeOK, Stages, server, attempt, timers
<1>2. JobsOK'
  BY DEF AskList, Goto, JobsOK, Trying, TypeOK, attempt, timers
<1>3. TimersOK'
  BY DEF AskList, TimersOK, timers
<1>4. ResultsOK' /\ NeverEmptyHanded'
  BY DEF AskList, Goto, ResultsOK, NeverEmptyHanded, attempt, timers
<1>5. LocatedOK'
  BY DEF AskList, Goto, LocatedOK, attempt
<1>6. LearnedOK' /\ RegionLearned'
  BY DEF AskList, Goto, LearnedOK, RegionLearned, server, attempt, timers
<1>7. PagesOK' /\ PartsListed'
  BY DEF AskList, Goto, PagesOK, PartsListed, ResultsOK, TypeOK, attempt
<1>8. NoTimerStranded'
  BY DEF AskList, NoTimerStranded, attempt, timers
<1> QED
  BY <1>1, <1>2, <1>3, <1>4, <1>5, <1>6, <1>7, <1>8

LEMMA StartQueryKeeps ==
  ASSUME IInv, NEW c \in Call, StartQuery(c)
  PROVE  IInv'
<1> USE DEF IInv
<1>1. TypeOK'
  BY DEF StartQuery, Goto, TypeOK, Stages, server, listing
<1>2. JobsOK'
  <2>1. PICK t \in Timer : /\ at[c] = "query" /\ run[t] = "free"
                           /\ run' = [run EXCEPT ![t] = "offers"]
                           /\ timer' = [timer EXCEPT ![c] = t]
                           /\ at' = [at EXCEPT ![c] = "wait"]
                           /\ UNCHANGED <<job, closed>>
    BY DEF StartQuery, Goto, listing
  <2>2. job[c] = "list" /\ ~closed[t] /\ t # None
    BY <2>1, NoneAssumption DEF JobsOK, TimersOK
  <2>3. \A d \in Call : timer[d] # t
    BY <2>1, <2>2 DEF JobsOK
  <2>4. /\ timer'[c] = t /\ at'[c] = "wait" /\ run'[t] = "offers"
        /\ \A d \in Call \ {c} : timer'[d] = timer[d] /\ at'[d] = at[d]
        /\ \A u \in Timer \ {t} : run'[u] = run[u]
    BY <2>1 DEF TypeOK
  <2>5. \A d \in Call : timer[d] # None => timer[d] \in Timer \ {t}
    BY <2>3 DEF TypeOK
  <2> QED
    BY <2>1, <2>2, <2>3, <2>4, <2>5 DEF JobsOK, Trying
<1>3. TimersOK'
  BY RetryAssumption DEF StartQuery, TimersOK
<1>4. ResultsOK' /\ NeverEmptyHanded'
  BY DEF StartQuery, Goto, ResultsOK, NeverEmptyHanded, TimersOK, TypeOK, listing
<1>5. LocatedOK'
  BY DEF StartQuery, Goto, LocatedOK
<1>6. LearnedOK' /\ RegionLearned'
  BY DEF StartQuery, Goto, LearnedOK, RegionLearned, TimersOK, TypeOK, server
<1>7. PagesOK' /\ PartsListed'
  BY DEF StartQuery, Goto, PagesOK, PartsListed, listing
<1>8. NoTimerStranded'
  BY NoneAssumption DEF StartQuery, NoTimerStranded, JobsOK, Trying, TypeOK
<1> QED
  BY <1>1, <1>2, <1>3, <1>4, <1>5, <1>6, <1>7, <1>8

LEMMA ListPageKeeps ==
  ASSUME IInv, NEW c \in Call, ListPage(c)
  PROVE  IInv'
<1> USE DEF IInv
<1>1. TypeOK'
  <2>1. NextMarker(c) \in 0..LastPart
    BY NextMarkerType DEF ListPage
  <2>2. page[c] \in SUBSET parts
    BY DEF TypeOK
  <2> QED
    BY <2>1, <2>2 DEF ListPage, Goto, Forgets, TypeOK, Stages, server, timers
<1>2. JobsOK'
  <2>1. timer[c] = None /\ job[c] = "list"
    BY DEF ListPage, JobsOK, Trying, ResultsOK
  <2> QED
    BY <2>1 DEF ListPage, Goto, JobsOK, Trying, TypeOK, timers
<1>3. TimersOK'
  BY DEF ListPage, TimersOK, timers
<1>4. ResultsOK' /\ NeverEmptyHanded'
  BY DEF ListPage, Goto, Forgets, ResultsOK, NeverEmptyHanded, TypeOK, timers
<1>5. LocatedOK'
  BY DEF ListPage, Goto, Forgets, LocatedOK
<1>6. LearnedOK' /\ RegionLearned'
  BY DEF ListPage, Goto, Forgets, LearnedOK, RegionLearned, TypeOK, server, timers
<1>7. PagesOK' /\ PartsListed'
  <2>1. /\ \A d \in Call \ {c} : /\ at'[d] = at[d] /\ marker'[d] = marker[d]
                                /\ listed'[d] = listed[d] /\ res'[d] = res[d]
                                /\ more'[d] = more[d] /\ page'[d] = page[d]
        /\ before' = before
        /\ at'[c] = (IF more[c] THEN "query" ELSE "answer")
        /\ marker'[c] = NextMarker(c) /\ listed'[c] = listed[c] \cup page[c]
        /\ res'[c] = None
    BY DEF ListPage, Goto, Forgets, TypeOK
  <2>2. \A p \in before[c] : p > marker[c] \/ p \in listed[c]
    <3>1. before[c] \subseteq 1..LastPart /\ marker[c] \in 0..LastPart
      BY DEF TypeOK
    <3>2. at[c] # "answer"
      BY DEF ListPage
    <3> QED
      BY <3>1, <3>2, PartsAssumption DEF PagesOK
  <2>3. res[c] = "page"
    BY DEF ListPage
  <2>4. CASE more[c]
    <3>1. \A p \in before[c] : p <= NextMarker(c) => p \in listed[c] \cup page[c]
      BY <2>2, <2>3, <2>4 DEF PagesOK, NextMarker, NextPartNumberMarker
    <3> QED
      BY <2>1, <2>4, <3>1, NoneAssumption DEF PagesOK, PartsListed
  <2>5. CASE ~more[c]
    <3>1. before[c] \subseteq listed[c] \cup page[c]
      BY <2>2, <2>3, <2>5 DEF PagesOK
    <3> QED
      BY <2>1, <2>5, <3>1, NoneAssumption DEF PagesOK, PartsListed
  <2> QED
    BY <2>4, <2>5
<1>8. NoTimerStranded'
  BY DEF ListPage, NoTimerStranded, timers
<1> QED
  BY <1>1, <1>2, <1>3, <1>4, <1>5, <1>6, <1>7, <1>8

LEMMA CallReturnsKeeps ==
  ASSUME IInv, NEW c \in Call, CallReturns(c)
  PROVE  IInv'
<1> USE DEF IInv
<1>1. TypeOK'
  BY PartsAssumption DEF CallReturns, Goto, CallEnds, Forgets, TypeOK, Stages,
     server, timers
<1>2. JobsOK'
  BY DEF CallReturns, Goto, CallEnds, JobsOK, Trying, TypeOK, timers
<1>3. TimersOK'
  BY DEF CallReturns, TimersOK, timers
<1>4. ResultsOK' /\ NeverEmptyHanded'
  BY NoneAssumption DEF CallReturns, Goto, CallEnds, Forgets, ResultsOK,
     NeverEmptyHanded, TypeOK, timers
<1>5. LocatedOK'
  BY DEF CallReturns, Goto, CallEnds, Forgets, LocatedOK
<1>6. LearnedOK' /\ RegionLearned'
  BY DEF CallReturns, Goto, CallEnds, Forgets, LearnedOK, RegionLearned, TypeOK,
     server, timers
<1>7. PagesOK' /\ PartsListed'
  BY DEF CallReturns, Goto, CallEnds, Forgets, PagesOK, PartsListed, TypeOK
<1>8. NoTimerStranded'
  BY DEF CallReturns, NoTimerStranded, timers
<1> QED
  BY <1>1, <1>2, <1>3, <1>4, <1>5, <1>6, <1>7, <1>8

LEMMA AttemptKeeps ==
  ASSUME IInv, NEW c \in Call, Attempt(c)
  PROVE  IInv'
<1> USE DEF IInv
<1>1. TypeOK'
  <2>1. timer[c] \in Timer /\ run[timer[c]] = "offers"
    BY DEF Attempt, JobsOK, Trying, TypeOK
  <2>2. sent[timer[c]] + 1 \in 0..MaxRetry
    BY <2>1, RetryAssumption DEF TimersOK, TypeOK
  <2> QED
    BY <2>1, <2>2 DEF Attempt, Goto, TypeOK, Stages, server, listing, attempt
<1>2. JobsOK'
  BY DEF Attempt, Goto, JobsOK, Trying, listing, attempt
<1>3. TimersOK'
  BY DEF Attempt, TimersOK, TypeOK
<1>4. ResultsOK' /\ NeverEmptyHanded'
  BY DEF Attempt, Goto, ResultsOK, NeverEmptyHanded, JobsOK, Trying, TypeOK,
     listing, attempt
<1>5. LocatedOK'
  BY DEF Attempt, Goto, LocatedOK, attempt
<1>6. LearnedOK' /\ RegionLearned'
  <2>1. timer[c] \in Timer
    BY DEF Attempt, JobsOK, Trying, TypeOK
  <2>2. at'[c] = "locate" /\ sent'[timer[c]] = sent[timer[c]] + 1
    BY <2>1 DEF Attempt, Goto, TypeOK
  <2>3. \A d \in Call : d # c =>
          at'[d] = at[d] /\ (timer[d] # None => sent'[timer[d]] = sent[timer[d]])
    BY <2>1 DEF Attempt, Goto, JobsOK, TypeOK
  <2>4. UNCHANGED <<home, cache, timer, loc, res, err, hint, troubled>>
    BY DEF Attempt, server, attempt
  <2>5. ~troubled[c] /\ sent[timer[c]] + 1 > 1 => cache = home
    <3>1. sent[timer[c]] \in Nat
      BY <2>1, RetryAssumption DEF TypeOK
    <3>2. ~troubled[c] => sent[timer[c]] <= 1 /\ (sent[timer[c]] = 1 => cache = home)
      BY <2>1, NoneAssumption DEF Attempt, LearnedOK
    <3> QED
      BY <3>1, <3>2
  <2>6. LearnedOK'
    BY <2>2, <2>3, <2>4, <2>5 DEF LearnedOK
  <2>7. RegionLearned'
    BY <2>2, <2>3, <2>4 DEF RegionLearned
  <2> QED
    BY <2>6, <2>7
<1>7. PagesOK' /\ PartsListed'
  BY DEF Attempt, Goto, PagesOK, PartsListed, listing, attempt
<1>8. NoTimerStranded'
  BY DEF Attempt, NoTimerStranded, attempt
<1> QED
  BY <1>1, <1>2, <1>3, <1>4, <1>5, <1>6, <1>7, <1>8

LEMMA LocateKeeps ==
  ASSUME IInv, NEW c \in Call, Locate(c)
  PROVE  IInv'
<1> USE DEF IInv
<1>1. TypeOK'
  BY DEF Locate, Goto, TypeOK, Stages, server, listing, timers
<1>2. JobsOK'
  BY DEF Locate, Goto, JobsOK, Trying, listing, timers
<1>3. TimersOK'
  BY DEF Locate, TimersOK, timers
<1>4. ResultsOK' /\ NeverEmptyHanded'
  BY DEF Locate, Goto, ResultsOK, NeverEmptyHanded, listing, timers
<1>5. LocatedOK'
  BY DEF Locate, Goto, LocatedOK
<1>6. LearnedOK' /\ RegionLearned'
  BY NoneAssumption DEF Locate, Goto, LearnedOK, RegionLearned, TypeOK, server,
     timers
<1>7. PagesOK' /\ PartsListed'
  BY DEF Locate, Goto, PagesOK, PartsListed, listing
<1>8. NoTimerStranded'
  BY DEF Locate, NoTimerStranded, timers
<1> QED
  BY <1>1, <1>2, <1>3, <1>4, <1>5, <1>6, <1>7, <1>8

LEMMA FetchAnsweredKeeps ==
  ASSUME IInv, NEW c \in Call, FetchAnswered(c)
  PROVE  IInv'
<1> USE DEF IInv
<1>1. TypeOK'
  BY RegionAssumption DEF FetchAnswered, Goto, LocationAnswers, TypeOK, Stages,
     server, listing, timers
<1>2. JobsOK'
  BY DEF FetchAnswered, Goto, JobsOK, Trying, listing, timers
<1>3. TimersOK'
  BY DEF FetchAnswered, TimersOK, timers
<1>4. ResultsOK' /\ NeverEmptyHanded'
  BY DEF FetchAnswered, Goto, ResultsOK, NeverEmptyHanded, listing, timers
<1>5. LocatedOK'
  <2>1. PICK r \in {home, Default} : loc' = [loc EXCEPT ![c] = r]
    BY DEF FetchAnswered, LocationAnswers
  <2>2. r # None
    BY RegionAssumption, NoneAssumption DEF TypeOK
  <2> QED
    BY <2>1, <2>2 DEF FetchAnswered, Goto, LocatedOK, TypeOK
<1>6. LearnedOK' /\ RegionLearned'
  BY DEF FetchAnswered, Goto, LearnedOK, RegionLearned, server, timers
<1>7. PagesOK' /\ PartsListed'
  BY DEF FetchAnswered, Goto, PagesOK, PartsListed, listing
<1>8. NoTimerStranded'
  BY DEF FetchAnswered, NoTimerStranded, timers
<1> QED
  BY <1>1, <1>2, <1>3, <1>4, <1>5, <1>6, <1>7, <1>8

LEMMA StoreKeeps ==
  ASSUME IInv, NEW c \in Call, Store(c)
  PROVE  IInv'
<1> USE DEF IInv
<1>1. TypeOK'
  BY DEF Store, Goto, Cached, Misled, TypeOK, Stages, server, listing, attempt,
     timers
<1>2. JobsOK'
  BY DEF Store, Goto, JobsOK, Trying, listing, attempt, timers
<1>3. TimersOK'
  BY DEF Store, TimersOK, timers
<1>4. ResultsOK' /\ NeverEmptyHanded'
  BY DEF Store, Goto, ResultsOK, NeverEmptyHanded, listing, attempt, timers
<1>5. LocatedOK'
  BY DEF Store, Goto, Cached, LocatedOK, attempt
<1>6. LearnedOK' /\ RegionLearned'
  <2>1. /\ at[c] = "store" /\ at'[c] = "send" /\ cache' = loc[c]
        /\ \A d \in Call \ {c} : at'[d] = at[d]
        /\ UNCHANGED <<server, attempt, timers>>
    BY DEF Store, Goto, Cached, TypeOK
  <2>2. \A d \in Call : troubled'[d] <=>
          troubled[d] \/ (d # c /\ at[d] \in Trying /\ loc[c] # home)
    BY DEF Store, Misled
  <2>3. \A d \in Call : timer[d] # None => sent[timer[d]] \in Nat /\ at[d] \in Trying
    BY RetryAssumption DEF TypeOK, JobsOK
  <2>4. timer[c] # None /\ ~troubled[c] => ~(sent[timer[c]] > 1)
    BY <2>1, <2>3 DEF LearnedOK
  <2>5. LearnedOK'
    BY <2>1, <2>2, <2>3, <2>4 DEF LearnedOK, server, attempt, timers
  <2>6. RegionLearned'
    BY <2>1, <2>2 DEF RegionLearned, attempt
  <2> QED
    BY <2>5, <2>6
<1>7. PagesOK' /\ PartsListed'
  BY DEF Store, Goto, PagesOK, PartsListed, listing, attempt
<1>8. NoTimerStranded'
  BY DEF Store, NoTimerStranded, attempt, timers
<1> QED
  BY <1>1, <1>2, <1>3, <1>4, <1>5, <1>6, <1>7, <1>8

LEMMA SendRefusedKeeps ==
  ASSUME IInv, NEW c \in Call, SendRefused(c)
  PROVE  IInv'
<1> USE DEF IInv
<1>1. TypeOK'
  BY DEF SendRefused, Goto, TypeOK, Stages, Results, server, listing, timers
<1>2. JobsOK'
  BY DEF SendRefused, Goto, JobsOK, Trying, listing, timers
<1>3. TimersOK'
  BY DEF SendRefused, TimersOK, timers
<1>4. ResultsOK' /\ NeverEmptyHanded'
  BY DEF SendRefused, Goto, ResultsOK, NeverEmptyHanded, TypeOK, listing, timers
<1>5. LocatedOK'
  BY DEF SendRefused, Goto, LocatedOK
<1>6. LearnedOK' /\ RegionLearned'
  BY DEF SendRefused, Goto, LearnedOK, RegionLearned, TypeOK, server,
     timers
<1>7. PagesOK' /\ PartsListed'
  BY DEF SendRefused, Goto, PagesOK, PartsListed, listing
<1>8. NoTimerStranded'
  BY DEF SendRefused, NoTimerStranded, timers
<1> QED
  BY <1>1, <1>2, <1>3, <1>4, <1>5, <1>6, <1>7, <1>8

LEMMA AskSignKeeps ==
  ASSUME IInv, NEW c \in Call, AskSign(c)
  PROVE  IInv'
<1> USE DEF IInv
<1>1. TypeOK'
  BY DEF AskSign, Goto, TypeOK, Stages, server, attempt, timers
<1>2. JobsOK'
  BY DEF AskSign, Goto, JobsOK, Trying, TypeOK, attempt, timers
<1>3. TimersOK'
  BY DEF AskSign, TimersOK, timers
<1>4. ResultsOK' /\ NeverEmptyHanded'
  BY DEF AskSign, Goto, ResultsOK, NeverEmptyHanded, attempt, timers
<1>5. LocatedOK'
  BY DEF AskSign, Goto, LocatedOK, attempt
<1>6. LearnedOK' /\ RegionLearned'
  BY DEF AskSign, Goto, LearnedOK, RegionLearned, JobsOK, Trying, server,
     attempt, timers
<1>7. PagesOK' /\ PartsListed'
  BY DEF AskSign, Goto, PagesOK, PartsListed, attempt
<1>8. NoTimerStranded'
  BY DEF AskSign, NoTimerStranded, attempt, timers
<1> QED
  BY <1>1, <1>2, <1>3, <1>4, <1>5, <1>6, <1>7, <1>8

LEMMA SignEndsKeeps ==
  ASSUME IInv, NEW c \in Call, SignEnds(c)
  PROVE  IInv'
<1> USE DEF IInv
<1>1. TypeOK'
  BY PartsAssumption DEF SignEnds, Goto, CallEnds, Forgets, TypeOK, Stages,
     server, timers
<1>2. JobsOK'
  BY DEF SignEnds, Goto, CallEnds, JobsOK, Trying, TypeOK, timers
<1>3. TimersOK'
  BY DEF SignEnds, TimersOK, timers
<1>4. ResultsOK' /\ NeverEmptyHanded'
  BY NoneAssumption DEF SignEnds, Goto, CallEnds, Forgets, ResultsOK,
     NeverEmptyHanded, timers
<1>5. LocatedOK'
  BY DEF SignEnds, Goto, CallEnds, Forgets, LocatedOK
<1>6. LearnedOK' /\ RegionLearned'
  BY DEF SignEnds, Goto, CallEnds, Forgets, LearnedOK, RegionLearned, TypeOK,
     server, timers
<1>7. PagesOK' /\ PartsListed'
  BY DEF SignEnds, Goto, CallEnds, Forgets, PagesOK, PartsListed, TypeOK
<1>8. NoTimerStranded'
  BY DEF SignEnds, NoTimerStranded, timers
<1> QED
  BY <1>1, <1>2, <1>3, <1>4, <1>5, <1>6, <1>7, <1>8

LEMMA AttemptsOverKeeps ==
  ASSUME IInv, NEW c \in Call, AttemptsOver(c)
  PROVE  IInv'
<1> USE DEF IInv
<1>1. timer[c] \in Timer
  BY DEF AttemptsOver, JobsOK, Trying, TypeOK
<1>2. /\ ReturnTypes /\ JobsOK' /\ TimersOK' /\ NoTimerStranded'
      /\ OthersKept(c) /\ at'[c] = "back" /\ timer'[c] = None
  BY <1>1, NoneAssumption, ReturnsKeeps DEF AttemptsOver, listing
<1>3. /\ err[c] \/ res[c] # None
      /\ res[c] # "page"
      /\ res[c] = "refused" => troubled[c]
  <2>1. at[c] = "wait" /\ sent[timer[c]] > 1
    BY <1>1, RetryAssumption DEF AttemptsOver, TimersOK, TypeOK
  <2>2. sent[timer[c]] \in Nat
    BY <1>1, RetryAssumption DEF TypeOK
  <2> QED
    BY <1>1, <2>1, <2>2, NoneAssumption DEF ResultsOK, LearnedOK
<1>4. TypeOK'
  BY <1>2 DEF AttemptsOver, ReturnTypes, TypeOK, server, listing
<1>5. UNCHANGED <<home, cache, job, marker, listed, before, res, err, page, more, hint, troubled>>
  BY DEF AttemptsOver, server, listing
<1>6. ResultsOK' /\ NeverEmptyHanded'
  BY <1>2, <1>3, <1>5 DEF OthersKept, ResultsOK, NeverEmptyHanded, JobsOK, Trying
<1>7. LocatedOK' /\ LearnedOK' /\ RegionLearned'
  BY <1>2, <1>3, <1>5 DEF OthersKept, LocatedOK, LearnedOK, RegionLearned
<1>8. PagesOK' /\ PartsListed'
  BY <1>2, <1>3, <1>5 DEF OthersKept, PagesOK, PartsListed, AttemptsOver
<1> QED
  BY <1>2, <1>4, <1>6, <1>7, <1>8

LEMMA FetchFailsKeeps ==
  ASSUME IInv, NEW c \in Call, FetchFails(c)
  PROVE  IInv'
<1> USE DEF IInv
<1>1. /\ at[c] = "fetch" /\ Fault(c) /\ res[c] # "page"
      /\ UNCHANGED <<cache, listing, page, more, hint>>
  BY DEF FetchFails, ResultsOK
<1>2. job[c] = "list" => timer[c] # None
  BY <1>1 DEF JobsOK, Trying
<1>3. CASE job[c] = "list" /\ FetchRetried(c)
  <2>1. /\ TriesAgain(c) /\ err' = [err EXCEPT ![c] = TRUE]
        /\ res' = [res EXCEPT ![c] = res[c]]
    BY <1>3 DEF FetchRetried, TypeOK
  <2> QED
    BY <1>1, <1>2, <1>3, <2>1, FailureKeeps
<1>4. CASE job[c] = "list" /\ Returns(c) /\ res' = [res EXCEPT ![c] = None]
           /\ err' = [err EXCEPT ![c] = TRUE]
  BY <1>1, <1>2, <1>4, FailureKeeps
<1>5. CASE job[c] = "sign" /\ Goto(c, "back") /\ err' = [err EXCEPT ![c] = TRUE]
           /\ UNCHANGED <<timer, timers, loc, res>>
  <2>1. /\ UNCHANGED <<home, parts, moves, cache, job, marker, listed, before, page, more,
                       hint, timer, loc, res, run, sent, closed>>
        /\ faults' \in 0..MaxFaults /\ troubled' = [troubled EXCEPT ![c] = TRUE]
        /\ at' = [at EXCEPT ![c] = "back"] /\ err' = [err EXCEPT ![c] = TRUE]
    BY <1>1, <1>5, BoundsAssumption DEF Fault, Goto, listing, timers, TypeOK
  <2>2. at'[c] = "back" /\ err'[c] /\ timer[c] = None
    BY <1>5, <2>1 DEF JobsOK, TypeOK
  <2>3. \A d \in Call : d # c =>
          at'[d] = at[d] /\ err'[d] = err[d] /\ troubled'[d] = troubled[d]
    BY <2>1 DEF TypeOK
  <2>4. TypeOK'
    BY <2>1 DEF TypeOK, Stages
  <2>5. JobsOK' /\ TimersOK' /\ NoTimerStranded'
    BY <1>5, <2>1, <2>2, <2>3 DEF JobsOK, Trying, TimersOK, NoTimerStranded
  <2>6. ResultsOK' /\ NeverEmptyHanded'
    BY <1>1, <2>1, <2>2, <2>3 DEF ResultsOK, NeverEmptyHanded
  <2>7. LocatedOK' /\ LearnedOK' /\ RegionLearned'
    BY <2>1, <2>2, <2>3 DEF LocatedOK, LearnedOK, RegionLearned
  <2>8. PagesOK' /\ PartsListed'
    BY <1>1, <2>1, <2>2, <2>3 DEF PagesOK, PartsListed
  <2> QED
    BY <2>4, <2>5, <2>6, <2>7, <2>8
<1> QED
  BY <1>3, <1>4, <1>5 DEF FetchFails

LEMMA SendServedKeeps ==
  ASSUME IInv, NEW c \in Call, SendServed(c)
  PROVE  IInv'
<1> USE DEF IInv
<1> DEFINE got == PageAfter(marker[c])
           left == After(marker[c])
<1>1. timer[c] # None
  BY DEF SendServed, JobsOK, Trying
<1>2. /\ ReturnTypes /\ JobsOK' /\ TimersOK' /\ NoTimerStranded'
      /\ OthersKept(c) /\ at'[c] = "back" /\ timer'[c] = None
  BY <1>1, ReturnsKeeps DEF SendServed, listing
<1>3. /\ got \subseteq left /\ left \subseteq parts
      /\ got # left => got # {}
      /\ \A p \in left, q \in got : p <= q => p \in got
  BY PageIsNext DEF TypeOK
<1>4. /\ res' = [res EXCEPT ![c] = "page"] /\ err' = [err EXCEPT ![c] = FALSE]
      /\ page' = [page EXCEPT ![c] = got] /\ more' = [more EXCEPT ![c] = got # left]
      /\ UNCHANGED <<home, parts, moves, faults, cache, job, marker, listed, before, hint, troubled>>
  BY DEF SendServed, server, listing
<1> HIDE DEF got, left
<1>5. TypeOK'
  BY <1>2, <1>3, <1>4 DEF ReturnTypes, TypeOK, Results
<1>6. ResultsOK' /\ NeverEmptyHanded'
  BY <1>2, <1>4, NoneAssumption DEF OthersKept, ResultsOK, NeverEmptyHanded,
     JobsOK, Trying, TypeOK,
     SendServed
<1>7. LocatedOK' /\ LearnedOK' /\ RegionLearned'
  BY <1>2, <1>4 DEF OthersKept, LocatedOK, LearnedOK, RegionLearned, TypeOK
<1>8. ASSUME NEW p \in before[c], p > marker[c], got # left => p <= MaxOf(got)
      PROVE  p \in got
  <2>1. p \in left
    BY <1>8 DEF left, After, TypeOK
  <2>2. CASE got = left
    BY <2>1, <2>2
  <2>3. CASE got # left
    <3>1. got \in SUBSET (1..LastPart) /\ got # {}
      BY <1>3, <2>3 DEF TypeOK
    <3>2. MaxOf(got) \in got
      BY <3>1, MaxOfSet
    <3> QED
      BY <1>3, <1>8, <2>1, <2>3, <3>2
  <2> QED
    BY <2>2, <2>3
<1>9. PagesOK'
  <2>1. /\ res'[c] = "page" /\ page'[c] = got /\ (more'[c] <=> got # left)
        /\ \A d \in Call \ {c} : /\ res'[d] = res[d] /\ page'[d] = page[d]
                                /\ more'[d] = more[d]
    BY <1>4 DEF TypeOK
  <2>2. at[c] # "answer"
    BY DEF SendServed
  <2> QED
    BY <1>2, <1>3, <1>4, <1>8, <2>1, <2>2 DEF OthersKept, PagesOK
<1>10. PartsListed'
  BY <1>2, <1>4 DEF OthersKept, PartsListed
<1> QED
  BY <1>2, <1>5, <1>6, <1>7, <1>9, <1>10

LEMMA SendFailsKeeps ==
  ASSUME IInv, NEW c \in Call, SendFails(c)
  PROVE  IInv'
<1>1. PICK answered \in BOOLEAN :
        /\ res' = [res EXCEPT ![c] = IF answered THEN "failed" ELSE None]
        /\ err' = [err EXCEPT ![c] = ~answered]
  BY DEF SendFails
<1> DEFINE rc == IF answered THEN "failed" ELSE None
<1>2. ~answered \/ rc # None
  BY NoneAssumption
<1>3. timer[c] # None /\ res[c] # "page"
  BY DEF SendFails, IInv, JobsOK, Trying, ResultsOK
<1>4. rc \in {None, "failed"} \cup {res[c]} /\ (~answered) \in BOOLEAN
  OBVIOUS
<1>5. Fault(c) /\ (TriesAgain(c) \/ Returns(c)) /\ UNCHANGED <<cache, listing, page, more, hint>>
  BY DEF SendFails
<1> QED
  BY <1>1, <1>2, <1>3, <1>4, <1>5, FailureKeeps

LEMMA CorrectKeeps ==
  ASSUME IInv, NEW c \in Call, Correct(c)
  PROVE  IInv'
<1> USE DEF IInv
<1>1. /\ UNCHANGED <<home, parts, moves, faults, job, marker, listed, before, res, err,
                     page, more, hint>>
      /\ at[c] = "correct" /\ res[c] = "refused" /\ cache # None /\ job[c] = "list"
  BY DEF Correct, server, listing, ResultsOK, LocatedOK, JobsOK
<1>2. timer[c] # None
  BY <1>1 DEF JobsOK, Trying
<1>3. CASE hint[c] # None /\ Cached(hint[c]) /\ TriesAgain(c) /\ troubled' = Misled(c, hint[c])
  <2>1. /\ cache' = hint[c] /\ UNCHANGED <<timer, run, sent, closed>>
        /\ at' = [at EXCEPT ![c] = "wait"] /\ loc' = [loc EXCEPT ![c] = None]
    BY <1>3 DEF Cached, TriesAgain, Goto, timers
  <2>2. \A d \in Call : troubled'[d] <=>
          troubled[d] \/ (d # c /\ at[d] \in Trying /\ hint[c] # home)
    BY <1>3 DEF Misled
  <2>3. at'[c] = "wait" /\ \A d \in Call : d # c => at'[d] = at[d] /\ loc'[d] = loc[d]
    BY <2>1 DEF TypeOK
  <2>4. TypeOK'
    <3>1. troubled' \in [Call -> BOOLEAN]
      BY <1>3 DEF Misled, TypeOK
    <3> QED
      BY <1>1, <2>1, <3>1 DEF TypeOK, Stages
  <2>5. JobsOK' /\ TimersOK' /\ NoTimerStranded'
    BY <1>1, <1>2, <2>1, <2>3 DEF JobsOK, Trying, TimersOK, NoTimerStranded
  <2>6. ResultsOK' /\ NeverEmptyHanded'
    BY <1>1, <2>1, <2>3, NoneAssumption DEF ResultsOK, NeverEmptyHanded
  <2>7. LocatedOK'
    BY <1>3, <2>1, <2>3 DEF LocatedOK
  <2>8. LearnedOK'
    <3>1. ~troubled[c] => sent[timer[c]] <= 1 /\ hint[c] = home
      BY <1>1, <1>2, <1>3 DEF LearnedOK
    <3>2. \A d \in Call : timer[d] # None => at[d] \in Trying
      BY DEF JobsOK
    <3> QED
      BY <1>1, <2>1, <2>2, <2>3, <3>1, <3>2 DEF LearnedOK
  <2>9. RegionLearned'
    BY <1>1, <2>2, <2>3 DEF RegionLearned
  <2>10. PagesOK' /\ PartsListed'
    BY <1>1, <2>3 DEF PagesOK, PartsListed
  <2> QED
    BY <2>4, <2>5, <2>6, <2>7, <2>8, <2>9, <2>10
<1>4. CASE hint[c] = None /\ Returns(c) /\ UNCHANGED <<cache, troubled>>
  <2>1. /\ ReturnTypes /\ JobsOK' /\ TimersOK' /\ NoTimerStranded'
        /\ OthersKept(c) /\ at'[c] = "back" /\ timer'[c] = None
    BY <1>1, <1>2, <1>4, ReturnsKeeps
  <2>2. TypeOK'
    BY <1>1, <1>4, <2>1 DEF TypeOK, ReturnTypes
  <2>3. ResultsOK' /\ NeverEmptyHanded'
    BY <1>1, <2>1, NoneAssumption DEF OthersKept, ResultsOK, NeverEmptyHanded,
       JobsOK, Trying
  <2>4. LocatedOK' /\ LearnedOK' /\ RegionLearned'
    BY <1>1, <1>4, <2>1 DEF OthersKept, LocatedOK, LearnedOK, RegionLearned
  <2>5. PagesOK' /\ PartsListed'
    BY <1>1, <2>1 DEF OthersKept, PagesOK, PartsListed
  <2> QED
    BY <2>1, <2>2, <2>3, <2>4, <2>5
<1> QED
  BY <1>1, <1>3, <1>4 DEF Correct

-----------------------------------------------------------------------------
LEMMA NextIInv == IInv /\ [Next]_vars => IInv'
<1> SUFFICES ASSUME IInv, [Next]_vars PROVE IInv'
  OBVIOUS
<1>1. CASE Upload
  BY <1>1, UploadKeeps
<1>2. CASE Move
  BY <1>2, MoveKeeps
<1>3. ASSUME NEW c \in Call, Serve(c) PROVE IInv'
  <2>1. CASE AskList(c)
    BY <2>1, AskListKeeps
  <2>2. CASE StartQuery(c)
    BY <2>2, StartQueryKeeps
  <2>3. CASE ListPage(c)
    BY <2>3, ListPageKeeps
  <2>4. CASE CallReturns(c)
    BY <2>4, CallReturnsKeeps
  <2>5. CASE Attempt(c)
    BY <2>5, AttemptKeeps
  <2>6. CASE Locate(c)
    BY <2>6, LocateKeeps
  <2>7. CASE FetchAnswered(c)
    BY <2>7, FetchAnsweredKeeps
  <2>8. CASE Store(c)
    BY <2>8, StoreKeeps
  <2>9. CASE SendRefused(c)
    BY <2>9, SendRefusedKeeps
  <2>10. CASE AskSign(c)
    BY <2>10, AskSignKeeps
  <2>11. CASE SignEnds(c)
    BY <2>11, SignEndsKeeps
  <2>12. CASE AttemptsOver(c)
    BY <2>12, AttemptsOverKeeps
  <2>13. CASE FetchFails(c)
    BY <2>13, FetchFailsKeeps
  <2>14. CASE SendServed(c)
    BY <2>14, SendServedKeeps
  <2>15. CASE SendFails(c)
    BY <2>15, SendFailsKeeps
  <2>16. CASE Correct(c)
    BY <2>16, CorrectKeeps
  <2> QED
    BY <1>3, <2>1, <2>2, <2>3, <2>4, <2>5, <2>6, <2>7, <2>8, <2>9,
       <2>10, <2>11, <2>12, <2>13, <2>14, <2>15, <2>16
       DEF Serve
<1>4. ASSUME NEW t \in Timer, TimerStep(t) PROVE IInv'
  BY <1>4, TimerWakesKeeps, TimerStopsKeeps DEF TimerStep
<1>5. CASE UNCHANGED vars
  BY <1>5 DEF vars, server, listing, attempt, timers, IInv, TypeOK, JobsOK,
     TimersOK, ResultsOK, LocatedOK, LearnedOK, PagesOK, NeverEmptyHanded,
     RegionLearned, PartsListed, NoTimerStranded
<1> QED
  BY <1>1, <1>2, <1>3, <1>4, <1>5 DEF Next

(* The strengthened invariant, for any number of calls and timers.         *)
THEOREM Invariance == Spec => []IInv
<1> QED
  BY InitIInv, NextIInv, PTL DEF Spec

(* The variables keep their types; what a call has collected the server has. *)
THEOREM TypeCorrect == Spec => []TypeOK
<1>1. IInv => TypeOK
  BY DEF IInv
<1> QED
  BY <1>1, Invariance, PTL

(* executeMethod (retry.go, api.go) never returns neither a response nor an *)
(* error, however its attempts went.                                       *)
THEOREM NeverEmpty == Spec => []NeverEmptyHanded
<1>1. IInv => NeverEmptyHanded
  BY DEF IInv
<1> QED
  BY <1>1, Invariance, PTL

(* A refusal that names the region is made up for by the next attempt, when *)
(* nothing gets in the way (executeMethod, api.go:1065-1081).              *)
THEOREM RegionIsLearned == Spec => []RegionLearned
<1>1. IInv => RegionLearned
  BY DEF IInv
<1> QED
  BY <1>1, Invariance, PTL

(* The pages of ListObjectParts together leave no part out (api-list.go).  *)
THEOREM AllPartsListed == Spec => []PartsListed
<1>1. IInv => PartsListed
  BY DEF IInv
<1> QED
  BY <1>1, Invariance, PTL

(* No goroutine of a retry timer is left offering attempts to nobody       *)
(* (retry.go).                                                             *)
THEOREM NoStrandedTimer == Spec => []NoTimerStranded
<1>1. IInv => NoTimerStranded
  BY DEF IInv
<1> QED
  BY <1>1, Invariance, PTL
=============================================================================
