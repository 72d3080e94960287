--------------------------- MODULE SessionProofs ---------------------------
(***************************************************************************)
(* Proofs about Session: types, what a refresh is worth, and that tokens   *)
(* implement leases, for any accounts, requests and times to live.         *)
(***************************************************************************)
EXTENDS Session, TLAPS

(* A token a request came with stays, while it is good, among those that   *)
(* clients hold.                                                           *)
GivenHeld == \A r \in Request : given[r].left >= 0 => given[r] \in held

(* Who a request comes from is known once it has been let in, and not      *)
(* before.                                                                 *)
LetInAt == {"analyze", "token", "refreshToken", "answer", "serve"}
StagesOK == \A r \in Request :
  /\ at[r] \in {"idle", "auth"} => cred[r] = None
  /\ at[r] = "get" => cred[r] \in Credential
  /\ at[r] \in LetInAt => identity[r] \in Account
  /\ at[r] \notin LetInAt => identity[r] = None
  /\ at[r] = "analyze" => identity[r] = given[r].who

(* The tokens minted so far are for that account. *)
MintedOK == \A r \in Request :
  /\ at[r] \in {"refreshToken", "answer"} => token[r].who = identity[r]
  /\ at[r] = "answer" => /\ refresh[r].who = identity[r]
                         /\ refresh[r].left >= given[r].left

IInv == TypeOK /\ GivenHeld /\ StagesOK /\ MintedOK

LEMMA InitIInv == Init => IInv
BY ExpireAssumption, NoneAssumption DEF Init, IInv, TypeOK, GivenHeld, StagesOK,
   MintedOK, LetInAt, Stages, Goals, Token, ShortToken, NoToken, Left

LEMMA LaterToken ==
  ASSUME NEW t \in Token
  PROVE  /\ Later(t) \in Token
         /\ t \in ShortToken => Later(t) \in ShortToken
         /\ Later(t).who = t.who
         /\ t.left > 0 => Later(t).left = t.left - 1
         /\ Later(t).left >= 0 => t.left > 0
         /\ \A s \in Token : s.left >= t.left => Later(s).left >= Later(t).left
BY ExpireAssumption DEF Later, Token, ShortToken, Left

LEMMA GoodToken ==
  ASSUME NEW t \in Token, t.who \in Account, t.left >= 0
  PROVE  t \in [who : Account, left : 0..RefreshTokenExpire]
BY ExpireAssumption DEF Token, Left

(* A request that arrives. *)
LEMMA ArriveKeeps ==
  ASSUME IInv, NEW r \in Request, AskLogin(r) \/ AskWithToken(r)
  PROVE  IInv'
<1> USE DEF IInv
<1>1. PICK stage \in {"get", "auth"}, g \in Goals, c \in Credential \cup {None},
           t \in held \cup Old \cup {NoToken} :
        /\ Arrive(r, stage, g, c, t)
        /\ stage = "get" <=> c # None
  BY NoneAssumption DEF AskLogin, AskWithToken, Goals
<1>2. t \in Token /\ (t.left >= 0 => t \in held)
  BY ExpireAssumption DEF TypeOK, Old, NoToken, Token, Left
<1>3. TypeOK'
  BY <1>1, <1>2 DEF Arrive, TypeOK, Stages
<1>4. GivenHeld'
  BY <1>1, <1>2 DEF Arrive, GivenHeld, TypeOK
<1>5. StagesOK'
  BY <1>1 DEF Arrive, StagesOK, TypeOK, LetInAt
<1>6. MintedOK'
  BY <1>1 DEF Arrive, MintedOK, TypeOK
<1> QED
  BY <1>3, <1>4, <1>5, <1>6

(* A request that ends; clients may have got tokens for its account. *)
LEMMA ReturnKeeps ==
  ASSUME IInv, NEW r \in Request, Return(r), UNCHANGED row,
         held \subseteq held',
         held' \subseteq [who : Account, left : 0..RefreshTokenExpire]
  PROVE  IInv'
<1> USE DEF IInv
<1>0. NoToken \in ShortToken /\ NoToken \in Token /\ ~(NoToken.left >= 0)
  BY ExpireAssumption DEF NoToken, Token, ShortToken, Left
<1>1. TypeOK'
  BY <1>0 DEF Return, TypeOK, Stages, Goals
<1>2. GivenHeld'
  BY <1>0 DEF Return, GivenHeld, TypeOK
<1>3. StagesOK'
  BY DEF Return, StagesOK, TypeOK, LetInAt
<1>4. MintedOK'
  BY DEF Return, MintedOK, TypeOK
<1> QED
  BY <1>1, <1>2, <1>3, <1>4

(* A request that goes on. *)
LEMMA GoesOnKeeps ==
  ASSUME IInv, NEW r \in Request, NEW stage \in Stages \ {"idle", "get", "auth"},
         Goto(r, stage), UNCHANGED <<row, held>>,
         NEW a \in Account, NEW t \in ShortToken, NEW u \in Token,
         identity' = [identity EXCEPT ![r] = a],
         token' = [token EXCEPT ![r] = t],
         refresh' = [refresh EXCEPT ![r] = u],
         stage = "analyze" => a = given[r].who,
         stage \in {"refreshToken", "answer"} => t.who = a,
         stage = "answer" => u.who = a /\ u.left >= given[r].left
  PROVE  IInv'
<1> USE DEF IInv
<1>1. TypeOK'
  BY DEF Goto, TypeOK, Stages
<1>2. GivenHeld'
  BY DEF Goto, GivenHeld
<1>3. StagesOK'
  BY DEF Goto, StagesOK, TypeOK, LetInAt, Stages
<1>4. MintedOK'
  BY DEF Goto, MintedOK, TypeOK
<1> QED
  BY <1>1, <1>2, <1>3, <1>4

LEMMA GoesOnToMint ==
  ASSUME IInv, NEW r \in Request, NEW stage \in {"token", "answer"},
         Goto(r, stage), UNCHANGED <<row, held, token>>,
         NEW a \in Account, NEW u \in Token,
         identity' = [identity EXCEPT ![r] = a],
         refresh' = [refresh EXCEPT ![r] = u],
         stage = "answer" => /\ token[r].who = a
                             /\ u.who = a /\ u.left >= given[r].left
  PROVE  IInv'
<1>1. stage \in Stages \ {"idle", "get", "auth"} /\ stage # "analyze"
  BY DEF Stages
<1>2. token' = [token EXCEPT ![r] = token[r]] /\ token[r] \in ShortToken
  BY DEF IInv, TypeOK
<1>3. stage \in {"refreshToken", "answer"} => token[r].who = a
  OBVIOUS
<1> QED
  BY <1>1, <1>2, <1>3, GoesOnKeeps

(* How the steps of a request that go on look alike. *)
LEMMA ServeKeeps ==
  ASSUME IInv, NEW r \in Request,
         LoginGet(r) \/ Handle(r) \/ Analyze(r) \/ Mint(r) \/ MintRefresh(r)
  PROVE  IInv'
<1> USE DEF IInv
<1>0. /\ identity = [identity EXCEPT ![r] = identity[r]]
      /\ token = [token EXCEPT ![r] = token[r]]
      /\ refresh = [refresh EXCEPT ![r] = refresh[r]]
      /\ token[r] \in ShortToken /\ refresh[r] \in Token /\ given[r] \in Token
  BY DEF TypeOK
<1>1. CASE Return(r) /\ UNCHANGED <<row, held>>
  BY <1>1, ReturnKeeps DEF TypeOK
<1>2. CASE LoginGet(r) /\ ~Return(r)
  <2>1. PICK a \in Account : identity' = [identity EXCEPT ![r] = a]
    BY <1>2 DEF LoginGet
  <2> QED
    <3>1. /\ Goto(r, "token") /\ UNCHANGED <<row, held, token, refresh>>
          /\ refresh' = [refresh EXCEPT ![r] = refresh[r]]
      BY <1>0, <1>2 DEF LoginGet
    <3> HIDE DEF IInv
    <3> QED
      BY <1>0, <2>1, <3>1, GoesOnToMint
<1>3. CASE Handle(r) /\ ~Return(r)
  <2>1. given[r].who \in Account
    BY <1>0, <1>3 DEF Handle, AnalyzeToken, GivenHeld, TypeOK
  <2> QED
    BY <1>0, <1>3, <2>1, GoesOnKeeps DEF Handle, Stages
<1>4. CASE Analyze(r) /\ ~Return(r)
  <2>1. given[r].who \in Account
    BY <1>4 DEF Analyze, StagesOK, LetInAt
  <2> QED
    BY <1>0, <1>4, <2>1, GoesOnKeeps DEF Analyze, Stages
<1>5. CASE Mint(r)
  <2>1. at[r] = "token" /\ identity[r] \in Account
    BY <1>5 DEF Mint, StagesOK, LetInAt
  <2>2. /\ GenerateToken(identity[r], TokenExpire) \in ShortToken
        /\ GenerateToken(identity[r], TokenExpire).who = identity[r]
    BY <2>1, ExpireAssumption DEF GenerateToken, Token, ShortToken, Left
  <2>3. TypeOK' /\ GivenHeld'
    BY <1>5, <2>2 DEF Mint, Goto, TypeOK, GivenHeld, Stages
  <2>4. StagesOK'
    BY <1>5, <2>1 DEF Mint, Goto, StagesOK, TypeOK, LetInAt
  <2>5. MintedOK'
    BY <1>5, <2>2 DEF Mint, Goto, MintedOK, TypeOK
  <2> QED
    BY <2>3, <2>4, <2>5
<1>6. CASE MintRefresh(r)
  <2>1. identity[r] \in Account /\ token[r].who = identity[r]
    BY <1>6 DEF MintRefresh, StagesOK, MintedOK, LetInAt
  <2>2. /\ GenerateToken(identity[r], RefreshTokenExpire) \in Token
        /\ GenerateToken(identity[r], RefreshTokenExpire).who = identity[r]
        /\ GenerateToken(identity[r], RefreshTokenExpire).left >= given[r].left
    BY <1>0, <2>1, ExpireAssumption DEF GenerateToken, Token, Left
  <2> QED
    <3>1. /\ Goto(r, "answer") /\ UNCHANGED <<row, held, identity, token>>
          /\ refresh' = [refresh EXCEPT ![r] =
                            GenerateToken(identity[r], RefreshTokenExpire)]
      BY <1>6 DEF MintRefresh
    <3>2. identity' = [identity EXCEPT ![r] = identity[r]]
      BY <1>0, <3>1
    <3> HIDE DEF IInv
    <3> QED
      BY <2>1, <2>2, <3>1, <3>2, GoesOnToMint
<1> QED
  BY <1>1, <1>2, <1>3, <1>4, <1>5, <1>6 DEF LoginGet, Handle, Analyze

LEMMA TickKeeps ==
  ASSUME IInv, Tick
  PROVE  IInv'
<1> USE DEF IInv, Tick
<1>0. /\ held \subseteq Token
      /\ \A r \in Request : given[r] \in Token /\ token[r] \in ShortToken
                            /\ token[r] \in Token /\ refresh[r] \in Token
  BY DEF TypeOK, Token, ShortToken, Left
<1>1. TypeOK'
  <2>1. held' \subseteq [who : Account, left : 0..RefreshTokenExpire]
    <3>1. ASSUME NEW t \in held, t.left > 0
          PROVE  Later(t) \in [who : Account, left : 0..RefreshTokenExpire]
      <4>1. Later(t) \in Token /\ Later(t).who = t.who /\ Later(t).left = t.left - 1
        BY <1>0, <3>1, LaterToken
      <4>2. t.who \in Account /\ t.left - 1 >= 0
        BY <3>1, ExpireAssumption DEF TypeOK
      <4> QED
        BY <4>1, <4>2, GoodToken
    <3> QED
      BY <3>1
  <2> QED
    BY <1>0, <2>1, LaterToken DEF TypeOK
<1>2. GivenHeld'
  <2> SUFFICES ASSUME NEW r \in Request, given'[r].left >= 0
               PROVE  given'[r] \in held'
    BY DEF GivenHeld
  <2>1. given[r].left > 0 /\ given'[r] = Later(given[r])
    BY <1>0, LaterToken
  <2>2. given[r] \in held
    BY <1>0, <2>1 DEF GivenHeld, Token, Left
  <2> QED
    BY <2>1, <2>2
<1>3. StagesOK'
  BY <1>0, LaterToken DEF StagesOK, TypeOK
<1>4. MintedOK'
  BY <1>0, LaterToken DEF MintedOK
<1> QED
  BY <1>1, <1>2, <1>3, <1>4

(* What an answer hands over are tokens of an account that are good. *)
LEMMA AnswerKeeps ==
  ASSUME IInv, NEW r \in Request, Answer(r)
  PROVE  IInv'
<1> USE DEF IInv
<1>1. \A t \in {token[r], refresh[r]} : t \in Token /\ t.who \in Account
  BY DEF Answer, TypeOK, StagesOK, MintedOK, LetInAt, ShortToken
<1>2. held' \subseteq [who : Account, left : 0..RefreshTokenExpire]
  <2>1. \A t \in {token[r], refresh[r]} :
          AnalyzeToken(t) => t \in [who : Account, left : 0..RefreshTokenExpire]
    BY <1>1, GoodToken DEF AnalyzeToken
  <2>2. held \subseteq [who : Account, left : 0..RefreshTokenExpire]
    BY DEF TypeOK
  <2> QED
    BY <2>1, <2>2 DEF Answer
<1> QED
  BY <1>2, ReturnKeeps DEF Answer

LEMMA NextIInv == IInv /\ [Next]_vars => IInv'
<1> SUFFICES ASSUME IInv, [Next]_vars PROVE IInv'
  OBVIOUS
<1>1. ASSUME NEW r \in Request, Step(r) PROVE IInv'
  <2>1. CASE AskLogin(r) \/ AskWithToken(r)
    BY <2>1, ArriveKeeps
  <2>2. CASE LoginGet(r) \/ Handle(r) \/ Analyze(r) \/ Mint(r) \/ MintRefresh(r)
    BY <2>2, ServeKeeps
  <2>3. CASE Answer(r)
    BY <2>3, AnswerKeeps
  <2>4. CASE Serve(r) \/ Fail(r)
    BY <2>4, ReturnKeeps DEF Serve, Fail, IInv, TypeOK
  <2> QED
    BY <1>1, <2>1, <2>2, <2>3, <2>4 DEF Step
<1>2. ASSUME NEW a \in Account, NEW c \in Credential, Register(a, c) PROVE IInv'
  BY <1>2 DEF Register, request, IInv, TypeOK, GivenHeld, StagesOK, MintedOK
<1>3. CASE UNCHANGED vars
  BY <1>3 DEF vars, request, IInv, TypeOK, GivenHeld, StagesOK, MintedOK
<1> QED
  BY <1>1, <1>2, <1>3, TickKeeps DEF Next

THEOREM Invariance == Spec => []IInv
BY InitIInv, NextIInv, PTL DEF Spec

(* Tokens, requests and what clients hold have their types: the token of   *)
(* an answer lasts TokenExpire at most, and whatever a client holds or      *)
(* comes with lasts RefreshTokenExpire at most (define.go 40-41).           *)
THEOREM TypeCorrect == Spec => []TypeOK
<1>1. IInv => TypeOK
  BY DEF IInv
<1> QED
  BY <1>1, Invariance, PTL

(* A refresh (refresh_authorization_logic.go) leaves nobody worse off, for  *)
(* any two lifetimes of which the refresh token's is not the shorter, as    *)
(* ExpireAssumption has it and define.go 40-41 sets them.                   *)
THEOREM RefreshIsWorthIt == Spec => []RefreshNeverShortens
<1>1. IInv => RefreshNeverShortens
  BY DEF IInv, MintedOK, RefreshNeverShortens
<1> QED
  BY <1>1, Invariance, PTL

-----------------------------------------------------------------------------
(* Every step of a session is one of a lease, or none.                     *)

(* The tick at which a user is still signed in, read off one token. *)
LEMMA OpenAt ==
  ASSUME NEW a \in Account
  PROVE  Open[a] = {t \in 0..RefreshTokenExpire :
                      \E s \in held : s.who = a /\ t <= s.left}
BY DEF Open

LEMMA OpenStays == UNCHANGED held => UNCHANGED Open
BY DEF Open

(* A request that moves on within the steps that mint, or outside them.    *)
LEMMA MintingStays ==
  ASSUME IInv, NEW r \in Request, NEW stage \in Stages,
         at' = [at EXCEPT ![r] = stage],
         r \in Minting <=> stage \in {"token", "refreshToken", "answer"}
  PROVE  UNCHANGED Minting
BY DEF IInv, TypeOK, Minting

LEMMA MintingGrows ==
  ASSUME IInv, NEW r \in Request, Goto(r, "token")
  PROVE  Minting' = Minting \cup {r}
BY DEF IInv, TypeOK, Minting, Goto

LEMMA MintingShrinks ==
  ASSUME IInv, NEW r \in Request, Return(r)
  PROVE  Minting' = Minting \ {r}
BY DEF IInv, TypeOK, Minting, Return

(* A request that ends without an answer. *)
LEMMA LeaveStep ==
  ASSUME IInv, NEW r \in Request, Return(r), UNCHANGED <<row, held>>
  PROVE  Sessions!Leave(r)
BY OpenStays, MintingShrinks DEF Return, Sessions!Leave

(* A request that is let in: by its credentials, or by a good token of the *)
(* account, which a client still holds.                                    *)
LEMMA LetInStep ==
  ASSUME IInv, NEW r \in Request, LoginGet(r) \/ Handle(r), ~Return(r)
  PROVE  \E a \in Account : Sessions!LetIn(r, a)
<1> USE DEF IInv
<1>1. UNCHANGED Open
  BY OpenStays DEF LoginGet, Handle
<1>2. CASE LoginGet(r)
  <2>1. cred[r] # None /\ identity[r] = None
    BY <1>2, NoneAssumption DEF LoginGet, StagesOK, LetInAt
  <2> QED
    BY <1>1, <1>2, <2>1, MintingGrows DEF LoginGet, Goto, Sessions!LetIn
<1>3. CASE Handle(r)
  <2>1. cred[r] = None /\ identity[r] = None
    BY <1>3 DEF Handle, StagesOK, LetInAt
  <2>2. given[r].left >= 0 /\ given[r] \in held
    BY <1>3 DEF Handle, AnalyzeToken, GivenHeld
  <2>3. given[r].who \in Account /\ 0 \in Open[given[r].who]
    BY <2>2, OpenAt, ExpireAssumption DEF TypeOK
  <2>4. UNCHANGED Minting
    BY <1>3, MintingStays DEF Handle, Goto, Minting, Stages
  <2> QED
    BY <1>1, <1>3, <2>1, <2>3, <2>4 DEF Handle, Goto, Sessions!LetIn
<1> QED
  BY <1>2, <1>3

(* A refresh that goes on to mint: the token is good, the account's, and   *)
(* held, so that its user is still signed in at the second look.           *)
LEMMA ConfirmStep ==
  ASSUME IInv, NEW r \in Request, Analyze(r), ~Return(r)
  PROVE  Sessions!Confirm(r)
<1> USE DEF IInv
<1>1. /\ identity[r] \in Account /\ identity[r] = given[r].who
      /\ UNCHANGED <<row, held, cred>> /\ identity' = identity
  BY DEF Analyze, Goto, StagesOK, LetInAt, TypeOK
<1>2. given[r].left >= 0 /\ given[r] \in held
  BY DEF Analyze, AnalyzeToken, GivenHeld
<1>3. 0 \in Open[identity[r]]
  BY <1>1, <1>2, OpenAt, ExpireAssumption
<1>4. Minting' = Minting \cup {r}
  BY MintingGrows DEF Analyze
<1> QED
  BY <1>1, <1>3, <1>4, OpenStays, NoneAssumption DEF Sessions!Confirm

(* An answer that reaches its client renews the session for as long as the *)
(* better of its two tokens is good.                                       *)
LEMMA AnswerStep ==
  ASSUME IInv, NEW r \in Request, Answer(r)
  PROVE  Sessions!Leave(r)
<1> USE DEF IInv
<1>1. CASE UNCHANGED held
  BY <1>1, LeaveStep DEF Answer
<1>2. CASE held' = held \cup {t \in {token[r], refresh[r]} : AnalyzeToken(t)}
  <2> DEFINE a == identity[r]
             best == IF token[r].left >= refresh[r].left THEN token[r].left
                                                         ELSE refresh[r].left
  <2>1. /\ a \in Account /\ a # None
        /\ token[r].who = a /\ refresh[r].who = a
        /\ token[r].left \in Left /\ refresh[r].left \in Left
    BY NoneAssumption
       DEF Answer, StagesOK, MintedOK, LetInAt, TypeOK, Token, ShortToken
  <2>2. CASE best < 0
    <3>1. UNCHANGED held
      BY <1>2, <2>1, <2>2 DEF AnalyzeToken, Left
    <3> QED
      BY <1>1, <3>1
  <2>3. CASE best >= 0
    <3>1. best \in 0..RefreshTokenExpire
      BY <2>1, <2>3, ExpireAssumption DEF Left
    <3>2. ASSUME NEW b \in Account, NEW t \in 0..RefreshTokenExpire
          PROVE  (\E s \in held' : s.who = b /\ t <= s.left) <=>
                   \/ \E s \in held : s.who = b /\ t <= s.left
                   \/ b = a /\ t <= best
      BY <1>2, <2>1, <3>1, ExpireAssumption DEF AnalyzeToken, Left
    <3>3. Open' = [Open EXCEPT ![a] = @ \cup 0..best]
      <4>1. 0..best \subseteq 0..RefreshTokenExpire
            /\ \A t \in 0..RefreshTokenExpire : t \in 0..best <=> t <= best
        BY <3>1, ExpireAssumption
      <4>2. ASSUME NEW b \in Account
            PROVE  Open'[b] = IF b = a THEN Open[b] \cup 0..best ELSE Open[b]
        <5>1. Open'[b] = {t \in 0..RefreshTokenExpire :
                            \E s \in held' : s.who = b /\ t <= s.left}
          BY DEF Open
        <5> QED
          BY <3>2, <4>1, <5>1, OpenAt
      <4>3. Open \in [Account -> SUBSET (0..RefreshTokenExpire)]
            /\ Open' = [b \in Account |-> Open'[b]]
        BY DEF Open
      <4> HIDE DEF a, best
      <4> QED
        BY <2>1, <4>2, <4>3
    <3>4. Sessions!Renews(r)
      BY <2>1, <3>1, <3>3 DEF Sessions!Renews, Sessions!Times, Minting, Answer
    <3> QED
      BY <3>4, MintingShrinks DEF Answer, Return, Sessions!Leave
  <2> QED
    BY <2>1, <2>2, <2>3, ExpireAssumption DEF Left
<1> QED
  BY <1>1, <1>2 DEF Answer

LEMMA TickStep ==
  ASSUME IInv, Tick
  PROVE  Sessions!Tick
<1> USE DEF IInv
<1>1. ASSUME NEW a \in Account, NEW t \in 0..RefreshTokenExpire
      PROVE  (\E s \in held' : s.who = a /\ t <= s.left) <=>
               /\ t + 1 \in 0..RefreshTokenExpire
               /\ \E s \in held : s.who = a /\ t + 1 <= s.left
  <2>1. ASSUME NEW s \in held
        PROVE  /\ s.left \in 0..RefreshTokenExpire
               /\ s.left > 0 => Later(s).who = s.who /\ Later(s).left = s.left - 1
    BY ExpireAssumption, LaterToken DEF TypeOK, Token, Left
  <2>2. ASSUME NEW s \in held, s.left > 0 PROVE Later(s) \in held'
    BY <2>2 DEF Tick
  <2>3. ASSUME NEW u \in held' PROVE \E s \in held : s.left > 0 /\ u = Later(s)
    BY DEF Tick
  <2> QED
    BY <2>1, <2>2, <2>3, ExpireAssumption
<1>2. Open' = [a \in Account |-> {t \in 0..RefreshTokenExpire : t + 1 \in Open[a]}]
  BY <1>1 DEF Open
<1> QED
  BY <1>2 DEF Tick, Minting, Sessions!Tick, Sessions!Times

LEMMA NextSimulates == IInv /\ [Next]_vars => [Sessions!Next]_(Sessions!vars)
<1> SUFFICES ASSUME IInv, [Next]_vars PROVE [Sessions!Next]_(Sessions!vars)
  OBVIOUS
<1>1. ASSUME NEW r \in Request, Step(r) PROVE [Sessions!Next]_(Sessions!vars)
  <2>1. CASE AskLogin(r)
    <3>1. cred[r] = None /\ identity[r] = None
      BY <2>1 DEF AskLogin, Arrive, IInv, StagesOK, LetInAt
    <3>2. UNCHANGED Minting
      BY <2>1, MintingStays DEF AskLogin, Arrive, Minting, Stages
    <3>3. \E c \in Credential : Sessions!Come(r, c)
      BY <2>1, <3>1, <3>2, OpenStays DEF AskLogin, Arrive, Sessions!Come
    <3> QED
      BY <3>3 DEF Sessions!Next
  <2>2. CASE AskWithToken(r)
    <3>1. cred' = cred
      BY <2>2 DEF AskWithToken, Arrive, IInv, StagesOK, TypeOK
    <3>2. UNCHANGED Minting
      BY <2>2, MintingStays DEF AskWithToken, Arrive, Minting, Stages
    <3> QED
      BY <2>2, <3>1, <3>2, OpenStays DEF AskWithToken, Arrive, Sessions!vars
  <2>3. CASE Return(r) /\ UNCHANGED <<row, held>>
    BY <2>3, LeaveStep DEF Sessions!Next
  <2>4. CASE (LoginGet(r) \/ Handle(r)) /\ ~Return(r)
    BY <2>4, LetInStep DEF Sessions!Next
  <2>5. CASE Analyze(r) /\ ~Return(r)
    BY <2>5, ConfirmStep DEF Sessions!Next
  <2>6. CASE Mint(r) \/ MintRefresh(r)
    <3>1. UNCHANGED Minting
      BY <2>6, MintingStays DEF Mint, MintRefresh, Goto, Minting, Stages
    <3> QED
      BY <2>6, <3>1, OpenStays DEF Mint, MintRefresh, Goto, Sessions!vars
  <2>7. CASE Answer(r)
    BY <2>7, AnswerStep DEF Sessions!Next
  <2> QED
    BY <1>1, <2>1, <2>2, <2>3, <2>4, <2>5, <2>6, <2>7
       DEF Step, LoginGet, Handle, Analyze, Serve, Fail
<1>2. ASSUME NEW a \in Account, NEW c \in Credential, Register(a, c)
      PROVE  [Sessions!Next]_(Sessions!vars)
  <2>1. Sessions!Register(a, c)
    BY <1>2, OpenStays DEF Register, request, Minting, Sessions!Register
  <2> QED
    BY <2>1 DEF Sessions!Next
<1>3. CASE UNCHANGED vars
  BY <1>3, OpenStays DEF vars, request, Minting, Sessions!vars
<1> QED
  BY <1>1, <1>2, <1>3, TickStep DEF Next, Sessions!Next

LEMMA InitSimulates == Init => Sessions!Init
BY DEF Init, Minting, Sessions!Init, Open

(* Tokens, which the server keeps no record of, implement leases.          *)
THEOREM Refinement == Spec => ImplementsLease
BY InitSimulates, Invariance, NextSimulates, PTL
   DEF Spec, ImplementsLease, Sessions!Spec
=============================================================================
