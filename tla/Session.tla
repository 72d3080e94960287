------------------------------ MODULE Session ------------------------------
(***************************************************************************)
(* Sessions: the tokens of helper.go and the code that mints and reads     *)
(* them.                                                                   *)
(*   /user/login             (user_login_logic.go)                         *)
(*   /refresh/authorization  (refresh_authorization_logic.go)              *)
(*   the middleware in front of every other route (auth_middleware.go)     *)
(* The server keeps nothing: a token is its claims and the time it has     *)
(* left, and is good while that is not negative.  Time passes between any  *)
(* two steps of a handler, and takes a tick from every token there is.     *)
(***************************************************************************)
EXTENDS Integers

CONSTANTS
  Account,             \* the rows user_basic can get
  Credential,          \* pairs of a user name and a password
  Request,             \* slots for requests in flight
  TokenExpire,         \* 3600 s in define.go, in ticks
  RefreshTokenExpire,  \* 7200 s in define.go, in ticks
  None                 \* no value

ASSUME ExpireAssumption == /\ TokenExpire \in Nat
                           /\ RefreshTokenExpire \in Nat
                           /\ TokenExpire <= RefreshTokenExpire
ASSUME NoneAssumption == None \notin Account \cup Credential

VARIABLES
  row,         \* row[a]: the name and the password of account a
  held,        \* the tokens clients have been handed and that are still good
  at,          \* at[r]: the next step of request r
  goal,        \* goal[r]: what request r is for
  cred,        \* cred[r]: the name and the password in a login
  given,       \* given[r]: the token in the Authorization header
  identity,    \* identity[r]: the account r has been found to come from
  token,       \* token[r]: the token minted for the answer
  refresh      \* refresh[r]: the refresh token minted for the answer

request == <<at, goal, cred, given, identity, token, refresh>>
vars == <<row, held, request>>

Stages == {"idle", "get", "auth", "analyze", "token", "refreshToken",
           "answer", "serve"}
Goals == {"login", "refresh", "use", None}

(* The claims and the time left; below 0 the time is over. *)
Left == -1..RefreshTokenExpire
Token == [who : Account \cup {None}, left : Left]
ShortToken == {t \in Token : t.left <= TokenExpire}
NoToken == [who |-> None, left |-> -1]

(* Mutant of GenerateToken: the token lasts one unit too long. *)
GenerateLongToken(a, second) == [who |-> a, left |-> second + 1]

GenerateToken(a, second) == [who |-> a, left |-> second]

AnalyzeToken(t) == t.left >= 0

Later(t) == [t EXCEPT !.left = IF @ >= 0 THEN @ - 1 ELSE @]

-----------------------------------------------------------------------------
Init ==
  /\ row = [a \in Account |-> None]
  /\ held = {}
  /\ at = [r \in Request |-> "idle"]
  /\ goal = [r \in Request |-> None]
  /\ cred = [r \in Request |-> None]
  /\ given = [r \in Request |-> NoToken]
  /\ identity = [r \in Request |-> None]
  /\ token = [r \in Request |-> NoToken]
  /\ refresh = [r \in Request |-> NoToken]

(* user_register_logic.go inserts a row; names need not be distinct. *)
Register(a, c) ==
  /\ row[a] = None
  /\ row' = [row EXCEPT ![a] = c]
  /\ UNCHANGED <<held, request>>

Arrive(r, stage, g, c, t) ==
  /\ at[r] = "idle"
  /\ at' = [at EXCEPT ![r] = stage]
  /\ goal' = [goal EXCEPT ![r] = g]
  /\ cred' = [cred EXCEPT ![r] = c]
  /\ given' = [given EXCEPT ![r] = t]
  /\ UNCHANGED <<row, held, identity, token, refresh>>

AskLogin(r) == \E c \in Credential : Arrive(r, "get", "login", c, NoToken)

(* A client sends a token it was handed, one whose time is over, or none. *)
Old == {[who |-> a, left |-> -1] : a \in Account}
AskWithToken(r) == \E g \in {"refresh", "use"}, t \in held \cup Old \cup {NoToken} :
  Arrive(r, "auth", g, None, t)

Goto(r, stage) == /\ at' = [at EXCEPT ![r] = stage]
                  /\ UNCHANGED <<goal, cred, given>>

Return(r) == /\ at' = [at EXCEPT ![r] = "idle"]
             /\ goal' = [goal EXCEPT ![r] = None]
             /\ cred' = [cred EXCEPT ![r] = None]
             /\ given' = [given EXCEPT ![r] = NoToken]
             /\ identity' = [identity EXCEPT ![r] = None]
             /\ token' = [token EXCEPT ![r] = NoToken]
             /\ refresh' = [refresh EXCEPT ![r] = NoToken]

(* UserLogin: Get some row with the name and the password. *)
LoginGet(r) ==
  /\ at[r] = "get"
  /\ \/ \E a \in Account :
          /\ row[a] = cred[r]
          /\ identity' = [identity EXCEPT ![r] = a]
          /\ Goto(r, "token")
          /\ UNCHANGED <<token, refresh>>
     \/ (\A a \in Account : row[a] # cred[r]) /\ Return(r)
  /\ UNCHANGED <<row, held>>

(* The middleware: the claims of a good token say who the request is from. *)
Handle(r) ==
  /\ at[r] = "auth"
  /\ \/ /\ AnalyzeToken(given[r])
        /\ identity' = [identity EXCEPT ![r] = given[r].who]
        /\ Goto(r, IF goal[r] = "refresh" THEN "analyze" ELSE "serve")
        /\ UNCHANGED <<token, refresh>>
     \/ ~AnalyzeToken(given[r]) /\ Return(r)
  /\ UNCHANGED <<row, held>>

(* Mutant of Analyze: the claims are taken from the middleware, unread.    *)
AnalyzeNothing(r) ==
  /\ at[r] = "analyze"
  /\ Goto(r, "token")
  /\ UNCHANGED <<row, held, identity, token, refresh>>

(* RefreshAuthorization reads the token again; its time may be over now.   *)
Analyze(r) ==
  /\ at[r] = "analyze"
  /\ \/ /\ AnalyzeToken(given[r])
        /\ identity' = [identity EXCEPT ![r] = given[r].who]
        /\ Goto(r, "token")
        /\ UNCHANGED <<token, refresh>>
     \/ ~AnalyzeToken(given[r]) /\ Return(r)
  /\ UNCHANGED <<row, held>>

Mint(r) ==
  /\ at[r] = "token"
  /\ token' = [token EXCEPT ![r] = GenerateToken(identity[r], TokenExpire)]
  /\ Goto(r, "refreshToken")
  /\ UNCHANGED <<row, held, identity, refresh>>

\* Mutant of MintRefresh: a refresh mints two tokens of the shorter time.
MintShortRefresh(r) ==
  /\ at[r] = "refreshToken"
  /\ refresh' = [refresh EXCEPT ![r] = GenerateToken(identity[r],
       IF goal[r] = "login" THEN RefreshTokenExpire ELSE TokenExpire)]
  /\ Goto(r, "answer")
  /\ UNCHANGED <<row, held, identity, token>>

MintRefresh(r) ==
  /\ at[r] = "refreshToken"
  /\ refresh' = [refresh EXCEPT ![r] =
                   GenerateToken(identity[r], RefreshTokenExpire)]
  /\ Goto(r, "answer")
  /\ UNCHANGED <<row, held, identity, token>>

(* The answer with both tokens reaches the client, or is lost. *)
Answer(r) ==
  /\ at[r] = "answer"
  /\ \/ held' = held \cup {t \in {token[r], refresh[r]} : AnalyzeToken(t)}
     \/ UNCHANGED held
  /\ Return(r)
  /\ UNCHANGED row

(* Any other handler, which acts for the account of the request. *)
Serve(r) ==
  /\ at[r] = "serve"
  /\ Return(r)
  /\ UNCHANGED <<row, held>>

(* A step fails, or the process stops. *)
Fail(r) == at[r] # "idle" /\ Return(r) /\ UNCHANGED <<row, held>>

Tick ==
  /\ held' = {Later(t) : t \in {s \in held : s.left > 0}}
  /\ given' = [r \in Request |-> Later(given[r])]
  /\ token' = [r \in Request |-> Later(token[r])]
  /\ refresh' = [r \in Request |-> Later(refresh[r])]
  /\ UNCHANGED <<row, at, goal, cred, identity>>

Step(r) == \/ AskLogin(r) \/ AskWithToken(r) \/ LoginGet(r) \/ Handle(r)
           \/ Analyze(r) \/ Mint(r) \/ MintRefresh(r) \/ Answer(r)
           \/ Serve(r) \/ Fail(r)

Next == \/ Tick
        \/ \E a \in Account, c \in Credential : Register(a, c)
        \/ \E r \in Request : Step(r)

Spec == Init /\ [][Next]_vars

-----------------------------------------------------------------------------
TypeOK ==
  /\ row \in [Account -> Credential \cup {None}]
  /\ held \subseteq [who : Account, left : 0..RefreshTokenExpire]
  /\ at \in [Request -> Stages]
  /\ goal \in [Request -> Goals]
  /\ cred \in [Request -> Credential \cup {None}]
  /\ given \in [Request -> Token]
  /\ identity \in [Request -> Account \cup {None}]
  /\ token \in [Request -> ShortToken]
  /\ refresh \in [Request -> Token]

(* A client that trades its tokens at /refresh/authorization is never worse *)
(* off, however slow the handler was: the refresh token in the answer has   *)
(* no less time left than the token that was traded in, and the two tokens  *)
(* of the answer stand for the account the request came from.               *)
RefreshNeverShortens == \A r \in Request :
  at[r] = "answer" =>
    /\ refresh[r].left >= given[r].left
    /\ {token[r].who, refresh[r].who} = {identity[r]}

(* Tokens implement leases: a user is signed in at a time to come if some  *)
(* client holds a token of his that is good by then, and a request may     *)
(* renew the session from the moment its handler has found who it is to    *)
(* mint for: at once for a login, at its own look at the token, after the  *)
(* middleware's, for a refresh (refresh_authorization_logic.go).           *)
Open == [a \in Account |-> {t \in 0..RefreshTokenExpire :
           \E s \in held : s.who = a /\ t <= s.left}]
Minting == {r \in Request : at[r] \in {"token", "refreshToken", "answer"}}
Sessions == INSTANCE Lease WITH
  User <- Account, Term <- RefreshTokenExpire, password <- row,
  shown <- cred, acting <- identity, renewing <- Minting, open <- Open
ImplementsLease == Sessions!Spec
=============================================================================
