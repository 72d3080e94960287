------------------------------- MODULE Account -------------------------------
(***************************************************************************)
(* Registration: the table user_basic, the codes Redis keeps for e-mail    *)
(* addresses, and the two handlers that use both.                          *)
(*   /mail/code/send/register  (mail_code_send_register_logic.go)          *)
(*   /user/register            (user_register_logic.go)                    *)
(* One action is one call of MySQL, Redis or the mail server.  Time is the *)
(* time to live of codes: a tick takes one unit from each of them.         *)
(***************************************************************************)
EXTENDS Integers, FiniteSets

CONSTANTS
  Account,     \* the rows user_basic can get
  Email, Name, Code,
  Request,     \* slots for requests in flight
  CodeExpire,  \* time to live of a code, in ticks (300 s in define.go)
  None         \* no value

ASSUME ExpireAssumption == CodeExpire \in Nat \ {0}
ASSUME NoneAssumption == None \notin Email \cup Name \cup Code

VARIABLES
  nameOf,      \* nameOf[a]: the name of account a, None before its insert
  emailOf,     \* emailOf[a]: its e-mail address
  raced,       \* accounts inserted on a look for the name that another
               \* registration had overtaken
  current,     \* the requests whose look for the name nothing has overtaken
  stored,      \* stored[e]: the code Redis holds under e
  ttl,         \* ttl[e]: the ticks until Redis drops it
  issued,      \* issued[e]: every code ever stored for e
  promise,     \* promise[e][c]: how long the mail with code c says it is valid
  at,          \* at[r]: the next call of handler r
  who,         \* who[r]: the e-mail address of the request
  name,        \* name[r]: the user name to register
  code         \* code[r]: the code generated, or given by the client

accounts == <<nameOf, emailOf, raced>>
redis == <<stored, ttl>>
request == <<at, who, name, code>>
vars == <<accounts, current, redis, issued, promise, request>>

Stages == {"idle", "mailCount", "mailSet", "mailSend",
           "registerGet", "registerCount", "registerInsert"}

Free == {a \in Account : nameOf[a] = None}
EmailTaken(e) == \E a \in Account : emailOf[a] = e
NameTaken(n) == \E a \in Account : nameOf[a] = n

(* Bound: a registration is taken on only while a row is left for it. *)
RowLeft == Cardinality(Free) > Cardinality({r \in Request :
             at[r] \in {"registerGet", "registerCount", "registerInsert"}})

Init ==
  /\ nameOf = [a \in Account |-> None]
  /\ emailOf = [a \in Account |-> None]
  /\ raced = {} /\ current = {}
  /\ stored = [e \in Email |-> None]
  /\ ttl = [e \in Email |-> 0]
  /\ issued = [e \in Email |-> {}]
  /\ promise = [e \in Email |-> [c \in Code |-> 0]]
  /\ at = [r \in Request |-> "idle"]
  /\ who = [r \in Request |-> None]
  /\ name = [r \in Request |-> None]
  /\ code = [r \in Request |-> None]

Ask(r, stage, e, n, c) ==
  /\ at[r] = "idle"
  /\ at' = [at EXCEPT ![r] = stage]
  /\ who' = [who EXCEPT ![r] = e]
  /\ name' = [name EXCEPT ![r] = n]
  /\ code' = [code EXCEPT ![r] = c]
  /\ UNCHANGED <<accounts, current, redis, issued, promise>>

Goto(r, stage) == /\ at' = [at EXCEPT ![r] = stage]
                  /\ UNCHANGED <<who, name, code>>

Return(r) == /\ at' = [at EXCEPT ![r] = "idle"]
             /\ who' = [who EXCEPT ![r] = None]
             /\ name' = [name EXCEPT ![r] = None]
             /\ code' = [code EXCEPT ![r] = None]

-----------------------------------------------------------------------------
(* /mail/code/send/register *)

AskCode(r) == \E e \in Email : Ask(r, "mailCount", e, None, None)

(* Count the accounts of the address; with none, generate a code. *)
MailCount(r) ==
  /\ at[r] = "mailCount"
  /\ \/ EmailTaken(who[r]) /\ Return(r)
     \/ \E c \in Code :
          /\ ~EmailTaken(who[r])
          /\ at' = [at EXCEPT ![r] = "mailSet"]
          /\ code' = [code EXCEPT ![r] = c]
          /\ UNCHANGED <<who, name>>
  /\ UNCHANGED <<accounts, current, redis, issued, promise>>

(* Redis Set replaces the code held for the address.  If the call fails,   *)
(* done or not, the handler stops before the mail.                         *)
MailSet(r) ==
  /\ at[r] = "mailSet"
  /\ stored' = [stored EXCEPT ![who[r]] = code[r]]
  /\ ttl' = [ttl EXCEPT ![who[r]] = CodeExpire]
  /\ issued' = [issued EXCEPT ![who[r]] = @ \cup {code[r]}]
  /\ Goto(r, "mailSend") \/ Return(r)
  /\ UNCHANGED <<accounts, current, promise>>

(* The code reaches the user by mail, or in the reply when the mail fails; *)
(* or neither arrives.                                                     *)
MailSend(r) ==
  /\ at[r] = "mailSend"
  /\ \/ promise' = [promise EXCEPT ![who[r]] =
                      [@ EXCEPT ![code[r]] = CodeExpire]]
     \/ UNCHANGED promise
  /\ Return(r)
  /\ UNCHANGED <<accounts, current, redis, issued>>

-----------------------------------------------------------------------------
(* /user/register *)

AskRegister(r) == \E e \in Email, n \in Name, c \in Code :
  RowLeft /\ Ask(r, "registerGet", e, n, c)

(* Mutant of RegisterGet: the code is not compared. *)
RegisterAnyCode(r) ==
  /\ at[r] = "registerGet"
  /\ Goto(r, "registerCount")
  /\ UNCHANGED <<accounts, current, redis, issued, promise>>

(* Redis Get: no code or another code ends the request.  The code stays.   *)
RegisterGet(r) ==
  /\ at[r] = "registerGet"
  /\ IF stored[who[r]] = code[r] THEN Goto(r, "registerCount") ELSE Return(r)
  /\ UNCHANGED <<accounts, current, redis, issued, promise>>

(* The look found no account. *)
Checks(r) == Goto(r, "registerInsert") /\ current' = current \cup {r}

(* Mutant of RegisterCount: the e-mail address is counted, not the name. *)
RegisterCountEmail(r) ==
  /\ at[r] = "registerCount"
  /\ \/ EmailTaken(who[r]) /\ Return(r) /\ UNCHANGED current
     \/ ~EmailTaken(who[r]) /\ Checks(r)
  /\ UNCHANGED <<accounts, redis, issued, promise>>

RegisterCount(r) ==
  /\ at[r] = "registerCount"
  /\ \/ NameTaken(name[r]) /\ Return(r) /\ UNCHANGED current
     \/ ~NameTaken(name[r]) /\ Checks(r)
  /\ UNCHANGED <<accounts, redis, issued, promise>>

(* Mutant of RegisterInsert: the row lacks its e-mail address. *)
RegisterWithoutEmail(r) ==
  /\ at[r] = "registerInsert"
  /\ \E a \in Free : nameOf' = [nameOf EXCEPT ![a] = name[r]]
  /\ Return(r)
  /\ UNCHANGED <<emailOf, raced, current, redis, issued, promise>>

(* The address is not looked up again. *)
RegisterInsert(r) ==
  /\ at[r] = "registerInsert"
  /\ \E a \in Free : /\ nameOf' = [nameOf EXCEPT ![a] = name[r]]
                     /\ emailOf' = [emailOf EXCEPT ![a] = who[r]]
                     /\ raced' = IF r \in current THEN raced
                                                  ELSE raced \cup {a}
  /\ current' = {}
  /\ Return(r)
  /\ UNCHANGED <<redis, issued, promise>>

(* A call fails without effect, or the process stops. *)
Fail(r) == /\ at[r] # "idle" /\ Return(r)
           /\ current' = current \ {r}
           /\ UNCHANGED <<accounts, redis, issued, promise>>

(* Time passes: Redis drops the codes whose time is over. *)
Less1(t) == IF t = 0 THEN 0 ELSE t - 1
Tick ==
  /\ ttl' = [e \in Email |-> Less1(ttl[e])]
  /\ stored' = [e \in Email |-> IF ttl[e] > 1 THEN stored[e] ELSE None]
  /\ promise' = [e \in Email |-> [c \in Code |-> Less1(promise[e][c])]]
  /\ UNCHANGED <<accounts, current, issued, request>>

Arrive(r) == AskCode(r) \/ AskRegister(r)
Serve(r) == \/ MailCount(r) \/ MailSet(r) \/ MailSend(r)
            \/ RegisterGet(r) \/ RegisterCount(r) \/ RegisterInsert(r)

Next == Tick \/ \E r \in Request : Arrive(r) \/ Serve(r) \/ Fail(r)

Spec == Init /\ [][Next]_vars

-----------------------------------------------------------------------------
(* Rows are complete; Redis holds a code exactly while it has time left.   *)
TypeOK ==
  /\ nameOf \in [Account -> Name \cup {None}]
  /\ emailOf \in [Account -> Email \cup {None}]
  /\ \A a \in Account : nameOf[a] = None <=> emailOf[a] = None
  /\ raced \subseteq Account /\ current \subseteq Request
  /\ stored \in [Email -> Code \cup {None}]
  /\ ttl \in [Email -> 0..CodeExpire]
  /\ \A e \in Email : stored[e] = None <=> ttl[e] = 0
  /\ issued \in [Email -> SUBSET Code]
  /\ promise \in [Email -> [Code -> 0..CodeExpire]]
  /\ at \in [Request -> Stages]
  /\ who \in [Request -> Email \cup {None}]
  /\ name \in [Request -> Name \cup {None}]
  /\ code \in [Request -> Code \cup {None}]

(* An address gets an account only with a code that was issued for it,     *)
(* although the code may have been replaced or have run out since it was   *)
(* compared.                                                               *)
EmailProved ==
  /\ \A r \in Request : at[r] \in {"registerCount", "registerInsert"} =>
       code[r] \in issued[who[r]]
  /\ \A a \in Account \ Free : issued[emailOf[a]] # {}

(* Login looks accounts up by their name, so a name should belong to one   *)
(* account.  Two accounts share one only if, between the look for the name *)
(* (user_register_logic.go:40) and the insert of one of them, another      *)
(* registration was inserted: nothing else gives a name away twice.        *)
NamesDistinct == \A a, b \in Account \ raced :
  a # b /\ nameOf[a] # None => nameOf[a] # nameOf[b]

-----------------------------------------------------------------------------
(* Statements of the repository's texts that the code does not keep.       *)

(* mail_code_send_register_logic.go:33: codes are for addresses without an *)
(* account.  A code is not used up, and the address is not looked up when  *)
(* the account is inserted.                                                *)
OneAccountPerEmail == \A a, b \in Account :
  a # b /\ emailOf[a] # None => emailOf[a] # emailOf[b]

=============================================================================
