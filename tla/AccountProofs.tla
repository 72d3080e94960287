---------------------------- MODULE AccountProofs ----------------------------
(***************************************************************************)
(* Proofs about Account: types, codes and names, for any number of         *)
(* accounts, addresses, names, codes and requests, and any time to live.   *)
(***************************************************************************)
EXTENDS Account, TLAPS

MailStages == {"mailCount", "mailSet", "mailSend"}
RegisterStages == {"registerGet", "registerCount", "registerInsert"}

(* What a handler carries. *)
RequestOK == \A r \in Request :
  /\ at[r] # "idle" => who[r] \in Email
  /\ at[r] \in {"mailSet", "mailSend"} => code[r] \in Code
  /\ at[r] \in RegisterStages => name[r] \in Name /\ code[r] \in Code

(* Redis holds issued codes only. *)
StoredIssued == \A e \in Email : stored[e] # None => stored[e] \in issued[e]

IInv == TypeOK /\ RequestOK /\ StoredIssued /\ EmailProved

LEMMA InitIInv == Init => IInv
<1> SUFFICES ASSUME Init PROVE IInv
  OBVIOUS
<1> USE DEF Init
<1>1. TypeOK
  BY ExpireAssumption DEF TypeOK, Stages
<1>2. RequestOK /\ StoredIssued /\ EmailProved
  BY DEF RequestOK, StoredIssued, EmailProved, RegisterStages, Free
<1> QED
  BY <1>1, <1>2 DEF IInv

(* A handler that starts, moves on or returns with no store changed. *)
LEMMA StepKeeps ==
  ASSUME IInv, NEW r \in Request,
         UNCHANGED <<accounts, redis, issued>>,
         current' \subseteq Request,
         promise' \in [Email -> [Code -> 0..CodeExpire]],
         \A q \in Request \ {r} : /\ at'[q] = at[q] /\ who'[q] = who[q]
                                  /\ name'[q] = name[q] /\ code'[q] = code[q],
         /\ at' \in [Request -> Stages]
         /\ who' \in [Request -> Email \cup {None}]
         /\ name' \in [Request -> Name \cup {None}]
         /\ code' \in [Request -> Code \cup {None}],
         /\ at'[r] # "idle" => who'[r] \in Email
         /\ at'[r] \in {"mailSet", "mailSend"} => code'[r] \in Code
         /\ at'[r] \in RegisterStages => name'[r] \in Name /\ code'[r] \in Code
         /\ at'[r] \in {"registerCount", "registerInsert"} =>
              code'[r] \in issued[who'[r]]
  PROVE  IInv'
<1> USE DEF IInv, accounts, redis
<1>1. TypeOK'
  BY DEF TypeOK
<1>2. RequestOK'
  BY DEF RequestOK
<1>3. StoredIssued' /\ EmailProved'
  BY DEF StoredIssued, EmailProved, Free
<1> QED
  BY <1>1, <1>2, <1>3

LEMMA ArriveKeeps ==
  ASSUME IInv, NEW r \in Request, Arrive(r)
  PROVE  IInv'
<1>1. PICK s \in {"mailCount", "registerGet"}, e \in Email,
           n \in Name \cup {None}, c \in Code \cup {None} :
        /\ Ask(r, s, e, n, c)
        /\ s = "registerGet" => n \in Name /\ c \in Code
  BY DEF Arrive, AskCode, AskRegister
<1>2. promise' \in [Email -> [Code -> 0..CodeExpire]] /\ current' \subseteq Request
  BY <1>1 DEF IInv, TypeOK, Ask
<1> QED
  BY <1>1, <1>2, StepKeeps DEF Ask, IInv, TypeOK, Stages, RegisterStages

LEMMA ReturnKeeps ==
  ASSUME IInv, NEW r \in Request, Return(r),
         UNCHANGED <<accounts, redis, issued>>,
         current' \subseteq Request,
         promise' \in [Email -> [Code -> 0..CodeExpire]]
  PROVE  IInv'
BY StepKeeps DEF Return, IInv, TypeOK, Stages, RegisterStages

LEMMA MailCountKeeps ==
  ASSUME IInv, NEW r \in Request, MailCount(r)
  PROVE  IInv'
<1>1. UNCHANGED <<accounts, redis, issued>> /\ promise' = promise
  BY DEF MailCount
<1>2. promise' \in [Email -> [Code -> 0..CodeExpire]] /\ current' \subseteq Request
  BY <1>1 DEF MailCount, IInv, TypeOK
<1>3. CASE Return(r)
  BY <1>1, <1>2, <1>3, ReturnKeeps
<1>4. CASE \E c \in Code : /\ at' = [at EXCEPT ![r] = "mailSet"]
                           /\ code' = [code EXCEPT ![r] = c]
                           /\ UNCHANGED <<who, name>>
  <2>1. at[r] # "idle" /\ who[r] \in Email
    BY DEF MailCount, IInv, RequestOK
  <2>2. PICK c \in Code : /\ at' = [at EXCEPT ![r] = "mailSet"]
                          /\ code' = [code EXCEPT ![r] = c]
                          /\ who' = who /\ name' = name
    BY <1>4
  <2>3. /\ at \in [Request -> Stages] /\ "mailSet" \in Stages
        /\ who \in [Request -> Email \cup {None}]
        /\ name \in [Request -> Name \cup {None}]
        /\ code \in [Request -> Code \cup {None}]
    BY DEF IInv, TypeOK, Stages
  <2>4. /\ at' \in [Request -> Stages] /\ at'[r] = "mailSet"
        /\ code' \in [Request -> Code \cup {None}] /\ code'[r] = c
        /\ \A q \in Request \ {r} : at'[q] = at[q] /\ code'[q] = code[q]
    BY <2>2, <2>3
  <2> QED
    BY <1>1, <1>2, <2>1, <2>2, <2>3, <2>4, StepKeeps DEF RegisterStages
<1> QED
  BY <1>3, <1>4 DEF MailCount

LEMMA MailSendKeeps ==
  ASSUME IInv, NEW r \in Request, MailSend(r)
  PROVE  IInv'
<1>1. who[r] \in Email /\ code[r] \in Code
  BY DEF MailSend, IInv, RequestOK
<1>2. promise' \in [Email -> [Code -> 0..CodeExpire]]
  <2>1. promise \in [Email -> [Code -> 0..CodeExpire]]
    BY DEF IInv, TypeOK
  <2>2. [promise[who[r]] EXCEPT ![code[r]] = CodeExpire]
          \in [Code -> 0..CodeExpire]
    BY <1>1, <2>1, ExpireAssumption
  <2> QED
    BY <2>1, <2>2 DEF MailSend
<1>3. current' \subseteq Request
  BY DEF MailSend, IInv, TypeOK
<1> QED
  BY <1>2, <1>3, ReturnKeeps DEF MailSend

LEMMA RegisterCheckKeeps ==
  ASSUME IInv, NEW r \in Request, RegisterGet(r) \/ RegisterCount(r)
  PROVE  IInv'
<1>1. /\ UNCHANGED <<accounts, redis, issued>> /\ promise' = promise
      /\ who[r] \in Email /\ name[r] \in Name /\ code[r] \in Code
  BY DEF RegisterGet, RegisterCount, Checks, IInv, RequestOK, RegisterStages
<1>2. promise' \in [Email -> [Code -> 0..CodeExpire]] /\ current' \subseteq Request
  BY <1>1 DEF RegisterGet, RegisterCount, Checks, IInv, TypeOK
<1>3. CASE Return(r)
  BY <1>1, <1>2, <1>3, ReturnKeeps
<1>4. CASE ~Return(r)
  <2>1. code[r] \in issued[who[r]]
    <3>1. CASE RegisterGet(r)
      <4>1. stored[who[r]] = code[r]
        BY <1>4, <3>1 DEF RegisterGet
      <4> QED
        BY <1>1, <4>1, NoneAssumption DEF IInv, StoredIssued
    <3>2. CASE RegisterCount(r)
      BY <3>2 DEF RegisterCount, IInv, EmailProved
    <3> QED
      BY <3>1, <3>2
  <2>2. PICK s \in {"registerCount", "registerInsert"} : Goto(r, s)
    BY <1>4 DEF RegisterGet, RegisterCount, Checks
  <2>3. /\ at \in [Request -> Stages] /\ s \in Stages
        /\ who \in [Request -> Email \cup {None}]
        /\ name \in [Request -> Name \cup {None}]
        /\ code \in [Request -> Code \cup {None}]
    BY DEF IInv, TypeOK, Stages
  <2>4. /\ at' = [at EXCEPT ![r] = s]
        /\ who' = who /\ name' = name /\ code' = code
    BY <2>2 DEF Goto
  <2>5. /\ at' \in [Request -> Stages] /\ at'[r] = s
        /\ \A q \in Request \ {r} : at'[q] = at[q]
    BY <2>3, <2>4
  <2>6. code'[r] \in issued[who'[r]]
    BY <2>1, <2>4
  <2> QED
    BY <1>1, <1>2, <2>3, <2>4, <2>5, <2>6, StepKeeps
<1> QED
  BY <1>3, <1>4

(* A code is stored: it is issued with the same step. *)
LEMMA MailSetKeeps ==
  ASSUME IInv, NEW r \in Request, MailSet(r)
  PROVE  IInv'
<1> USE DEF IInv
<1>1. /\ who[r] \in Email /\ code[r] \in Code /\ at[r] = "mailSet"
      /\ stored' = [stored EXCEPT ![who[r]] = code[r]]
      /\ ttl' = [ttl EXCEPT ![who[r]] = CodeExpire]
      /\ issued' = [issued EXCEPT ![who[r]] = @ \cup {code[r]}]
      /\ Goto(r, "mailSend") \/ Return(r)
      /\ UNCHANGED <<nameOf, emailOf, raced, current, promise>>
  BY DEF MailSet, RequestOK, accounts
<1>2. \A e \in Email : issued[e] \subseteq issued'[e]
  BY <1>1 DEF TypeOK
<1>3. TypeOK'
  <2>1. /\ stored' \in [Email -> Code \cup {None}]
        /\ ttl' \in [Email -> 0..CodeExpire]
        /\ issued' \in [Email -> SUBSET Code]
    BY <1>1, ExpireAssumption DEF TypeOK
  <2>2. \A e \in Email : stored'[e] = None <=> ttl'[e] = 0
    BY <1>1, ExpireAssumption, NoneAssumption DEF TypeOK
  <2>3. /\ at' \in [Request -> Stages]
        /\ who' \in [Request -> Email \cup {None}]
        /\ name' \in [Request -> Name \cup {None}]
        /\ code' \in [Request -> Code \cup {None}]
    BY <1>1 DEF TypeOK, Goto, Return, Stages
  <2> QED
    BY <1>1, <2>1, <2>2, <2>3 DEF TypeOK
<1>4. \A q \in Request :
        \/ at'[q] = "idle"
        \/ q = r /\ Goto(r, "mailSend")
        \/ /\ at'[q] = at[q] /\ who'[q] = who[q]
           /\ name'[q] = name[q] /\ code'[q] = code[q]
  BY <1>1 DEF Goto, Return, TypeOK
<1>5. RequestOK'
  BY <1>1, <1>4 DEF RequestOK, Goto, RegisterStages, TypeOK
<1>6. StoredIssued'
  BY <1>1, <1>2 DEF StoredIssued, TypeOK
<1>7. EmailProved'
  <2>1. \A q \in Request : at'[q] \in {"registerCount", "registerInsert"} =>
          code'[q] \in issued'[who'[q]]
    BY <1>1, <1>2, <1>4
       DEF EmailProved, RequestOK, RegisterStages, Goto, TypeOK
  <2>2. \A a \in Account \ Free : emailOf[a] \in Email /\ issued[emailOf[a]] # {}
    BY NoneAssumption DEF EmailProved, Free, TypeOK
  <2>3. Free' = Free
    BY <1>1 DEF Free
  <2> QED
    BY <1>1, <1>2, <2>1, <2>2, <2>3 DEF EmailProved
<1> QED
  BY <1>3, <1>5, <1>6, <1>7

LEMMA RegisterInsertKeeps ==
  ASSUME IInv, NEW r \in Request, RegisterInsert(r)
  PROVE  IInv'
<1> USE DEF IInv
<1>1. PICK a \in Free : /\ nameOf' = [nameOf EXCEPT ![a] = name[r]]
                        /\ emailOf' = [emailOf EXCEPT ![a] = who[r]]
                        /\ raced' \in {raced, raced \cup {a}}
  BY DEF RegisterInsert
<1>2. /\ a \in Account /\ who[r] \in Email /\ name[r] \in Name
      /\ who[r] # None /\ name[r] # None
      /\ code[r] \in issued[who[r]] /\ Return(r)
      /\ UNCHANGED <<stored, ttl, issued, promise>>
      /\ raced' \subseteq Account /\ current' \subseteq Request
  BY <1>1, NoneAssumption DEF Free, RegisterInsert, RequestOK, RegisterStages,
     EmailProved, redis, TypeOK
<1>3. TypeOK'
  <2>1. /\ nameOf' \in [Account -> Name \cup {None}]
        /\ emailOf' \in [Account -> Email \cup {None}]
        /\ \A b \in Account : nameOf'[b] = None <=> emailOf'[b] = None
    BY <1>1, <1>2 DEF TypeOK
  <2>2. /\ at' \in [Request -> Stages]
        /\ who' \in [Request -> Email \cup {None}]
        /\ name' \in [Request -> Name \cup {None}]
        /\ code' \in [Request -> Code \cup {None}]
    BY <1>2 DEF TypeOK, Return, Stages
  <2> QED
    BY <1>2, <2>1, <2>2 DEF TypeOK
<1>4. \A q \in Request :
        \/ at'[q] = "idle"
        \/ /\ at'[q] = at[q] /\ who'[q] = who[q]
           /\ name'[q] = name[q] /\ code'[q] = code[q]
  BY <1>2 DEF Return, TypeOK
<1>5. RequestOK' /\ StoredIssued'
  BY <1>2, <1>4 DEF RequestOK, RegisterStages, StoredIssued
<1>6. EmailProved'
  <2>1. \A b \in Account \ Free' : b = a \/ (b \in Account \ Free
                                             /\ emailOf'[b] = emailOf[b])
    BY <1>1, <1>2 DEF Free, TypeOK
  <2>2. emailOf'[a] = who[r]
    BY <1>1, <1>2 DEF TypeOK
  <2> QED
    BY <1>2, <1>4, <2>1, <2>2 DEF EmailProved
<1> QED
  BY <1>3, <1>5, <1>6

LEMMA TickKeeps ==
  ASSUME IInv, Tick
  PROVE  IInv'
<1> USE DEF IInv
<1>1. /\ UNCHANGED <<nameOf, emailOf, raced, current, issued, at, who, name, code>>
      /\ ttl' = [e \in Email |-> Less1(ttl[e])]
      /\ stored' = [e \in Email |-> IF ttl[e] > 1 THEN stored[e] ELSE None]
      /\ promise' = [e \in Email |-> [c \in Code |-> Less1(promise[e][c])]]
  BY DEF Tick, accounts, request
<1>2. \A t \in 0..CodeExpire : Less1(t) \in 0..CodeExpire /\
                               (Less1(t) = 0 <=> ~(t > 1))
  BY ExpireAssumption DEF Less1
<1>3. TypeOK'
  <2>1. /\ ttl' \in [Email -> 0..CodeExpire]
        /\ stored' \in [Email -> Code \cup {None}]
        /\ \A e \in Email : stored'[e] = None <=> ttl'[e] = 0
    BY <1>1, <1>2, ExpireAssumption DEF TypeOK
  <2>2. promise' \in [Email -> [Code -> 0..CodeExpire]]
    BY <1>1, <1>2 DEF TypeOK
  <2> QED
    BY <1>1, <2>1, <2>2 DEF TypeOK
<1>4. RequestOK' /\ StoredIssued' /\ EmailProved'
  BY <1>1 DEF RequestOK, StoredIssued, EmailProved, Free
<1> QED
  BY <1>3, <1>4

LEMMA NextIInv == IInv /\ [Next]_vars => IInv'
<1> SUFFICES ASSUME IInv, [Next]_vars PROVE IInv'
  OBVIOUS
<1>1. ASSUME NEW r \in Request, Arrive(r) PROVE IInv'
  BY <1>1, ArriveKeeps
<1>2. ASSUME NEW r \in Request, Serve(r) PROVE IInv'
  BY <1>2, MailCountKeeps, MailSetKeeps, MailSendKeeps, RegisterCheckKeeps,
     RegisterInsertKeeps DEF Serve
<1>3. ASSUME NEW r \in Request, Fail(r) PROVE IInv'
  <2>1. promise' \in [Email -> [Code -> 0..CodeExpire]] /\ current' \subseteq Request
    BY <1>3 DEF Fail, IInv, TypeOK
  <2> QED
    BY <1>3, <2>1, ReturnKeeps DEF Fail
<1>4. CASE Tick
  BY <1>4, TickKeeps
<1>5. CASE UNCHANGED vars
  BY <1>5 DEF vars, accounts, redis, request, IInv, TypeOK, RequestOK,
     StoredIssued, EmailProved, Free
<1> QED
  BY <1>1, <1>2, <1>3, <1>4, <1>5 DEF Next

THEOREM Invariance == Spec => []IInv
<1> QED
  BY InitIInv, NextIInv, PTL DEF Spec

(* TypeOK, for all values of the constants. *)
THEOREM TypeCorrect == Spec => []TypeOK
<1>1. IInv => TypeOK
  BY DEF IInv
<1> QED
  BY <1>1, Invariance, PTL

(* EmailProved: no account without a code issued for its address. *)
THEOREM AddressesProved == Spec => []EmailProved
<1>1. IInv => EmailProved
  BY DEF IInv
<1> QED
  BY <1>1, Invariance, PTL

-----------------------------------------------------------------------------
(* A look for the name that no other registration has overtaken still      *)
(* holds when its request inserts.                                         *)
NameInv ==
  /\ NamesDistinct
  /\ \A r \in current : at[r] = "registerInsert" /\ ~NameTaken(name[r])
  /\ raced \cap Free = {}

LEMMA NameStep ==
  ASSUME IInv, NameInv, [Next]_vars
  PROVE  NameInv'
<1> USE DEF NameInv
<1>1. ASSUME NEW r \in Request, RegisterInsert(r) PROVE NameInv'
  <2>1. PICK a \in Free : /\ nameOf' = [nameOf EXCEPT ![a] = name[r]]
                          /\ raced' = IF r \in current THEN raced
                                                       ELSE raced \cup {a}
    BY <1>1 DEF RegisterInsert
  <2>2. /\ a \in Account /\ name[r] # None /\ current' = {}
        /\ r \in current => \A b \in Account : nameOf[b] # name[r]
    BY <1>1, NoneAssumption
       DEF RegisterInsert, Free, NameTaken, IInv, RequestOK, RegisterStages
  <2>3. nameOf'[a] = name[r] /\ \A b \in Account \ {a} : nameOf'[b] = nameOf[b]
    BY <2>1, <2>2 DEF IInv, TypeOK
  <2>4. NamesDistinct'
    BY <2>1, <2>2, <2>3 DEF NamesDistinct
  <2>5. (raced \cap Free = {})'
    BY <2>1, <2>2, <2>3 DEF Free
  <2> QED
    BY <2>2, <2>4, <2>5
<1>2. ASSUME NEW r \in Request, UNCHANGED accounts,
             current' \subseteq current \cup {r},
             \A q \in Request \ {r} : at'[q] = at[q] /\ name'[q] = name[q],
             r \in current' => at'[r] = "registerInsert" /\ ~NameTaken(name'[r])
      PROVE  NameInv'
  <2>1. \A q \in current' : q = r \/ (q \in current /\ q \in Request)
    BY <1>2 DEF IInv, TypeOK
  <2> QED
    BY <1>2, <2>1 DEF NamesDistinct, NameTaken, Free, accounts
<1>3. ASSUME NEW r \in Request, Arrive(r) \/ Serve(r) \/ Fail(r),
             ~RegisterInsert(r)
      PROVE  NameInv'
  <2>1. UNCHANGED accounts
    BY <1>3 DEF Arrive, AskCode, AskRegister, Ask, Serve, MailCount, MailSet,
       MailSend, RegisterGet, RegisterCount, Fail, accounts
  <2>2. \A q \in Request \ {r} : at'[q] = at[q] /\ name'[q] = name[q]
    BY <1>3 DEF Arrive, AskCode, AskRegister, Ask, Serve, MailCount, MailSet,
       MailSend, RegisterGet, RegisterCount, Checks, Fail, Return, Goto, IInv,
       TypeOK
  <2>3. CASE RegisterCount(r) /\ Checks(r) /\ ~NameTaken(name[r])
    <3>1. /\ current' = current \cup {r} /\ at'[r] = "registerInsert"
          /\ name' = name
      BY <2>3 DEF Checks, Goto, IInv, TypeOK
    <3> QED
      BY <1>2, <2>1, <2>2, <2>3, <3>1
  <2>4. CASE ~(RegisterCount(r) /\ Checks(r) /\ ~NameTaken(name[r]))
    <3>1. current' \subseteq current /\ r \notin current'
      BY <1>3, <2>4 DEF Arrive, AskCode, AskRegister, Ask, Serve, MailCount,
         MailSet, MailSend, RegisterGet, RegisterCount, Fail
    <3> QED
      BY <1>2, <2>1, <2>2, <3>1
  <2> QED
    BY <2>3, <2>4
<1>4. CASE Tick \/ UNCHANGED vars
  BY <1>4 DEF Tick, vars, accounts, request, NamesDistinct, NameTaken, Free
<1> QED
  BY <1>1, <1>3, <1>4 DEF Next

(* NamesDistinct: two accounts inserted on looks for the name that no      *)
(* other registration overtook have different names.                       *)
THEOREM NamesGivenOnce == Spec => []NamesDistinct
<1>1. Init => NameInv
  BY DEF Init, NameInv, NamesDistinct
<1>2. IInv /\ NameInv /\ [Next]_vars => NameInv'
  BY NameStep
<1>3. NameInv => NamesDistinct
  BY DEF NameInv
<1> QED
  BY <1>1, <1>2, <1>3, Invariance, PTL DEF Spec
=============================================================================
