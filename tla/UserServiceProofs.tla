-------------------------- MODULE UserServiceProofs --------------------------
(***************************************************************************)
(* Proofs about ErrorCodes and UserService, for any number of calls,       *)
(* names, passwords, tokens and faults.                                    *)
(***************************************************************************)
EXTENDS UserService, TLAPS

-----------------------------------------------------------------------------
(* Error codes. *)

\* Every business error comes out of FromGRPCError as it went into ToGRPCError;
\* and if the details of the status are lost on the way, the browser still gets
\* the same HTTP status, on which its interceptor acts.
THEOREM CodesSurvive ==
  ASSUME NEW c \in Codes
  PROVE  /\ FromGRPCError(ToGRPCError(c)) = c
         /\ FromGRPCError(Bare(GRPCCode(c))) \in Codes
         /\ HttpStatus(FromGRPCError(Bare(GRPCCode(c)))) = HttpStatus(c)
<1>1. FromGRPCError(ToGRPCError(c)) = c
  BY DEF FromGRPCError, ToGRPCError
<1>2. FromGRPCError(Bare(GRPCCode(c))) = FromGRPCCode(GRPCCode(c))
  BY DEF FromGRPCError, Bare, Codes
<1>3. /\ FromGRPCCode(GRPCCode(c)) \in Codes
      /\ HttpStatus(FromGRPCCode(GRPCCode(c))) = HttpStatus(c)
  <2>1. CASE c = "10001"
    BY <2>1 DEF FromGRPCCode, GRPCCode, HttpStatus, Codes
  <2>2. CASE c \in {"10002", "20002"}
    BY <2>2 DEF FromGRPCCode, GRPCCode, HttpStatus, Codes
  <2>3. CASE c \in {"10003", "30003"}
    BY <2>3 DEF FromGRPCCode, GRPCCode, HttpStatus, Codes
  <2>4. CASE c \in {"20001", "40001"}
    BY <2>4 DEF FromGRPCCode, GRPCCode, HttpStatus, Codes
  <2>5. CASE c \in {"30001", "30002"}
    BY <2>5 DEF FromGRPCCode, GRPCCode, HttpStatus, Codes
  <2>6. CASE c = "40002"
    BY <2>6 DEF FromGRPCCode, GRPCCode, HttpStatus, Codes
  <2>7. CASE c \in {"50001", "50002"}
    BY <2>7 DEF FromGRPCCode, GRPCCode, HttpStatus, Codes
  <2> QED
    BY <2>1, <2>2, <2>3, <2>4, <2>5, <2>6, <2>7 DEF Codes
<1> QED
  BY <1>1, <1>2, <1>3

\* A deadline has no details and becomes an internal error.
LEMMA DeadlineIsInternal == FromGRPCError(Bare("DeadlineExceeded")) = "50001"
BY DEF FromGRPCError, Bare, Codes, FromGRPCCode

-----------------------------------------------------------------------------
(* The inductive invariant. *)

\* Claims that say what the table says.
Backed(k) ==
  /\ k \in Claims
  /\ \E u \in users :
       u.name = k.name /\ u.password = k.password /\ u.role = k.role

\* What an answer, on its way or told, says of a registration.
Truthful(c, a) ==
  kind[c] = "register" =>
    /\ a = "ok" => NewUser(c) \in users
    /\ a = "20001" => Account(name[c]) # {}

CallInv ==
  \A c \in Call :
    /\ pc[c] = "idle" => answer[c] = "none" /\ told[c] = "none"
    /\ pc[c] = "reply" => answer[c] # "none"
    /\ pc[c] \in {"register", "create"} => kind[c] = "register"
    /\ pc[c] = "login" => kind[c] = "login"
    /\ pc[c] = "admit" => kind[c] \in {"user", "admin"}
    /\ Truthful(c, answer[c]) /\ Truthful(c, told[c])

TokenInv ==
  /\ \A t \in live : Backed(issued[t])
  /\ \A c \in Call :
       kind[c] = "login" /\ pc[c] = "reply" /\ answer[c] = "ok" =>
         carried[c] \in Token /\ Backed(issued[carried[c]])

UniqueNames == \A u, v \in users : u.name = v.name => u = v

UserInv ==
  /\ TypeOK
  /\ CallInv
  /\ UniqueNames
  /\ TokenInv
  /\ SessionMatchesAccount
  /\ ServedIsEntitled

LEMMA InitInv == Init => UserInv
<1> SUFFICES ASSUME Init PROVE UserInv
  OBVIOUS
<1> USE DEF Init
<1>1. TypeOK
  <2>1. users \subseteq [name : Name, password : Password, role : {0, 1},
                         by : Call \union {None}]
    BY AdminAssumption
  <2>2. /\ kind \in [Call -> Kinds] /\ answer \in [Call -> Answers]
        /\ told \in [Call -> Answers]
    BY DEF Kinds, Answers
  <2> QED
    BY <2>1, <2>2, AdminAssumption, UserMaxFaults DEF TypeOK
<1>2. CallInv
  BY DEF CallInv, Truthful
<1>3. UniqueNames /\ TokenInv /\ SessionMatchesAccount /\ ServedIsEntitled
  BY DEF UniqueNames, TokenInv, SessionMatchesAccount, ServedIsEntitled
<1> QED
  BY <1>1, <1>2, <1>3 DEF UserInv

-----------------------------------------------------------------------------
(* What is true of the table stays true while rows are only added. *)

LEMMA StaysBacked ==
  ASSUME NEW k, users \subseteq users', Backed(k)
  PROVE  Backed(k)'
BY DEF Backed

\* Most actions leave tokens, session and table alone and let no request through.
LEMMA TokensKept ==
  ASSUME UserInv, users \subseteq users',
         UNCHANGED <<issued, carried, kind, session, served>>, live' \subseteq live,
         \A c \in Call :
           kind[c] = "login" /\ pc'[c] = "reply" /\ answer'[c] = "ok" =>
             pc[c] = "reply" /\ answer[c] = "ok"
  PROVE  TokenInv' /\ SessionMatchesAccount' /\ ServedIsEntitled'
<1> USE DEF UserInv
<1>1. TokenInv'
  BY StaysBacked DEF TokenInv
<1>2. SessionMatchesAccount'
  BY DEF SessionMatchesAccount
<1>3. ServedIsEntitled'
  BY DEF ServedIsEntitled
<1> QED
  BY <1>1, <1>2, <1>3

\* The steps by which a call c gets an answer a while the rest stays.
LEMMA ReturnInv ==
  ASSUME UserInv, NEW c \in Call, NEW a \in Answers, Return(c, a), a # "none",
         pc[c] \in {"register", "create"}, users \subseteq users',
         UNCHANGED <<request, carried, told, issued, live, session, served>>,
         a = "ok" => NewUser(c) \in users', a = "20001" => Account(name[c])' # {}
  PROVE  CallInv' /\ TokenInv' /\ SessionMatchesAccount' /\ ServedIsEntitled'
<1> USE DEF UserInv, request
<1>1. /\ \A d \in Call : answer'[d] = IF d = c THEN a ELSE answer[d]
      /\ \A d \in Call : pc'[d] = IF d = c THEN "reply" ELSE pc[d]
      /\ kind' = kind /\ name' = name /\ password' = password /\ told' = told
  BY DEF Return, Goto, TypeOK
<1>2. kind[c] = "register"
  BY DEF CallInv
<1>3. CallInv'
  <2> SUFFICES ASSUME NEW d \in Call
               PROVE  /\ pc'[d] = "idle" => answer'[d] = "none" /\ told'[d] = "none"
                      /\ pc'[d] = "reply" => answer'[d] # "none"
                      /\ pc'[d] \in {"register", "create"} => kind'[d] = "register"
                      /\ pc'[d] = "login" => kind'[d] = "login"
                      /\ pc'[d] = "admit" => kind'[d] \in {"user", "admin"}
                      /\ Truthful(d, answer[d])' /\ Truthful(d, told[d])'
    BY DEF CallInv
  <2>1. NewUser(d)' = NewUser(d) /\ Account(name[d]) \subseteq Account(name[d])'
    BY <1>1 DEF NewUser, Account
  <2>2. Truthful(d, told[d])'
    BY <1>1, <2>1 DEF CallInv, Truthful
  <2>3. Truthful(d, answer[d])'
    BY <1>1, <2>1 DEF CallInv, Truthful
  <2> QED
    BY <1>1, <2>2, <2>3 DEF CallInv
<1>4. TokenInv' /\ SessionMatchesAccount' /\ ServedIsEntitled'
  BY <1>1, <1>2, TokensKept
<1> QED
  BY <1>3, <1>4

LEMMA SubmitInv ==
  ASSUME NEW c \in Call, NEW k \in Kinds, NEW n \in Name, NEW p \in Password
  PROVE  UserInv /\ Submit(c, k, n, p) => UserInv'
<1> SUFFICES ASSUME UserInv, Submit(c, k, n, p) PROVE UserInv'
  OBVIOUS
<1> USE DEF UserInv, Submit
<1>1. TypeOK'
  BY DEF TypeOK, Goto, Kinds
<1>2. /\ \A d \in Call : pc'[d] = IF d = c THEN k ELSE pc[d]
      /\ \A d \in Call : kind'[d] = IF d = c THEN k ELSE kind[d]
      /\ \A d \in Call \ {c} : name'[d] = name[d] /\ password'[d] = password[d]
      /\ answer' = answer /\ told' = told /\ users' = users
      /\ answer[c] = "none" /\ told[c] = "none"
  BY DEF TypeOK, Goto, CallInv
<1>3. CallInv'
  <2> SUFFICES ASSUME NEW d \in Call
               PROVE  /\ pc'[d] = "idle" => answer'[d] = "none" /\ told'[d] = "none"
                      /\ pc'[d] = "reply" => answer'[d] # "none"
                      /\ pc'[d] \in {"register", "create"} => kind'[d] = "register"
                      /\ pc'[d] = "login" => kind'[d] = "login"
                      /\ pc'[d] = "admit" => kind'[d] \in {"user", "admin"}
                      /\ Truthful(d, answer[d])' /\ Truthful(d, told[d])'
    BY DEF CallInv
  <2>1. CASE d = c
    BY <1>2, <2>1 DEF Truthful
  <2>2. CASE d # c
    <3>1. NewUser(d)' = NewUser(d) /\ Account(name[d])' = Account(name[d])
      BY <1>2, <2>2 DEF NewUser, Account
    <3> QED
      BY <1>2, <2>2, <3>1 DEF CallInv, Truthful
  <2> QED
    BY <2>1, <2>2
<1>4. TokenInv'
  BY <1>2, StaysBacked DEF TokenInv
<1>5. UniqueNames' /\ SessionMatchesAccount' /\ ServedIsEntitled'
  BY DEF UniqueNames, SessionMatchesAccount, ServedIsEntitled
<1> QED
  BY <1>1, <1>3, <1>4, <1>5

LEMMA FindExistingInv ==
  ASSUME NEW c \in Call
  PROVE  UserInv /\ FindExisting(c) => UserInv'
<1> SUFFICES ASSUME UserInv, FindExisting(c) PROVE UserInv'
  OBVIOUS
<1> USE DEF UserInv
<1>1. /\ pc[c] = "register"
      /\ UNCHANGED <<request, carried, told, users, issued, live, session, served>>
  BY DEF FindExisting
<1>2. UniqueNames'
  BY <1>1 DEF UniqueNames
<1>3. CASE Return(c, "20001") /\ Account(name[c]) # {} /\ UNCHANGED faults
  <2>1. TypeOK'
    BY <1>1, <1>3 DEF TypeOK, Return, Goto, Answers, request
  <2>2. Account(name[c])' = Account(name[c])
    BY <1>1 DEF Account, request
  <2>3. "20001" \in Answers
    BY DEF Answers
  <2> QED
    BY <1>1, <1>2, <1>3, <2>1, <2>2, <2>3, ReturnInv
<1>4. CASE Goto(c, "create") /\ UNCHANGED <<answer, faults>>
  <2>1. TypeOK'
    BY <1>1, <1>4 DEF TypeOK, Goto, request
  <2>2. \A d \in Call : pc'[d] = IF d = c THEN "create" ELSE pc[d]
    BY <1>4 DEF Goto, TypeOK
  <2>3. CallInv'
    BY <1>1, <1>4, <2>2 DEF CallInv, Truthful, NewUser, Account, request
  <2>4. TokenInv' /\ SessionMatchesAccount' /\ ServedIsEntitled'
    BY <1>1, <1>4, <2>2, TokensKept DEF request
  <2> QED
    BY <1>2, <2>1, <2>3, <2>4
<1>5. CASE DatabaseFails(c)
  <2>1. TypeOK'
    BY <1>1, <1>5, UserMaxFaults
    DEF TypeOK, DatabaseFails, Fault, Return, Goto, Answers, request
  <2>2. "50001" \in Answers
    BY DEF Answers
  <2> QED
    BY <1>1, <1>2, <1>5, <2>1, <2>2, ReturnInv DEF DatabaseFails
<1> QED
  BY <1>3, <1>4, <1>5 DEF FindExisting

LEMMA CreateInv ==
  ASSUME NEW c \in Call
  PROVE  UserInv /\ Create(c) => UserInv'
<1> SUFFICES ASSUME UserInv, Create(c) PROVE UserInv'
  OBVIOUS
<1> USE DEF UserInv
<1>1. /\ pc[c] = "create"
      /\ UNCHANGED <<request, carried, told, issued, live, session, served>>
  BY DEF Create
<1>2. PICK a \in {"ok", "20001", "50001"} :
        /\ Return(c, a)
        /\ faults' \in 0 .. MaxFaults
        /\ \/ users' = users /\ a # "ok"
           \/ users' = users \union {NewUser(c)} /\ UniqueName(name[c])
        /\ a = "20001" => ~UniqueName(name[c]) /\ users' = users
  <2>1. faults \in 0 .. MaxFaults
    BY DEF TypeOK
  <2>2. DatabaseFails(c) => Return(c, "50001") /\ faults' \in 0 .. MaxFaults
    BY <2>1, UserMaxFaults DEF DatabaseFails, Fault
  <2> QED
    BY <2>1, <2>2 DEF Create
<1>3. /\ NewUser(c) \in [name : Name, password : Password, role : {0, 1},
                         by : Call \union {None}]
      /\ NewUser(c).name = name[c]
  BY DEF NewUser, TypeOK
<1>4. TypeOK'
  <2>1. users' \subseteq [name : Name, password : Password, role : {0, 1},
                          by : Call \union {None}]
    BY <1>2, <1>3 DEF TypeOK
  <2> QED
    BY <1>1, <1>2, <2>1 DEF TypeOK, Return, Goto, Answers, request
<1>5. UniqueNames'
  BY <1>2, <1>3 DEF UniqueNames, UniqueName, Account
<1>6. a = "20001" => Account(name[c])' # {}
  BY <1>1, <1>2 DEF UniqueName, Account, request
<1>7. a \in Answers /\ a # "none" /\ users \subseteq users'
  BY <1>2 DEF Answers
<1>8. a = "ok" => NewUser(c) \in users'
  BY <1>2
<1> QED
  BY <1>1, <1>2, <1>4, <1>5, <1>6, <1>7, <1>8, ReturnInv

LEMMA LoginInv ==
  ASSUME NEW c \in Call
  PROVE  UserInv /\ Login(c) => UserInv'
<1> SUFFICES ASSUME UserInv, Login(c) PROVE UserInv'
  OBVIOUS
<1> USE DEF UserInv, request
<1>1. /\ pc[c] = "login" /\ kind[c] = "login"
      /\ UNCHANGED <<request, told, users, session, served>>
  BY DEF Login, CallInv
<1>2. PICK a \in {"ok", "20002", "50001"} :
        /\ Return(c, a)
        /\ faults' \in 0 .. MaxFaults
        /\ \/ a # "ok" /\ UNCHANGED <<carried, issued, live>>
           \/ \E u \in Account(name[c]), t \in Token :
                /\ Matches(u, password[c])
                /\ Issue(t, u, password[c])
                /\ carried' = [carried EXCEPT ![c] = t]
  <2>1. faults \in 0 .. MaxFaults
    BY DEF TypeOK
  <2>2. DatabaseFails(c) => Return(c, "50001") /\ faults' \in 0 .. MaxFaults
    BY <2>1, UserMaxFaults DEF DatabaseFails, Fault
  <2> QED
    BY <2>1, <2>2 DEF Login
<1>3. /\ answer' = [answer EXCEPT ![c] = a] /\ pc' = [pc EXCEPT ![c] = "reply"]
      /\ \A d \in Call : answer'[d] = IF d = c THEN a ELSE answer[d]
      /\ \A d \in Call : pc'[d] = IF d = c THEN "reply" ELSE pc[d]
  BY <1>2 DEF Return, Goto, TypeOK
<1>4. CallInv'
  BY <1>1, <1>2, <1>3 DEF CallInv, Truthful, NewUser, Account
<1>5. UniqueNames'
  BY <1>1 DEF UniqueNames
<1>6. CASE a # "ok" /\ UNCHANGED <<carried, issued, live>>
  <2>1. TypeOK'
    BY <1>1, <1>2, <1>3, <1>6 DEF TypeOK, Answers
  <2>2. TokenInv' /\ SessionMatchesAccount' /\ ServedIsEntitled'
    BY <1>1, <1>3, <1>6, TokensKept
  <2> QED
    BY <1>4, <1>5, <2>1, <2>2
<1>7. ASSUME NEW u \in Account(name[c]), NEW t \in Token,
             Matches(u, password[c]), Issue(t, u, password[c]),
             carried' = [carried EXCEPT ![c] = t]
      PROVE  UserInv'
  <2>0. PICK k : k = [name |-> u.name, role |-> u.role, password |-> password[c]]
    OBVIOUS
  <2>1. /\ u \in users /\ u.password = password[c]
        /\ t \notin live /\ ~Held(t)
        /\ issued' = [issued EXCEPT ![t] = k]
        /\ live' = live \union {t}
    BY <1>7, <2>0 DEF Account, Matches, Issue
  <2>2. k \in Claims /\ k.name = u.name /\ k.role = u.role /\ k.password = u.password
    BY <2>0, <2>1 DEF Claims, TypeOK
  <2>3. /\ \A s \in Token : issued'[s] = IF s = t THEN k ELSE issued[s]
        /\ \A d \in Call : carried'[d] = IF d = c THEN t ELSE carried[d]
    BY <1>7, <2>1 DEF TypeOK
  <2>4. Backed(k)'
    BY <1>1, <2>1, <2>2 DEF Backed
  <2>5. TypeOK'
    BY <1>1, <1>2, <1>3, <1>7, <2>1, <2>2 DEF TypeOK, Answers
  <2>6. TokenInv'
    <3>1. \A s \in live' : Backed(issued[s])'
      <4> SUFFICES ASSUME NEW s \in live' PROVE Backed(issued[s])'
        OBVIOUS
      <4>1. CASE s = t
        BY <2>3, <2>4, <4>1 DEF Backed
      <4>2. CASE s # t
        <5>1. s \in live /\ s \in Token
          BY <2>1, <4>2 DEF TypeOK
        <5> QED
          BY <1>1, <2>3, <4>2, <5>1 DEF TokenInv, Backed
      <4> QED
        BY <4>1, <4>2
    <3>2. ASSUME NEW d \in Call, kind[d] = "login", pc'[d] = "reply",
                 answer'[d] = "ok"
          PROVE  carried'[d] \in Token /\ Backed(issued[carried[d]])'
      <4>1. CASE d = c
        BY <2>3, <2>4, <4>1 DEF Backed
      <4>2. CASE d # c
        <5>1. carried[d] \in Token /\ Backed(issued[carried[d]])
          BY <1>3, <3>2, <4>2 DEF TokenInv
        <5>2. carried[d] # t
          BY <2>1 DEF Held
        <5> QED
          BY <1>1, <2>3, <4>2, <5>1, <5>2 DEF Backed
      <4> QED
        BY <4>1, <4>2
    <3> QED
      BY <1>1, <3>1, <3>2 DEF TokenInv
  <2>7. SessionMatchesAccount'
    <3>1. session # None => session.token # t /\ session.token \in Token
      BY <2>1 DEF Held, TypeOK, Sessions
    <3> QED
      BY <1>1, <2>3, <3>1 DEF SessionMatchesAccount
  <2>8. ServedIsEntitled'
    BY <1>1 DEF ServedIsEntitled
  <2> QED
    BY <1>4, <1>5, <2>5, <2>6, <2>7, <2>8
<1> QED
  BY <1>2, <1>6, <1>7

LEMMA SendInv ==
  ASSUME NEW c \in Call, NEW k \in Kinds
  PROVE  UserInv /\ Send(c, k) => UserInv'
<1> SUFFICES ASSUME UserInv, Send(c, k) PROVE UserInv'
  OBVIOUS
<1> USE DEF UserInv, Send
<1>1. /\ \A d \in Call : pc'[d] = IF d = c THEN "admit" ELSE pc[d]
      /\ \A d \in Call : kind'[d] = IF d = c THEN k ELSE kind[d]
      /\ \A d \in Call \ {c} : carried'[d] = carried[d]
      /\ k # "register" /\ k # "login"
      /\ UNCHANGED <<name, password, answer, told, users, issued, live,
                     session, served, faults>>
  BY DEF TypeOK, Goto
<1>2. TypeOK'
  BY <1>1 DEF TypeOK, Goto, Sessions
<1>3. CallInv'
  BY <1>1 DEF CallInv, Truthful, NewUser, Account
<1>4. TokenInv'
  BY <1>1, StaysBacked DEF TokenInv
<1>5. UniqueNames' /\ SessionMatchesAccount' /\ ServedIsEntitled'
  BY <1>1 DEF UniqueNames, SessionMatchesAccount, ServedIsEntitled
<1> QED
  BY <1>2, <1>3, <1>4, <1>5

LEMMA AdmitInv ==
  ASSUME NEW c \in Call
  PROVE  UserInv /\ Admit(c) => UserInv'
<1> SUFFICES ASSUME UserInv, Admit(c) PROVE UserInv'
  OBVIOUS
<1> USE DEF UserInv, request
<1>1. /\ pc[c] = "admit"
      /\ UNCHANGED <<request, carried, told, users, issued, live, session, faults>>
  BY DEF Admit
<1>2. PICK a \in {"ok", "10002", "10003"} :
        /\ Return(c, a)
        /\ served' = served \/ (carried[c] \in live /\ Authorized(c) /\ Serve(c))
  BY DEF Admit
<1>3. /\ \A d \in Call : answer'[d] = IF d = c THEN a ELSE answer[d]
      /\ \A d \in Call : pc'[d] = IF d = c THEN "reply" ELSE pc[d]
  BY <1>2 DEF Return, Goto, TypeOK
<1>4. kind[c] \in {"user", "admin"}
  BY <1>1 DEF CallInv
<1>5. CallInv'
  BY <1>1, <1>2, <1>3, <1>4 DEF CallInv, Truthful, NewUser, Account
<1>6. TokenInv'
  BY <1>1, <1>3, <1>4, StaysBacked DEF TokenInv
<1>7. UniqueNames' /\ SessionMatchesAccount'
  BY <1>1 DEF UniqueNames, SessionMatchesAccount
<1>8. served' \subseteq [claims : Claims, as : {"user", "admin"}] /\ ServedIsEntitled'
  <2>1. CASE served' = served
    BY <1>1, <2>1 DEF TypeOK, ServedIsEntitled
  <2>2. CASE carried[c] \in live /\ Authorized(c) /\ Serve(c)
    <3>1. Backed(issued[carried[c]])
      BY <2>2 DEF TokenInv
    <3>2. \A s \in served' :
            s \in served \/ s = [claims |-> issued[carried[c]], as |-> kind[c]]
      BY <2>2 DEF Serve
    <3>3. PICK u \in users :
            /\ u.name = issued[carried[c]].name
            /\ u.password = issued[carried[c]].password
            /\ kind[c] = "admin" => u.role = 1
      BY <2>2, <3>1 DEF Backed, Authorized
    <3>4. served' \subseteq [claims : Claims, as : {"user", "admin"}]
      BY <1>4, <3>1, <3>2 DEF TypeOK, Backed
    <3>5. ServedIsEntitled'
      BY <1>1, <3>2, <3>3 DEF ServedIsEntitled
    <3> QED
      BY <3>4, <3>5
  <2> QED
    BY <1>2, <2>1, <2>2
<1>9. TypeOK'
  BY <1>1, <1>2, <1>8 DEF TypeOK, Return, Goto, Answers
<1> QED
  BY <1>5, <1>6, <1>7, <1>8, <1>9

\* What the browser gets is what the service or the middleware has answered.
LEMMA SeenIsAnswer ==
  ASSUME NEW c \in Call, answer[c] \in Answers, answer[c] # "none"
  PROVE  Seen(c) = answer[c]
<1>1. CASE answer[c] = "ok"
  BY <1>1 DEF Seen
<1>2. CASE answer[c] # "ok"
  <2>1. answer[c] \in Codes
    BY <1>2 DEF Answers, Codes
  <2>2. FromGRPCError(ToGRPCError(answer[c])) = answer[c]
    BY <2>1 DEF FromGRPCError, ToGRPCError
  <2> QED
    BY <2>2 DEF Seen
<1> QED
  BY <1>1, <1>2

LEMMA DeliverInv ==
  ASSUME NEW c \in Call
  PROVE  UserInv /\ Deliver(c) => UserInv'
<1> SUFFICES ASSUME UserInv, Deliver(c) PROVE UserInv'
  OBVIOUS
<1> USE DEF UserInv, request
<1>1. /\ pc[c] = "reply" /\ answer[c] \in Answers /\ Seen(c) = answer[c]
      /\ UNCHANGED <<request, carried, answer, users, issued, live, served, faults>>
  BY SeenIsAnswer DEF Deliver, CallInv, TypeOK
<1>2. \/ session' = session \/ session' = None
      \/ answer[c] = "ok" /\ kind[c] = "login" /\ session' = SessionOf(c)
  BY <1>1 DEF Deliver
<1>3. /\ told' = [told EXCEPT ![c] = IF @ = "none" THEN answer[c] ELSE @]
      /\ pc' = [pc EXCEPT ![c] = "done"]
  BY <1>1 DEF Deliver, Goto
<1>4. /\ \A d \in Call : pc'[d] = IF d = c THEN "done" ELSE pc[d]
      /\ \A d \in Call : told'[d] \in {told[d], answer[d]}
      /\ \A d \in Call \ {c} : told'[d] = told[d]
  BY <1>3 DEF TypeOK
<1>5. CallInv'
  BY <1>1, <1>4 DEF CallInv, Truthful, NewUser, Account
<1>6. TokenInv'
  BY <1>1, <1>4, StaysBacked DEF TokenInv
<1>7. session' \in Sessions \union {None} /\ SessionMatchesAccount'
  <2>1. CASE session' = session
    BY <1>1, <2>1 DEF TypeOK, SessionMatchesAccount
  <2>2. CASE session' = None
    BY <2>2 DEF SessionMatchesAccount
  <2>3. CASE answer[c] = "ok" /\ kind[c] = "login" /\ session' = SessionOf(c)
    <3>1. carried[c] \in Token /\ Backed(issued[carried[c]])
      BY <1>1, <2>3 DEF TokenInv
    <3>2. session'.token = carried[c] /\ session'.role = issued[carried[c]].role
      BY <2>3 DEF SessionOf
    <3>3. session' \in Sessions
      BY <2>3, <3>1 DEF SessionOf, Sessions, Backed, Claims
    <3> QED
      BY <1>1, <3>1, <3>2, <3>3 DEF SessionMatchesAccount, Backed
  <2> QED
    BY <1>2, <2>1, <2>2, <2>3
<1>8. TypeOK'
  BY <1>1, <1>3, <1>7 DEF TypeOK
<1>9. UniqueNames' /\ ServedIsEntitled'
  BY <1>1 DEF UniqueNames, ServedIsEntitled
<1> QED
  BY <1>5, <1>6, <1>7, <1>8, <1>9

LEMMA TimeoutInv ==
  ASSUME NEW c \in Call
  PROVE  UserInv /\ Timeout(c) => UserInv'
<1> SUFFICES ASSUME UserInv, Timeout(c) PROVE UserInv'
  OBVIOUS
<1> USE DEF UserInv, request
<1>1. /\ pc[c] # "idle"
      /\ told' = [told EXCEPT ![c] = "50001"]
      /\ faults' = faults + 1 /\ faults < MaxFaults
      /\ UNCHANGED <<pc, request, carried, answer, users, issued, live, session,
                     served>>
  BY DeadlineIsInternal DEF Timeout, Fault
<1>2. TypeOK'
  <2>1. faults' \in 0 .. MaxFaults
    BY <1>1, UserMaxFaults DEF TypeOK
  <2> QED
    BY <1>1, <2>1 DEF TypeOK, Answers
<1>3. CallInv'
  BY <1>1 DEF CallInv, Truthful, NewUser, Account, TypeOK
<1>4. UniqueNames'
  BY <1>1 DEF UniqueNames
<1> QED
  BY <1>1, <1>2, <1>3, <1>4, TokensKept

LEMMA AnotherInv ==
  ASSUME NEW c \in Call
  PROVE  UserInv /\ Another(c) => UserInv'
<1> SUFFICES ASSUME UserInv, Another(c) PROVE UserInv'
  OBVIOUS
<1> USE DEF UserInv, Another, request
<1>1. /\ \A d \in Call : pc'[d] = IF d = c THEN "idle" ELSE pc[d]
      /\ \A d \in Call : answer'[d] = IF d = c THEN "none" ELSE answer[d]
      /\ \A d \in Call : told'[d] = IF d = c THEN "none" ELSE told[d]
      /\ \A d \in Call \ {c} : carried'[d] = carried[d]
  BY DEF TypeOK, Goto
<1>2. TypeOK'
  BY DEF TypeOK, Goto, Answers
<1>3. CallInv'
  BY <1>1 DEF CallInv, Truthful, NewUser, Account
<1>4. TokenInv'
  BY <1>1, StaysBacked DEF TokenInv
<1>5. UniqueNames' /\ SessionMatchesAccount' /\ ServedIsEntitled'
  BY DEF UniqueNames, SessionMatchesAccount, ServedIsEntitled
<1> QED
  BY <1>2, <1>3, <1>4, <1>5

\* A token that expires, a logout and a stutter.
LEMMA RestInv ==
  ASSUME UserInv, session' \in {session, None}, live' \subseteq live,
         UNCHANGED <<pc, request, carried, answer, told, users, issued, served,
                     faults>>
  PROVE  UserInv'
<1> USE DEF UserInv, request
<1>1. TypeOK'
  BY DEF TypeOK
<1>2. CallInv'
  BY DEF CallInv, Truthful, NewUser, Account
<1>3. TokenInv'
  BY StaysBacked DEF TokenInv
<1>4. UniqueNames' /\ SessionMatchesAccount' /\ ServedIsEntitled'
  BY DEF UniqueNames, SessionMatchesAccount, ServedIsEntitled
<1> QED
  BY <1>1, <1>2, <1>3, <1>4

LEMMA Inductive == Spec => []UserInv
<1>1. UserInv /\ [Next]_vars => UserInv'
  <2> SUFFICES ASSUME UserInv, [Next]_vars PROVE UserInv'
    OBVIOUS
  <2>1. ASSUME NEW c \in Call, NEW k \in Kinds, NEW n \in Name,
               NEW p \in Password, Submit(c, k, n, p)
        PROVE  UserInv'
    BY <2>1, SubmitInv
  <2>2. ASSUME NEW c \in Call, NEW k \in Kinds, Send(c, k) PROVE UserInv'
    BY <2>2, SendInv
  <2>3. ASSUME NEW c \in Call, FindExisting(c) PROVE UserInv'
    BY <2>3, FindExistingInv
  <2>4. ASSUME NEW c \in Call, Create(c) PROVE UserInv'
    BY <2>4, CreateInv
  <2>5. ASSUME NEW c \in Call, Login(c) PROVE UserInv'
    BY <2>5, LoginInv
  <2>6. ASSUME NEW c \in Call, Admit(c) PROVE UserInv'
    BY <2>6, AdmitInv
  <2>7. ASSUME NEW c \in Call, Deliver(c) PROVE UserInv'
    BY <2>7, DeliverInv
  <2>8. ASSUME NEW c \in Call, Timeout(c) PROVE UserInv'
    BY <2>8, TimeoutInv
  <2>9. ASSUME NEW c \in Call, Another(c) PROVE UserInv'
    BY <2>9, AnotherInv
  <2>10. CASE Logout
    BY <2>10, RestInv DEF Logout
  <2>11. ASSUME NEW t \in Token, TokenExpires(t) PROVE UserInv'
    BY <2>11, RestInv DEF TokenExpires
  <2>12. CASE UNCHANGED vars
    BY <2>12, RestInv DEF vars, request
  <2> QED
    BY <2>1, <2>2, <2>3, <2>4, <2>5, <2>6, <2>7, <2>8, <2>9, <2>10, <2>11, <2>12
    DEF Next
<1> QED
  BY <1>1, InitInv, PTL DEF Spec

-----------------------------------------------------------------------------
\* Every variable of UserService keeps its type.
THEOREM TypeCorrect == Spec => []TypeOK
<1>1. UserInv => TypeOK
  BY DEF UserInv
<1> QED
  BY <1>1, Inductive, PTL

\* Register leaves one account per name, however many registrations interleave,
\* and what it has told is true of the table.
THEOREM NamesAreUnique == Spec => []OneAccountPerName
<1>1. UserInv => OneAccountPerName
  BY DEF UserInv, CallInv, UniqueNames, Truthful, OneAccountPerName
<1> QED
  BY <1>1, Inductive, PTL

\* The middleware lets a request through only for an account whose password was
\* given at the login behind its token, and to the administrators' routes only
\* administrators.
THEOREM OnlyTheEntitledAreServed == Spec => []ServedIsEntitled
<1>1. UserInv => ServedIsEntitled
  BY DEF UserInv
<1> QED
  BY <1>1, Inductive, PTL

\* The role stored in the browser is the one of the account behind the token
\* that is stored with it.
THEOREM SessionIsTheAccounts == Spec => []SessionMatchesAccount
<1>1. UserInv => SessionMatchesAccount
  BY DEF UserInv
<1> QED
  BY <1>1, Inductive, PTL

-----------------------------------------------------------------------------
(* How a session ends.                                                     *)

\* Who may answer with a code that logs out: Login to a login, AuthMiddleware to
\* a token that has expired, and such a token does not come back to life while
\* somebody carries it.
RefusalInv ==
  \A c \in Call : pc[c] = "reply" =>
    /\ answer[c] = "20002" => kind[c] = "login"
    /\ answer[c] = "10002" => carried[c] \notin live

\* It is enough that a step changes no answer that is on its way, and brings no
\* token to life that such an answer refuses.
LEMMA RefusalsKept ==
  ASSUME RefusalInv,
         \A c \in Call : pc'[c] = "reply" /\ answer'[c] \in {"10002", "20002"} =>
           /\ pc[c] = "reply" /\ answer'[c] = answer[c]
           /\ kind'[c] = kind[c] /\ carried'[c] = carried[c],
         \A t \in live' : t \in live \/ ~Held(t)
  PROVE  RefusalInv'
<1> SUFFICES ASSUME NEW c \in Call, pc'[c] = "reply"
             PROVE  /\ answer'[c] = "20002" => kind'[c] = "login"
                    /\ answer'[c] = "10002" => carried'[c] \notin live'
  BY DEF RefusalInv
<1>1. ASSUME answer'[c] = "20002" PROVE kind'[c] = "login"
  BY <1>1 DEF RefusalInv
<1>2. ASSUME answer'[c] = "10002" PROVE carried'[c] \notin live'
  BY <1>2 DEF RefusalInv, Held
<1> QED
  BY <1>1, <1>2

LEMMA LoginRefusal ==
  ASSUME NEW c \in Call, UserInv, RefusalInv, Login(c)
  PROVE  RefusalInv'
<1>1. /\ pc[c] = "login" /\ kind[c] = "login"
      /\ UNCHANGED <<kind, session>>
      /\ \A t \in live' : t \in live \/ ~Held(t)
  BY DEF Login, UserInv, CallInv, request, Issue
<1>2. PICK a \in {"ok", "20002", "50001"} :
        /\ Return(c, a)
        /\ \/ carried' = carried
           \/ \E t \in Token : carried' = [carried EXCEPT ![c] = t]
  BY DEF Login, DatabaseFails
<1>3. \A d \in Call \ {c} :
        pc'[d] = pc[d] /\ answer'[d] = answer[d] /\ carried'[d] = carried[d]
  BY <1>2 DEF Return, Goto, UserInv, TypeOK
<1>4. answer'[c] = a
  BY <1>2 DEF Return, UserInv, TypeOK
<1> SUFFICES ASSUME NEW d \in Call, pc'[d] = "reply"
             PROVE  /\ answer'[d] = "20002" => kind'[d] = "login"
                    /\ answer'[d] = "10002" => carried'[d] \notin live'
  BY DEF RefusalInv
<1>5. CASE d = c
  BY <1>1, <1>4, <1>5
<1>6. CASE d # c
  <2>1. /\ answer[d] = "20002" => kind[d] = "login"
        /\ answer[d] = "10002" => carried[d] \notin live
    BY <1>3, <1>6 DEF RefusalInv
  <2> QED
    BY <1>1, <1>3, <1>6, <2>1 DEF Held
<1> QED
  BY <1>5, <1>6

LEMMA AdmitRefusal ==
  ASSUME NEW c \in Call, UserInv, RefusalInv, Admit(c)
  PROVE  RefusalInv'
<1>1. UNCHANGED <<kind, carried, live>>
  BY DEF Admit, request
<1>2. PICK a \in {"ok", "10002", "10003"} :
        Return(c, a) /\ (a = "10002" => carried[c] \notin live)
  BY DEF Admit
<1>3. /\ \A d \in Call \ {c} : pc'[d] = pc[d] /\ answer'[d] = answer[d]
      /\ answer'[c] = a
  BY <1>2 DEF Return, Goto, UserInv, TypeOK
<1> QED
  BY <1>1, <1>2, <1>3 DEF RefusalInv

LEMMA RefusalStep ==
  ASSUME UserInv, RefusalInv, [Next]_vars
  PROVE  RefusalInv'
<1>1. ASSUME NEW c \in Call, NEW k \in Kinds, NEW n \in Name,
             NEW p \in Password, Submit(c, k, n, p)
      PROVE  RefusalInv'
  BY <1>1, RefusalsKept DEF Submit, Goto, UserInv, TypeOK
<1>2. ASSUME NEW c \in Call, NEW k \in Kinds, Send(c, k) PROVE RefusalInv'
  BY <1>2, RefusalsKept DEF Send, Goto, UserInv, TypeOK
<1>3. ASSUME NEW c \in Call, FindExisting(c) PROVE RefusalInv'
  BY <1>3, RefusalsKept
  DEF FindExisting, DatabaseFails, Return, Goto, UserInv, TypeOK, request
<1>4. ASSUME NEW c \in Call, Create(c) PROVE RefusalInv'
  BY <1>4, RefusalsKept
  DEF Create, DatabaseFails, Return, Goto, UserInv, TypeOK, request
<1>5. ASSUME NEW c \in Call, Login(c) PROVE RefusalInv'
  BY <1>5, LoginRefusal
<1>6. ASSUME NEW c \in Call, Admit(c) PROVE RefusalInv'
  BY <1>6, AdmitRefusal
<1>7. ASSUME NEW c \in Call, Deliver(c) PROVE RefusalInv'
  BY <1>7, RefusalsKept DEF Deliver, Goto, UserInv, TypeOK, request
<1>8. ASSUME NEW c \in Call, Timeout(c) PROVE RefusalInv'
  BY <1>8, RefusalsKept DEF Timeout, request
<1>9. ASSUME NEW c \in Call, Another(c) PROVE RefusalInv'
  BY <1>9, RefusalsKept DEF Another, Goto, UserInv, TypeOK, request
<1>10. CASE Logout
  BY <1>10, RefusalsKept DEF Logout, request
<1>11. ASSUME NEW t \in Token, TokenExpires(t) PROVE RefusalInv'
  BY <1>11, RefusalsKept DEF TokenExpires, request
<1>12. CASE UNCHANGED vars
  BY <1>12, RefusalsKept DEF vars
<1> QED
  BY <1>1, <1>2, <1>3, <1>4, <1>5, <1>6, <1>7, <1>8, <1>9, <1>10, <1>11, <1>12
  DEF Next

LEMMA Refusals == Spec => []RefusalInv
<1>1. Init => RefusalInv
  BY DEF Init, RefusalInv
<1> QED
  BY <1>1, RefusalStep, Inductive, PTL DEF Spec

\* Only two answers log out.
LEMMA WhoLogsOut ==
  ASSUME NEW a \in Answers, a # "ok", a # "none", HttpStatus(a) = 401
  PROVE  a \in {"10002", "20002"}
<1> USE DEF HttpStatus
<1>1. a = "10003" => HttpStatus(a) # 401
  OBVIOUS
<1>2. a = "20001" => HttpStatus(a) # 401
  OBVIOUS
<1>3. a = "50001" => HttpStatus(a) # 401
  OBVIOUS
<1> QED
  BY <1>1, <1>2, <1>3 DEF Answers

\* The answer that ends a session while its token is live.
LEMMA DeliveredEnd ==
  ASSUME NEW c \in Call, UserInv, RefusalInv, Deliver(c),
         session # None, session' = None, session.token \in live
  PROVE  /\ pc[c] = "reply" /\ pc'[c] = "done"
         /\ \/ kind[c] = "login" /\ answer[c] = "20002"
            \/ answer[c] = "10002" /\ carried[c] # session.token
<1>1. /\ pc[c] = "reply" /\ answer[c] \in Answers /\ answer[c] # "none"
      /\ Seen(c) = answer[c]
  BY SeenIsAnswer DEF Deliver, UserInv, CallInv, TypeOK
<1>2. pc'[c] = "done"
  BY DEF Deliver, Goto, UserInv, TypeOK
<1>3. answer[c] = "ok" /\ kind[c] = "login" => SessionOf(c) # None
  <2> SUFFICES ASSUME answer[c] = "ok", kind[c] = "login" PROVE SessionOf(c) # None
    OBVIOUS
  <2>1. carried[c] \in Token /\ issued[carried[c]].role \in {0, 1}
    BY <1>1 DEF UserInv, TokenInv, Backed, Claims
  <2>2. SessionOf(c) \in [token : Token, role : {0, 1}]
    BY <2>1 DEF SessionOf
  <2> QED
    BY <2>2, NoTokenAssumption
<1>4. answer[c] # "ok" /\ HttpStatus(answer[c]) = 401
  BY <1>1, <1>3 DEF Deliver, LogsOut
<1>5. answer[c] \in {"10002", "20002"}
  BY <1>1, <1>4, WhoLogsOut
<1>6. CASE answer[c] = "20002"
  BY <1>1, <1>2, <1>6 DEF RefusalInv
<1>7. CASE answer[c] = "10002"
  BY <1>1, <1>2, <1>7 DEF RefusalInv
<1> QED
  BY <1>5, <1>6, <1>7

\* A session whose token is good ends by a logout, by a login that fails or by the
\* late refusal of another token: the answers on their way when the user logs in
\* again, and the errors of any other kind, do not end it.
THEOREM GoodSessionsLast == Spec => GoodSessionKept
<1> DEFINE KeptOrEnded ==
      session # None /\ session' = None /\ session.token \in live =>
        \/ pc' = pc
        \/ \E c \in Call :
             /\ pc[c] = "reply" /\ pc'[c] = "done"
             /\ \/ kind[c] = "login" /\ answer[c] = "20002"
                \/ answer[c] = "10002" /\ carried[c] # session.token
<1>1. UserInv /\ RefusalInv /\ [Next]_vars => [KeptOrEnded]_vars
  <2> SUFFICES ASSUME UserInv, RefusalInv, Next, session # None, session' = None,
                      session.token \in live
               PROVE  KeptOrEnded
    OBVIOUS
  <2>1. ASSUME NEW c \in Call, Deliver(c) PROVE KeptOrEnded
    BY <2>1, DeliveredEnd
  <2>2. (\E c \in Call : Deliver(c)) \/ Logout \/ session' = session
    BY DEF Next, Submit, Send, FindExisting, Create, Login, Admit, Timeout,
           Another, TokenExpires
  <2>3. Logout => pc' = pc
    BY DEF Logout
  <2> QED
    BY <2>1, <2>2, <2>3
<1> QED
  BY <1>1, Inductive, Refusals, PTL DEF Spec, GoodSessionKept
=============================================================================
