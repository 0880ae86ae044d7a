----------------------------- MODULE UserService -----------------------------
(***************************************************************************)
(* Accounts and sessions: UserServiceServer.Register and Login, the JWT    *)
(* that a login issues, AuthMiddleware and AdminMiddleware that admit a    *)
(* request by its token, and the browser, whose pages share one            *)
(* localStorage: a login stores token and user info, an answer with HTTP   *)
(* status 401 throws both away, whichever request it answers.              *)
(*                                                                         *)
(* A Call is one request of the browser.  Calls interleave freely, and one *)
(* whose client has given up runs on.  Names are taken up to the collation *)
(* utf8mb4_unicode_ci, which the lookup and the unique index both use.     *)
(***************************************************************************)
EXTENDS ErrorCodes, FiniteSets

CONSTANTS
  Call,        \* requests
  Name,        \* user names
  Admin,       \* the name of the preset administrator
  Password,
  AdminPassword,
  Token,       \* the tokens that may be issued
  None,        \* no token, no session
  MaxFaults    \* bound on faults and timeouts in a behaviour

ASSUME AdminAssumption == Admin \in Name /\ AdminPassword \in Password
ASSUME NoTokenAssumption ==
  None \notin Token \union [token : Token, role : {0, 1}]
ASSUME UserMaxFaults == MaxFaults \in Nat

VARIABLES
  pc,        \* where each call is
  kind,      \* what it asks for: Register, Login, or a protected route
  name,      \* the name in its request
  password,  \* the password in its request
  carried,   \* the token in its Authorization header
  answer,    \* the answer on its way to the browser
  told,      \* what its page has been told
  users,     \* MySQL: the rows of the users table
  issued,    \* history: what each token says, and what was shown for it
  live,      \* tokens whose exp lies ahead
  session,   \* localStorage: token and userInfo, set and removed together
  served,    \* history: what the middleware has let through, with its claims
  faults     \* number of faults so far

vars == <<pc, kind, name, password, carried, answer, told, users, issued,
          live, session, served, faults>>

request == <<kind, name, password>>

Kinds == {"register", "login", "user", "admin"}

Init ==
  /\ pc = [c \in Call |-> "idle"]
  /\ kind = [c \in Call |-> "login"]
  /\ name = [c \in Call |-> Admin]
  /\ password = [c \in Call |-> AdminPassword]
  /\ carried = [c \in Call |-> None]
  /\ answer = [c \in Call |-> "none"]
  /\ told = [c \in Call |-> "none"]
  /\ users = {[name |-> Admin, password |-> AdminPassword, role |-> 1,
               by |-> None]}
  /\ issued = [t \in Token |-> None]
  /\ live = {}
  /\ session = None
  /\ served = {}
  /\ faults = 0

-----------------------------------------------------------------------------
Goto(c, s) == pc' = [pc EXCEPT ![c] = s]

Fault ==
  /\ faults < MaxFaults
  /\ faults' = faults + 1

Return(c, a) ==
  /\ answer' = [answer EXCEPT ![c] = a]
  /\ Goto(c, "reply")

Account(n) == {u \in users : u.name = n}

\* The Register or the Login form is submitted.
Submit(c, k, n, p) ==
  /\ pc[c] = "idle"
  /\ k \in {"register", "login"}
  /\ kind' = [kind EXCEPT ![c] = k]
  /\ name' = [name EXCEPT ![c] = n]
  /\ password' = [password EXCEPT ![c] = p]
  /\ Goto(c, k)
  /\ UNCHANGED <<carried, answer, told, users, issued, live, session, served,
                 faults>>

DatabaseFails(c) ==
  /\ Fault
  /\ Return(c, "50001")

-----------------------------------------------------------------------------
(* Register. *)

\* GetUserByUsername, then (not a state) the hash of the password.
FindExisting(c) ==
  /\ pc[c] = "register"
  /\ \/ /\ Account(name[c]) # {}
        /\ Return(c, "20001")
        /\ UNCHANGED faults
     \/ /\ Account(name[c]) = {}
        /\ Goto(c, "create")
        /\ UNCHANGED <<answer, faults>>
     \/ DatabaseFails(c)
  /\ UNCHANGED <<request, carried, told, users, issued, live, session,
                 served>>

NewUser(c) ==
  [name |-> name[c], password |-> password[c], role |-> 0, by |-> c]

\* Mutant: idx_username is not unique.
AnyName(n) == TRUE

\* idx_username admits the name.
UniqueName(n) == Account(n) = {}

Create(c) ==
  /\ pc[c] = "create"
  /\ \/ /\ UniqueName(name[c])
        /\ users' = users \union {NewUser(c)}
        /\ Return(c, "ok")
        /\ UNCHANGED faults
     \/ /\ ~UniqueName(name[c])
        /\ Return(c, "20001")
        /\ UNCHANGED <<users, faults>>
     \/ /\ DatabaseFails(c)
        /\ UNCHANGED users
     \/ /\ UniqueName(name[c])                \* committed, the answer lost
        /\ users' = users \union {NewUser(c)}
        /\ DatabaseFails(c)
  /\ UNCHANGED <<request, carried, told, issued, live, session, served>>

-----------------------------------------------------------------------------
(* Login. *)

\* Mutant: the password is not compared.
AnyPassword(u, p) == TRUE

\* bcrypt: pwd.Compare(user.Password, req.Password).
Matches(u, p) == u.password = p

Held(t) ==
  \/ session # None /\ session.token = t
  \/ \E c \in Call : carried[c] = t

\* A new token with the account's claims.  (An expired one that is nowhere held
\* is as good as new.  The password the login presented is remembered by nobody
\* but this specification.)
Issue(t, u, p) ==
  /\ t \notin live /\ ~Held(t)
  /\ issued' = [issued EXCEPT ![t] = [name |-> u.name, role |-> u.role,
                                     password |-> p]]
  /\ live' = live \union {t}

Login(c) ==
  /\ pc[c] = "login"
  /\ \/ /\ \A u \in Account(name[c]) : ~Matches(u, password[c])
        /\ Return(c, "20002")
        /\ UNCHANGED <<carried, issued, live, faults>>
     \/ /\ \E u \in Account(name[c]), t \in Token :
             /\ Matches(u, password[c])
             /\ Issue(t, u, password[c])
             /\ carried' = [carried EXCEPT ![c] = t]
        /\ Return(c, "ok")
        /\ UNCHANGED faults
     \/ DatabaseFails(c) /\ UNCHANGED <<carried, issued, live>>
  /\ UNCHANGED <<request, told, users, session, served>>

-----------------------------------------------------------------------------
(* A request to a protected route.                                         *)

\* The request interceptor reads the token when the request is sent.
Send(c, k) ==
  /\ pc[c] = "idle"
  /\ k \in {"user", "admin"}
  /\ session # None
  /\ kind' = [kind EXCEPT ![c] = k]
  /\ carried' = [carried EXCEPT ![c] = session.token]
  /\ Goto(c, "admit")
  /\ UNCHANGED <<name, password, answer, told, users, issued, live, session,
                 served, faults>>

\* Mutant: AdminMiddleware refuses nobody.
AnyRole(c) == TRUE

\* AdminMiddleware, on the routes for administrators only.
Authorized(c) == kind[c] = "admin" => issued[carried[c]].role = 1

Serve(c) ==
  served' = served \union {[claims |-> issued[carried[c]], as |-> kind[c]]}

\* AuthMiddleware: ParseToken accepts what is signed and not expired.
Admit(c) ==
  /\ pc[c] = "admit"
  /\ IF carried[c] \notin live
     THEN Return(c, "10002") /\ UNCHANGED served
     ELSE IF Authorized(c)
     THEN Serve(c) /\ Return(c, "ok")
     ELSE Return(c, "10003") /\ UNCHANGED served
  /\ UNCHANGED <<request, carried, told, users, issued, live, session, faults>>

-----------------------------------------------------------------------------
(* The browser.                                                            *)

\* What the browser gets of a call's answer: an error of Register or Login comes
\* through gRPC, one of the middleware from the gateway itself.
Seen(c) ==
  IF answer[c] # "ok" /\ kind[c] \in {"register", "login"}
  THEN FromGRPCError(ToGRPCError(answer[c]))
  ELSE answer[c]

\* Mutant: the request's name is stored with the session that was there.
SessionMixed(c) ==
  [token |-> IF session = None THEN carried[c] ELSE session.token,
   role  |-> issued[carried[c]].role]

\* setToken and setUserInfo, with the answer's token and role.
SessionOf(c) == [token |-> carried[c], role |-> issued[carried[c]].role]

\* Mutant: every error logs out.
AnyErrorLogsOut(c) == Seen(c) # "ok"

LogsOut(c) == Seen(c) # "ok" /\ HttpStatus(Seen(c)) = 401

\* The answer arrives: a login is stored, a 401 logs out, the page is told.
\* After a timeout nobody is there to do any of it.
Deliver(c) ==
  /\ pc[c] = "reply"
  /\ session' = IF told[c] # "none" THEN session
                ELSE IF LogsOut(c) THEN None
                ELSE IF Seen(c) = "ok" /\ kind[c] = "login" THEN SessionOf(c)
                ELSE session
  /\ told' = [told EXCEPT ![c] = IF @ = "none" THEN Seen(c) ELSE @]
  /\ Goto(c, "done")
  /\ UNCHANGED <<request, carried, answer, users, issued, live, served, faults>>

\* The gateway's 5s deadline, shown as an internal error; the call runs on.
Timeout(c) ==
  /\ pc[c] \in {"register", "create", "login", "reply"}
  /\ told[c] = "none"
  /\ Fault
  /\ told' = [told EXCEPT ![c] = FromGRPCError(Bare("DeadlineExceeded"))]
  /\ UNCHANGED <<pc, request, carried, answer, users, issued, live, session,
                 served>>

\* The logout button.
Logout ==
  /\ session # None
  /\ session' = None
  /\ UNCHANGED <<pc, request, carried, answer, told, users, issued, live,
                 served, faults>>

\* A finished call that left no account is as good as a new one.
Another(c) ==
  /\ pc[c] = "done"
  /\ \A u \in users : u.by # c
  /\ Goto(c, "idle")
  /\ carried' = [carried EXCEPT ![c] = None]
  /\ answer' = [answer EXCEPT ![c] = "none"]
  /\ told' = [told EXCEPT ![c] = "none"]
  /\ UNCHANGED <<request, users, issued, live, session, served, faults>>

\* Its exp, ExpireHours after it was issued, has come.
TokenExpires(t) ==
  /\ t \in live
  /\ live' = live \ {t}
  /\ UNCHANGED <<pc, request, carried, answer, told, users, issued, session,
                 served, faults>>

-----------------------------------------------------------------------------
Next ==
  \/ \E c \in Call :
       \/ \E k \in Kinds, n \in Name, p \in Password : Submit(c, k, n, p)
       \/ \E k \in Kinds : Send(c, k)
       \/ FindExisting(c) \/ Create(c) \/ Login(c) \/ Admit(c)
       \/ Deliver(c) \/ Timeout(c) \/ Another(c)
  \/ Logout
  \/ \E t \in Token : TokenExpires(t)

Spec == Init /\ [][Next]_vars

-----------------------------------------------------------------------------
Answers == {"none", "ok", "10002", "10003", "20001", "20002", "50001"}

Sessions == [token : Token, role : {0, 1}]

Claims == [name : Name, role : {0, 1}, password : Password]

\* The variables have their types.
TypeOK ==
  /\ pc \in [Call -> {"idle", "register", "create", "login", "admit", "reply",
                      "done"}]
  /\ kind \in [Call -> Kinds]
  /\ name \in [Call -> Name]
  /\ password \in [Call -> Password]
  /\ carried \in [Call -> Token \union {None}]
  /\ answer \in [Call -> Answers]
  /\ told \in [Call -> Answers]
  /\ users \subseteq [name : Name, password : Password, role : {0, 1},
                      by : Call \union {None}]
  /\ issued \in [Token -> Claims \union {None}]
  /\ live \subseteq Token
  /\ session \in Sessions \union {None}
  /\ served \subseteq [claims : Claims, as : {"user", "admin"}]
  /\ faults \in 0 .. MaxFaults

\* Two registrations of one name that both find it free, that run on after
\* their client has given up, or that are repeated because an answer was lost,
\* leave one account: whoever was told "ok" has it, and "the name exists" is
\* never said of a free name.
OneAccountPerName ==
  /\ \A u, v \in users : u.name = v.name => u = v
  /\ \A c \in Call : kind[c] = "register" =>
       /\ told[c] = "ok" => NewUser(c) \in users
       /\ told[c] = "20001" => Account(name[c]) # {}

\* A request is let through only on behalf of an account whose password was
\* given at the login behind its token, and to an administrators' route only
\* if the account is an administrator's, whatever the other calls of the same
\* browser have done to its session since.
ServedIsEntitled ==
  \A s \in served :
    \E u \in users :
      /\ u.name = s.claims.name
      /\ u.password = s.claims.password
      /\ s.as = "admin" => u.role = 1

\* What the pages go by (isAdmin) is what the server will go by: the stored
\* role is that of the account that the stored token speaks for.
SessionMatchesAccount ==
  session # None =>
    \E u \in users :
      u.name = issued[session.token].name /\ u.role = session.role

\* A session whose token is still good ends by the user's will, by a login that
\* fails, or by the late refusal of another token, never by an error of
\* another kind nor by the refusal of its own token.
GoodSessionKept ==
  [][session # None /\ session' = None /\ session.token \in live =>
       \/ pc' = pc
       \/ \E c \in Call :
            /\ pc[c] = "reply" /\ pc'[c] = "done"
            /\ \/ kind[c] = "login" /\ answer[c] = "20002"
               \/ answer[c] = "10002" /\ carried[c] # session.token]_vars

=============================================================================
