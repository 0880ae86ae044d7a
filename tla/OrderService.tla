----------------------------- MODULE OrderService -----------------------------
(***************************************************************************)
(* Buying a course: OrderHandler.CreateOrder of the gateway calls          *)
(* OrderServiceServer.CreateOrder of logic-server, which takes a Redis     *)
(* lock per (user, course) through a circuit breaker, checks the course    *)
(* and the existing purchase in MySQL, inserts the order under the unique  *)
(* index idx_user_course, and releases the lock in a deferred call.        *)
(*                                                                         *)
(* A Request is one attempt of one user: its identity is the uuid written  *)
(* into the lock.  A user who retries uses another Request.  The steps of  *)
(* different requests interleave freely; a Redis command has a step that   *)
(* the server executes it and a step that its answer is handled, so a      *)
(* timeout, an expiry or a trip of the breaker can fall between the two.   *)
(***************************************************************************)
EXTENDS RedisBreaker, FiniteSets

CONSTANTS
  Request,     \* attempts, named by their lock value
  Pair,        \* (user, course) pairs a client may send
  Valid,       \* those with positive ids
  Listed,      \* those whose course exists
  None,        \* no request: a free lock
  MaxFaults    \* bound on faults, timeouts and crashes in a behaviour

ASSUME PairAssumption ==
  Pair # {} /\ Listed \subseteq Valid /\ Valid \subseteq Pair
ASSUME NoneAssumption == None \notin Request
ASSUME MaxFaultsAssumption == MaxFaults \in Nat

VARIABLES
  cacheEnabled,  \* CACHE_ENABLED, read at start-up: s.cache # nil
  pc,            \* where each attempt is
  pair,          \* what it asks to buy
  lockAcquired,  \* the handler's local of that name
  ctxDone,       \* the gateway's 5s deadline has passed for it
  reply,         \* the pending answer of its Redis command
  answer,        \* what the handler has decided to return
  seen,          \* what the client has been told
  lock,          \* Redis: lock:order:user:U:course:C -> lock value
  orders,        \* MySQL: rows of the orders table
  breaker,       \* lockBreaker
  lapsed,        \* history: the attempt's lease ran out before its release
  faults         \* number of faults so far

vars == <<cacheEnabled, pc, pair, lockAcquired, ctxDone, reply, answer, seen,
          lock, orders, breaker, lapsed, faults>>

request == <<pc, pair, lockAcquired, ctxDone, reply, answer, seen>>

Answers == {"none", "ok", "10001", "30001", "40001", "40002", "50001"}

Steps == {"idle", "lock", "setnx", "setnx_back", "course", "check", "insert",
          "unlock", "eval", "eval_back", "reply", "done"}

Init ==
  /\ cacheEnabled \in BOOLEAN
  /\ pc = [r \in Request |-> "idle"]
  /\ pair = [r \in Request |-> CHOOSE p \in Pair : TRUE]
  /\ lockAcquired = [r \in Request |-> FALSE]
  /\ ctxDone = [r \in Request |-> FALSE]
  /\ reply = [r \in Request |-> "none"]
  /\ answer = [r \in Request |-> "none"]
  /\ seen = [r \in Request |-> "none"]
  /\ lock = [p \in Pair |-> None]
  /\ orders = {}
  /\ breaker = NewBreaker
  /\ lapsed = [r \in Request |-> FALSE]
  /\ faults = 0

-----------------------------------------------------------------------------
Goto(r, s) == pc' = [pc EXCEPT ![r] = s]

Fault ==
  /\ faults < MaxFaults
  /\ faults' = faults + 1

\* Mutant: the deferred release is missing.
ReturnWithoutDefer(r, a) ==
  /\ answer' = [answer EXCEPT ![r] = a]
  /\ Goto(r, "reply")

\* "return ..." after the lock has been tried: the deferred function runs, and
\* it does something only if this handler acquired the lock.
Return(r, a) ==
  /\ answer' = [answer EXCEPT ![r] = a]
  /\ Goto(r, IF lockAcquired[r] THEN "unlock" ELSE "reply")

\* A row for the pair exists: CheckPurchase's count, and the unique index.
Bought(p) == \E o \in orders : o.pair = p

-----------------------------------------------------------------------------
(* The request reaches the handler. *)

Reject(r, p) ==
  /\ pc[r] = "idle"
  /\ p \notin Valid
  /\ pair' = [pair EXCEPT ![r] = p]
  /\ answer' = [answer EXCEPT ![r] = "10001"]
  /\ Goto(r, "reply")
  /\ UNCHANGED <<cacheEnabled, lockAcquired, ctxDone, reply, seen, lock,
                 orders, breaker, lapsed, faults>>

Accept(r, p) ==
  /\ pc[r] = "idle"
  /\ p \in Valid
  /\ pair' = [pair EXCEPT ![r] = p]
  /\ Goto(r, IF cacheEnabled THEN "lock" ELSE "course")
  /\ UNCHANGED <<cacheEnabled, lockAcquired, ctxDone, reply, answer, seen,
                 lock, orders, breaker, lapsed, faults>>

-----------------------------------------------------------------------------
(* SetNX.  go-redis refuses to start a command whose context is done, and  *)
(* resends one whose answer was lost.                                      *)

\* A Redis command is issued: the breaker refuses it, or lets it through.
Issue(r, refused, sent, back) ==
  \/ /\ FastFails(breaker)
     /\ Goto(r, refused)
     /\ UNCHANGED <<breaker, reply>>
  \/ /\ ~FastFails(breaker)
     /\ breaker' = Admit(breaker)
     /\ IF ctxDone[r]
        THEN reply' = [reply EXCEPT ![r] = "error"] /\ Goto(r, back)
        ELSE reply' = [reply EXCEPT ![r] = "none"] /\ Goto(r, sent)

\* The command fails without having been executed.
CommandFails(r, at, back) ==
  /\ pc[r] = at
  /\ \/ ctxDone[r] /\ UNCHANGED faults
     \/ ~ctxDone[r] /\ Fault
  /\ reply' = [reply EXCEPT ![r] = "error"]
  /\ Goto(r, back)
  /\ UNCHANGED <<cacheEnabled, pair, lockAcquired, ctxDone, answer, seen,
                 lock, orders, breaker, lapsed>>

SetNX(r) ==
  /\ pc[r] = "lock"
  /\ Issue(r, "course", "setnx", "setnx_back")
  /\ UNCHANGED <<cacheEnabled, pair, lockAcquired, ctxDone, answer, seen,
                 lock, orders, lapsed, faults>>

Grant(r) ==
  /\ lock[pair[r]] = None
  /\ lock' = [lock EXCEPT ![pair[r]] = r]
  /\ lapsed' = [lapsed EXCEPT ![r] = FALSE]

SetNXRuns(r) ==
  /\ pc[r] = "setnx"
  /\ \/ /\ Grant(r)
        /\ reply' = [reply EXCEPT ![r] = "set"]
     \/ /\ lock[pair[r]] # None
        /\ reply' = [reply EXCEPT ![r] = "exists"]
        /\ UNCHANGED <<lock, lapsed>>
  /\ Goto(r, "setnx_back")
  /\ UNCHANGED <<cacheEnabled, pair, lockAcquired, ctxDone, answer, seen,
                 orders, breaker, faults>>

SetNXAnswerLost(r) ==
  /\ pc[r] = "setnx"
  /\ Fault
  /\ Grant(r)
  /\ UNCHANGED <<cacheEnabled, request, orders, breaker>>

SetNXFails(r) == CommandFails(r, "setnx", "setnx_back")

SetNXReturns(r) ==
  /\ pc[r] = "setnx_back"
  /\ breaker' = IF reply[r] = "error" THEN AfterFailure(breaker)
                                      ELSE AfterSuccess(breaker)
  /\ lockAcquired' = [lockAcquired EXCEPT ![r] = reply[r] = "set"]
  /\ IF reply[r] = "exists"
     THEN answer' = [answer EXCEPT ![r] = "40002"] /\ Goto(r, "reply")
     ELSE UNCHANGED answer /\ Goto(r, "course")
  /\ UNCHANGED <<cacheEnabled, pair, ctxDone, reply, seen, lock, orders,
                 lapsed, faults>>

-----------------------------------------------------------------------------
(* The database part.  The DAO methods take no context, so a passed        *)
(* deadline does not stop them.                                            *)

\* Mutant: every database error is taken for a duplicate key.
AnyErrorIsDuplicate(r) ==
  /\ Fault
  /\ Return(r, "40001")

DatabaseFails(r) ==
  /\ Fault
  /\ Return(r, "50001")

GetCourse(r) ==
  /\ pc[r] = "course"
  /\ \/ /\ pair[r] \in Listed
        /\ Goto(r, "check")
        /\ UNCHANGED <<answer, faults>>
     \/ /\ pair[r] \notin Listed
        /\ Return(r, "30001")
        /\ UNCHANGED faults
     \/ DatabaseFails(r)
  /\ UNCHANGED <<cacheEnabled, pair, lockAcquired, ctxDone, reply, seen,
                 lock, orders, breaker, lapsed>>

CheckPurchase(r) ==
  /\ pc[r] = "check"
  /\ \/ /\ Bought(pair[r])
        /\ Return(r, "40001")
        /\ UNCHANGED faults
     \/ /\ ~Bought(pair[r])
        /\ Goto(r, "insert")
        /\ UNCHANGED <<answer, faults>>
     \/ DatabaseFails(r)
  /\ UNCHANGED <<cacheEnabled, pair, lockAcquired, ctxDone, reply, seen,
                 lock, orders, breaker, lapsed>>

\* Mutant: the table has no unique index.
NoUniqueIndex(o) == TRUE

\* idx_user_course admits the row.
Unique(o) == ~Bought(o.pair)

Row(r) == [pair |-> pair[r], by |-> r]

Insert(r) ==
  /\ pc[r] = "insert"
  /\ \/ /\ Unique(Row(r))
        /\ orders' = orders \union {Row(r)}
        /\ Return(r, "ok")
        /\ UNCHANGED faults
     \/ /\ ~Unique(Row(r))
        /\ Return(r, "40001")
        /\ UNCHANGED <<orders, faults>>
     \/ /\ DatabaseFails(r)
        /\ UNCHANGED orders
     \/ /\ Unique(Row(r))                  \* committed, the answer lost
        /\ orders' = orders \union {Row(r)}
        /\ DatabaseFails(r)
  /\ UNCHANGED <<cacheEnabled, pair, lockAcquired, ctxDone, reply, seen,
                 lock, breaker, lapsed>>

-----------------------------------------------------------------------------
(* The deferred release: a compare-and-delete script through the breaker.  *)

Unlock(r) ==
  /\ pc[r] = "unlock"
  /\ Issue(r, "reply", "eval", "eval_back")
  /\ UNCHANGED <<cacheEnabled, pair, lockAcquired, ctxDone, answer, seen,
                 lock, orders, lapsed, faults>>

\* Mutant: the key is deleted without comparing its value.
DeletedAnyway(r) == [lock EXCEPT ![pair[r]] = None]

\* The lock table after the script has run for r.
Released(r) ==
  IF lock[pair[r]] = r THEN [lock EXCEPT ![pair[r]] = None] ELSE lock

EvalRuns(r) ==
  /\ pc[r] = "eval"
  /\ lock' = Released(r)
  /\ reply' = [reply EXCEPT ![r] = "ran"]
  /\ Goto(r, "eval_back")
  /\ UNCHANGED <<cacheEnabled, pair, lockAcquired, ctxDone, answer, seen,
                 orders, breaker, lapsed, faults>>

EvalAnswerLost(r) ==
  /\ pc[r] = "eval"
  /\ Fault
  /\ lock' = Released(r)
  /\ UNCHANGED <<cacheEnabled, request, orders, breaker, lapsed>>

EvalFails(r) == CommandFails(r, "eval", "eval_back")

\* Mutant: the release is repeated until Redis confirms it.
EvalRepeats(r) ==
  /\ pc[r] = "eval_back"
  /\ breaker' = IF reply[r] = "error" THEN AfterFailure(breaker)
                                      ELSE AfterSuccess(breaker)
  /\ Goto(r, IF reply[r] = "error" THEN "unlock" ELSE "reply")
  /\ UNCHANGED <<cacheEnabled, pair, lockAcquired, ctxDone, reply, answer,
                 seen, lock, orders, lapsed, faults>>

EvalReturns(r) ==
  /\ pc[r] = "eval_back"
  /\ breaker' = IF reply[r] = "error" THEN AfterFailure(breaker)
                                      ELSE AfterSuccess(breaker)
  /\ Goto(r, "reply")
  /\ UNCHANGED <<cacheEnabled, pair, lockAcquired, ctxDone, reply, answer,
                 seen, lock, orders, lapsed, faults>>

-----------------------------------------------------------------------------
(* The answer, the deadline, and a user's next attempt. *)

\* Mutant: an answer that comes after the deadline replaces the error.
DeliverLate(r) ==
  /\ pc[r] = "reply"
  /\ seen' = [seen EXCEPT ![r] = answer[r]]
  /\ Goto(r, "done")
  /\ UNCHANGED <<cacheEnabled, pair, lockAcquired, ctxDone, reply, answer,
                 lock, orders, breaker, lapsed, faults>>

\* The handler's return reaches the gateway; after a timeout nobody reads it.
Deliver(r) ==
  /\ pc[r] = "reply"
  /\ seen' = [seen EXCEPT ![r] = IF @ = "none" THEN answer[r] ELSE @]
  /\ Goto(r, "done")
  /\ UNCHANGED <<cacheEnabled, pair, lockAcquired, ctxDone, reply, answer,
                 lock, orders, breaker, lapsed, faults>>

\* context.WithTimeout(5s): DeadlineExceeded is shown as ErrInternal, and the
\* handler, which goes on, has a context that is done.
Timeout(r) ==
  /\ pc[r] \notin {"idle", "done"}
  /\ seen[r] = "none"
  /\ Fault
  /\ seen' = [seen EXCEPT ![r] = "50001"]
  /\ ctxDone' = [ctxDone EXCEPT ![r] = TRUE]
  /\ UNCHANGED <<cacheEnabled, pc, pair, lockAcquired, reply, answer, lock,
                 orders, breaker, lapsed>>

\* A finished attempt whose uuid is stored nowhere is as good as a new one.
TryAgain(r) ==
  /\ pc[r] = "done"
  /\ lock[pair[r]] # r
  /\ \A o \in orders : o.by # r
  /\ Goto(r, "idle")
  /\ lockAcquired' = [lockAcquired EXCEPT ![r] = FALSE]
  /\ ctxDone' = [ctxDone EXCEPT ![r] = FALSE]
  /\ reply' = [reply EXCEPT ![r] = "none"]
  /\ answer' = [answer EXCEPT ![r] = "none"]
  /\ seen' = [seen EXCEPT ![r] = "none"]
  /\ lapsed' = [lapsed EXCEPT ![r] = FALSE]
  /\ UNCHANGED <<cacheEnabled, pair, lock, orders, breaker, faults>>

-----------------------------------------------------------------------------
(* The environment: the lock's 10s TTL, the breaker's clock, a crash. *)

\* Mutant: the lock is set without a TTL.
NeverExpires(p) == FALSE

Expire(p) ==
  /\ lock[p] # None
  /\ lapsed' = [lapsed EXCEPT ![lock[p]] = TRUE]
  /\ lock' = [lock EXCEPT ![p] = None]
  /\ UNCHANGED <<cacheEnabled, request, orders, breaker, faults>>

CoolDown ==
  /\ breaker.cooling
  /\ breaker' = Cooled(breaker)
  /\ UNCHANGED <<cacheEnabled, request, lock, orders, lapsed, faults>>

\* logic-server dies and is restarted: every handler in it is gone and its
\* caller sees Unavailable, the breaker starts anew, Redis and MySQL keep
\* what they have.
Crash ==
  /\ Fault
  /\ pc' = [r \in Request |-> IF pc[r] = "idle" THEN "idle" ELSE "done"]
  /\ seen' = [r \in Request |->
                IF pc[r] # "idle" /\ seen[r] = "none" THEN "50001" ELSE seen[r]]
  /\ breaker' = NewBreaker
  /\ UNCHANGED <<cacheEnabled, pair, lockAcquired, ctxDone, reply, answer,
                 lock, orders, lapsed>>

-----------------------------------------------------------------------------
Handle(r) ==
  \/ SetNX(r) \/ SetNXRuns(r) \/ SetNXReturns(r)
  \/ GetCourse(r) \/ CheckPurchase(r) \/ Insert(r)
  \/ Unlock(r) \/ EvalRuns(r) \/ EvalReturns(r)
  \/ Deliver(r)

Ask(r) == \E p \in Pair : Reject(r, p) \/ Accept(r, p)

Disturb(r) ==
  \/ SetNXAnswerLost(r) \/ SetNXFails(r)
  \/ EvalAnswerLost(r) \/ EvalFails(r)
  \/ Timeout(r)

Next ==
  \/ \E r \in Request : Ask(r) \/ Handle(r) \/ Disturb(r) \/ TryAgain(r)
  \/ \E p \in Pair : Expire(p)
  \/ CoolDown
  \/ Crash

Spec == Init /\ [][Next]_vars

\* The handler runs to its end, a key with a TTL goes, time passes, and users
\* who did not get through try again.
Fairness ==
  /\ \A r \in Request : WF_vars(Handle(r)) /\ WF_vars(TryAgain(r))
  /\ \A r \in Request : \A p \in Listed : SF_vars(Accept(r, p))
  /\ \A p \in Pair : WF_vars(Expire(p))
  /\ WF_vars(CoolDown)

FairSpec == Spec /\ Fairness

-----------------------------------------------------------------------------
\* The variables have their types.
TypeOK ==
  /\ cacheEnabled \in BOOLEAN
  /\ pc \in [Request -> Steps]
  /\ pair \in [Request -> Pair]
  /\ lockAcquired \in [Request -> BOOLEAN]
  /\ ctxDone \in [Request -> BOOLEAN]
  /\ reply \in [Request -> {"none", "set", "exists", "ran", "error"}]
  /\ answer \in [Request -> Answers]
  /\ seen \in [Request -> Answers]
  /\ lock \in [Pair -> Request \union {None}]
  /\ orders \subseteq [pair : Pair, by : Request]
  /\ breaker \in Breakers
  /\ lapsed \in [Request -> BOOLEAN]
  /\ faults \in 0 .. MaxFaults

-----------------------------------------------------------------------------
\* idx_user_course does its work under every interleaving of check-then-insert,
\* also when the lock has expired, was never taken, or was lost: a user never
\* owns two orders for a course.
OneOrderPerPair ==
  \A o1, o2 \in orders : o1.pair = o2.pair => o1 = o2

\* What a client reads is true of the database: "ok" only for the attempt whose
\* row is there (so no two attempts on a pair both succeed), "already purchased"
\* only if somebody's order exists, "course not found" and "invalid parameters"
\* only for such a pair.
Truthful(r, a) ==
  /\ a = "ok" => Row(r) \in orders
  /\ a = "40001" => Bought(pair[r])
  /\ a = "30001" => pair[r] \notin Listed
  /\ a = "10001" => pair[r] \notin Valid

AnswersTruthful == \A r \in Request : Truthful(r, seen[r])

\* Between a successful SetNX and the release, the key in Redis is this
\* attempt's as long as its lease has not run out: nobody's release, retry or
\* crash takes it away.  Two attempts are therefore in the critical section
\* together only if the first one's lease has lapsed.
InCriticalSection(r) ==
  lockAcquired[r] /\ pc[r] \in {"course", "check", "insert", "unlock"}

LeaseExclusive ==
  \A r \in Request :
    InCriticalSection(r) /\ ~lapsed[r] => lock[pair[r]] = r

\* A lock outlives its handler, a buyer is not told of the order it got, and an
\* internal error is shown, only after a fault: no path through CreateOrder
\* forgets the lock or the receipt.
FaultFree ==
  faults = 0 =>
    /\ \A p \in Pair : lock[p] # None =>
         pc[lock[p]] \in {"setnx_back", "course", "check", "insert", "unlock",
                          "eval"}
    /\ \A o \in orders : pc[o.by] = "done" => seen[o.by] = "ok"
    /\ \A r \in Request : seen[r] # "50001"

\* A user who keeps asking ends up owning the course, whatever finite number of
\* faults occurs: no leaked lock and no open breaker shuts the pair for good.
EventuallyBought == \A p \in Listed : <>Bought(p)

\* Every attempt gets to its end; none hangs on a lock, on Redis or on another.
EveryAttemptEnds == \A r \in Request : pc[r] # "idle" ~> pc[r] = "done"

\* CreateOrder implements the abstract purchase.
OwnerOf(p) ==
  IF Bought(p) THEN (CHOOSE o \in orders : o.pair = p).by ELSE None

Working == {r \in Request : pc[r] \notin {"idle", "done"}}

Abstract == INSTANCE Purchase WITH asking <- Working, asked <- pair,
                                   owner <- [p \in Pair |-> OwnerOf(p)],
                                   told <- seen

PurchaseSpec == Abstract!Spec
=============================================================================
