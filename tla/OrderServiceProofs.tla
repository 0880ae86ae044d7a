-------------------------- MODULE OrderServiceProofs --------------------------
(***************************************************************************)
(* Proofs about OrderService, for every set of attempts and pairs, every   *)
(* threshold of the breaker and every number of faults: types, the safety  *)
(* invariants, and that OrderService implements Purchase.                  *)
(***************************************************************************)
EXTENDS OrderService, TLAPS

\* Every operation of the breaker stays in its type.
LEMMA BreakerType ==
  /\ NewBreaker \in Breakers
  /\ \A b \in Breakers : /\ Admit(b) \in Breakers /\ Cooled(b) \in Breakers
                         /\ AfterSuccess(b) \in Breakers
                         /\ AfterFailure(b) \in Breakers
<1>1. NewBreaker \in Breakers
  BY DEF NewBreaker, Breakers
<1>2. ASSUME NEW b \in Breakers PROVE AfterFailure(b) \in Breakers
  <2>1. b.failures + 1 \in Nat
    BY DEF Breakers
  <2>2. [b EXCEPT !.failures = @ + 1, !.probe = FALSE] \in Breakers
    BY <2>1 DEF Breakers
  <2> QED
    BY <2>2 DEF AfterFailure, Tripped, Breakers
<1> QED
  BY <1>1, <1>2 DEF Admit, AfterSuccess, Cooled, Breakers

-----------------------------------------------------------------------------
(* Type correctness. *)

LEMMA IssueType ==
  ASSUME TypeOK, NEW r \in Request,
         NEW s1 \in Steps, NEW s2 \in Steps, NEW s3 \in Steps,
         Issue(r, s1, s2, s3)
  PROVE  /\ pc' \in [Request -> Steps]
         /\ breaker' \in Breakers
         /\ reply' \in [Request -> {"none", "set", "exists", "ran", "error"}]
BY BreakerType DEF TypeOK, Issue, Goto

LEMMA ReturnType ==
  ASSUME TypeOK, NEW r \in Request, NEW a \in Answers, Return(r, a)
  PROVE  pc' \in [Request -> Steps] /\ answer' \in [Request -> Answers]
BY DEF TypeOK, Return, Goto, Steps

LEMMA FaultType ==
  ASSUME TypeOK, Fault
  PROVE  faults' \in 0 .. MaxFaults
BY MaxFaultsAssumption DEF TypeOK, Fault

LEMMA GrantType ==
  ASSUME TypeOK, NEW r \in Request, Grant(r)
  PROVE  /\ lock' \in [Pair -> Request \union {None}]
         /\ lapsed' \in [Request -> BOOLEAN]
BY DEF TypeOK, Grant

LEMMA TypeInit == Init => TypeOK
<1> SUFFICES ASSUME Init PROVE TypeOK
  OBVIOUS
<1>1. pair \in [Request -> Pair]
  BY PairAssumption DEF Init
<1> QED
  BY <1>1, BreakerType, MaxFaultsAssumption
     DEF Init, TypeOK, Steps, Answers

LEMMA TypeStep == TypeOK /\ [Next]_vars => TypeOK'
<1> SUFFICES ASSUME TypeOK, [Next]_vars PROVE TypeOK'
  OBVIOUS
<1>1. ASSUME NEW r \in Request, NEW p \in Pair, Reject(r, p) \/ Accept(r, p)
      PROVE  TypeOK'
  BY <1>1 DEF TypeOK, Reject, Accept, Goto, Steps, Answers
<1>2. ASSUME NEW r \in Request, SetNX(r) PROVE TypeOK'
  BY <1>2, IssueType DEF TypeOK, SetNX, Steps
<1>3. ASSUME NEW r \in Request, SetNXRuns(r) PROVE TypeOK'
  <2>1. /\ lock' \in [Pair -> Request \union {None}]
        /\ lapsed' \in [Request -> BOOLEAN]
    <3>1. CASE Grant(r)
      BY <3>1, GrantType
    <3>2. CASE UNCHANGED <<lock, lapsed>>
      BY <3>2 DEF TypeOK
    <3> QED
      BY <1>3, <3>1, <3>2 DEF SetNXRuns
  <2>2. /\ pc' \in [Request -> Steps]
        /\ reply' \in [Request -> {"none", "set", "exists", "ran", "error"}]
    BY <1>3 DEF TypeOK, SetNXRuns, Goto, Steps
  <2> QED
    BY <1>3, <2>1, <2>2 DEF TypeOK, SetNXRuns
<1>4. ASSUME NEW r \in Request, SetNXAnswerLost(r) PROVE TypeOK'
  BY <1>4, FaultType, GrantType DEF TypeOK, SetNXAnswerLost, request
<1>5. ASSUME NEW r \in Request, SetNXFails(r) PROVE TypeOK'
  BY <1>5, FaultType DEF TypeOK, SetNXFails, CommandFails, Goto, Steps
<1>6. ASSUME NEW r \in Request, SetNXReturns(r) PROVE TypeOK'
  BY <1>6, BreakerType DEF TypeOK, SetNXReturns, Goto, Steps, Answers
<1>7. ASSUME NEW r \in Request, GetCourse(r) PROVE TypeOK'
  BY <1>7, FaultType, ReturnType
     DEF TypeOK, GetCourse, DatabaseFails, Goto, Steps, Answers
<1>8. ASSUME NEW r \in Request, CheckPurchase(r) PROVE TypeOK'
  BY <1>8, FaultType, ReturnType
     DEF TypeOK, CheckPurchase, DatabaseFails, Goto, Steps, Answers
<1>9. ASSUME NEW r \in Request, Insert(r) PROVE TypeOK'
  BY <1>9, FaultType, ReturnType
     DEF TypeOK, Insert, DatabaseFails, Row, Answers
<1>10. ASSUME NEW r \in Request, Unlock(r) PROVE TypeOK'
  BY <1>10, IssueType DEF TypeOK, Unlock, Steps
<1>11. ASSUME NEW r \in Request, EvalRuns(r) PROVE TypeOK'
  BY <1>11 DEF TypeOK, EvalRuns, Released, Goto, Steps
<1>12. ASSUME NEW r \in Request, EvalAnswerLost(r) PROVE TypeOK'
  BY <1>12, FaultType DEF TypeOK, EvalAnswerLost, Released, request
<1>13. ASSUME NEW r \in Request, EvalFails(r) PROVE TypeOK'
  BY <1>13, FaultType DEF TypeOK, EvalFails, CommandFails, Goto, Steps
<1>14. ASSUME NEW r \in Request, EvalReturns(r) PROVE TypeOK'
  BY <1>14, BreakerType DEF TypeOK, EvalReturns, Goto, Steps
<1>15. ASSUME NEW r \in Request, Deliver(r) PROVE TypeOK'
  BY <1>15 DEF TypeOK, Deliver, Goto, Steps
<1>16. ASSUME NEW r \in Request, Timeout(r) PROVE TypeOK'
  BY <1>16, FaultType DEF TypeOK, Timeout, Answers
<1>17. ASSUME NEW r \in Request, TryAgain(r) PROVE TypeOK'
  BY <1>17 DEF TypeOK, TryAgain, Goto, Steps, Answers
<1>18. ASSUME NEW p \in Pair, Expire(p) PROVE TypeOK'
  BY <1>18 DEF TypeOK, Expire, request
<1>19. CASE CoolDown
  BY <1>19, BreakerType DEF TypeOK, CoolDown, request
<1>20. CASE Crash
  BY <1>20, FaultType, BreakerType DEF TypeOK, Crash, Steps, Answers
<1>21. CASE UNCHANGED vars
  BY <1>21 DEF TypeOK, vars
<1> QED
  BY <1>1, <1>2, <1>3, <1>4, <1>5, <1>6, <1>7, <1>8, <1>9, <1>10, <1>11,
     <1>12, <1>13, <1>14, <1>15, <1>16, <1>17, <1>18, <1>19, <1>20, <1>21
     DEF Next, Ask, Handle, Disturb

\* Every variable keeps its type, in particular the lock value is an attempt's.
THEOREM TypeCorrect == Spec => []TypeOK
BY TypeInit, TypeStep, PTL DEF Spec

-----------------------------------------------------------------------------
(* The unique index. *)

LEMMA UniqueStep ==
  OneOrderPerPair /\ [Next]_vars => OneOrderPerPair'
<1> SUFFICES ASSUME OneOrderPerPair, [Next]_vars PROVE OneOrderPerPair'
  OBVIOUS
<1>1. ASSUME NEW r \in Request, Unique(Row(r)),
             orders' = orders \union {Row(r)}
      PROVE  OneOrderPerPair'
  BY <1>1 DEF OneOrderPerPair, Unique, Bought
<1>2. ASSUME orders' = orders PROVE OneOrderPerPair'
  BY <1>2 DEF OneOrderPerPair
<1>3. ASSUME NEW r \in Request, Insert(r) PROVE OneOrderPerPair'
  BY <1>1, <1>2, <1>3 DEF Insert
<1>4. CASE ~ \E r \in Request : Insert(r)
  <2>1. orders' = orders
    BY <1>4
       DEF Next, Ask, Handle, Disturb, Reject, Accept, SetNX, SetNXRuns,
           SetNXAnswerLost, SetNXFails, CommandFails, SetNXReturns, GetCourse,
           CheckPurchase, Unlock, EvalRuns, EvalAnswerLost, EvalFails,
           EvalReturns, Deliver, Timeout, TryAgain, Expire, CoolDown, Crash,
           vars
  <2> QED
    BY <1>2, <2>1
<1> QED
  BY <1>3, <1>4

\* A user never owns two orders for a course: the check-then-insert race is
\* decided by the unique index, whatever happens to the lock.
THEOREM NeverTwice == Spec => []OneOrderPerPair
<1>1. Init => OneOrderPerPair
  BY DEF Init, OneOrderPerPair
<1> QED
  BY <1>1, UniqueStep, PTL DEF Spec

-----------------------------------------------------------------------------
(* The answers.  An attempt's pair changes only while it is idle, and an   *)
(* idle attempt has neither answer nor claim; so what it was told stays    *)
(* true, rows being never removed.                                         *)

IdleIsFresh ==
  \A r \in Request : pc[r] = "idle" =>
    answer[r] = "none" /\ seen[r] = "none" /\ ~lockAcquired[r]

DecisionsTruthful == \A r \in Request : Truthful(r, answer[r])

AnswerInv == IdleIsFresh /\ DecisionsTruthful /\ AnswersTruthful

LEMMA ReturnAnswers ==
  ASSUME TypeOK, AnswerInv, NEW r \in Request, NEW a \in Answers,
         pc[r] # "idle", Return(r, a), Truthful(r, a)',
         pair' = pair, seen' = seen, lockAcquired' = lockAcquired,
         orders \subseteq orders'
  PROVE  AnswerInv'
<1>1. IdleIsFresh'
  BY DEF TypeOK, AnswerInv, IdleIsFresh, Return, Goto
<1>2. ASSUME NEW q \in Request PROVE Truthful(q, answer[q])'
  <2>1. CASE q = r
    BY <2>1 DEF TypeOK, Return, Truthful, Row
  <2>2. CASE q # r
    <3>1. Truthful(q, answer[q]) /\ answer'[q] = answer[q]
      BY <2>2 DEF TypeOK, Return, AnswerInv, DecisionsTruthful
    <3> QED
      BY <3>1 DEF Truthful, Row, Bought
  <2> QED
    BY <2>1, <2>2
<1>3. ASSUME NEW q \in Request PROVE Truthful(q, seen[q])'
  BY DEF AnswerInv, AnswersTruthful, Truthful, Row, Bought
<1> QED
  BY <1>1, <1>2, <1>3 DEF AnswerInv, DecisionsTruthful, AnswersTruthful

\* Steps that leave every answer, claim and pair alone.
LEMMA QuietAnswers ==
  ASSUME AnswerInv, pair' = pair, answer' = answer, seen' = seen,
         orders \subseteq orders',
         \A q \in Request : pc'[q] = "idle" =>
           pc[q] = "idle" /\ lockAcquired'[q] = lockAcquired[q]
  PROVE  AnswerInv'
BY DEF AnswerInv, IdleIsFresh, DecisionsTruthful, AnswersTruthful, Truthful,
       Row, Bought

LEMMA AnswerInit == Init => AnswerInv
BY DEF Init, AnswerInv, IdleIsFresh, DecisionsTruthful, AnswersTruthful,
       Truthful

LEMMA AnswerStep == TypeOK /\ AnswerInv /\ [Next]_vars => AnswerInv'
<1> SUFFICES ASSUME TypeOK, AnswerInv, [Next]_vars PROVE AnswerInv'
  OBVIOUS
<1> USE DEF TypeOK
<1>1. ASSUME NEW r \in Request, NEW p \in Pair, Reject(r, p)
      PROVE  AnswerInv'
  BY <1>1 DEF AnswerInv, IdleIsFresh, DecisionsTruthful, AnswersTruthful,
              Truthful, Row, Bought, Reject, Goto
<1>2. ASSUME NEW r \in Request, NEW p \in Pair, Accept(r, p)
      PROVE  AnswerInv'
  BY <1>2 DEF AnswerInv, IdleIsFresh, DecisionsTruthful, AnswersTruthful,
              Truthful, Row, Bought, Accept, Goto
<1>3. ASSUME NEW r \in Request, SetNX(r) PROVE AnswerInv'
  BY <1>3, QuietAnswers DEF SetNX, Issue, Goto
<1>4. ASSUME NEW r \in Request, SetNXRuns(r) PROVE AnswerInv'
  BY <1>4, QuietAnswers DEF SetNXRuns, Goto
<1>5. ASSUME NEW r \in Request, SetNXAnswerLost(r) PROVE AnswerInv'
  BY <1>5, QuietAnswers DEF SetNXAnswerLost, request
<1>6. ASSUME NEW r \in Request, SetNXFails(r) \/ EvalFails(r)
      PROVE  AnswerInv'
  BY <1>6, QuietAnswers DEF SetNXFails, EvalFails, CommandFails, Goto
<1>7. ASSUME NEW r \in Request, SetNXReturns(r) PROVE AnswerInv'
  <2>1. CASE reply[r] = "exists"
    BY <1>7, <2>1
       DEF AnswerInv, IdleIsFresh, DecisionsTruthful, AnswersTruthful,
           Truthful, Row, Bought, SetNXReturns, Goto
  <2>2. CASE reply[r] # "exists"
    BY <1>7, <2>2, QuietAnswers DEF SetNXReturns, Goto
  <2> QED
    BY <2>1, <2>2
<1>8. ASSUME NEW r \in Request, GetCourse(r) PROVE AnswerInv'
  <2>1. CASE Goto(r, "check") /\ UNCHANGED <<answer, faults>>
    BY <1>8, <2>1, QuietAnswers DEF GetCourse, Goto
  <2>2. CASE pair[r] \notin Listed /\ Return(r, "30001")
    BY <1>8, <2>2, ReturnAnswers DEF GetCourse, Truthful, Answers
  <2>3. CASE Return(r, "50001")
    BY <1>8, <2>3, ReturnAnswers DEF GetCourse, Truthful, Answers
  <2> QED
    BY <1>8, <2>1, <2>2, <2>3 DEF GetCourse, DatabaseFails
<1>9. ASSUME NEW r \in Request, CheckPurchase(r) PROVE AnswerInv'
  <2>1. CASE Goto(r, "insert") /\ UNCHANGED <<answer, faults>>
    BY <1>9, <2>1, QuietAnswers DEF CheckPurchase, Goto
  <2>2. CASE Bought(pair[r]) /\ Return(r, "40001")
    BY <1>9, <2>2, ReturnAnswers
       DEF CheckPurchase, Truthful, Answers, Bought
  <2>3. CASE Return(r, "50001")
    BY <1>9, <2>3, ReturnAnswers DEF CheckPurchase, Truthful, Answers
  <2> QED
    BY <1>9, <2>1, <2>2, <2>3 DEF CheckPurchase, DatabaseFails
<1>10. ASSUME NEW r \in Request, Insert(r) PROVE AnswerInv'
  <2>1. CASE Return(r, "ok") /\ orders' = orders \union {Row(r)}
    BY <1>10, <2>1, ReturnAnswers DEF Insert, Truthful, Answers, Row
  <2>2. CASE ~Unique(Row(r)) /\ Return(r, "40001") /\ UNCHANGED orders
    BY <1>10, <2>2, ReturnAnswers
       DEF Insert, Truthful, Answers, Unique, Row, Bought
  <2>3. CASE Return(r, "50001") /\ orders \subseteq orders'
    BY <1>10, <2>3, ReturnAnswers DEF Insert, Truthful, Answers
  <2> QED
    BY <1>10, <2>1, <2>2, <2>3 DEF Insert, DatabaseFails
<1>11. ASSUME NEW r \in Request, Unlock(r) PROVE AnswerInv'
  BY <1>11, QuietAnswers DEF Unlock, Issue, Goto
<1>12. ASSUME NEW r \in Request, EvalRuns(r) \/ EvalAnswerLost(r)
       PROVE  AnswerInv'
  BY <1>12, QuietAnswers DEF EvalRuns, EvalAnswerLost, request, Goto
<1>13. ASSUME NEW r \in Request, EvalReturns(r) PROVE AnswerInv'
  BY <1>13, QuietAnswers DEF EvalReturns, Goto
<1>14. ASSUME NEW r \in Request, Deliver(r) PROVE AnswerInv'
  BY <1>14 DEF AnswerInv, IdleIsFresh, DecisionsTruthful, AnswersTruthful,
               Truthful, Row, Bought, Deliver, Goto
<1>15. ASSUME NEW r \in Request, Timeout(r) PROVE AnswerInv'
  BY <1>15 DEF AnswerInv, IdleIsFresh, DecisionsTruthful, AnswersTruthful,
               Truthful, Row, Bought, Timeout
<1>16. ASSUME NEW r \in Request, TryAgain(r) PROVE AnswerInv'
  BY <1>16 DEF AnswerInv, IdleIsFresh, DecisionsTruthful, AnswersTruthful,
               Truthful, Row, Bought, TryAgain, Goto
<1>17. ASSUME NEW p \in Pair, Expire(p) PROVE AnswerInv'
  BY <1>17, QuietAnswers DEF Expire, request
<1>18. CASE CoolDown
  BY <1>18, QuietAnswers DEF CoolDown, request
<1>19. CASE Crash
  BY <1>19 DEF AnswerInv, IdleIsFresh, DecisionsTruthful, AnswersTruthful,
               Truthful, Row, Bought, Crash
<1>20. CASE UNCHANGED vars
  BY <1>20, QuietAnswers DEF vars
<1> QED
  BY <1>1, <1>2, <1>3, <1>4, <1>5, <1>6, <1>7, <1>8, <1>9, <1>10, <1>11,
     <1>12, <1>13, <1>14, <1>15, <1>16, <1>17, <1>18, <1>19, <1>20
     DEF Next, Ask, Handle, Disturb

\* What a client is told is true when it is told and stays true: in
\* particular at most one attempt on a pair reads "ok".
THEOREM ToldTheTruth == Spec => []AnswersTruthful
<1>1. AnswerInv => AnswersTruthful
  BY DEF AnswerInv
<1> QED
  BY <1>1, AnswerInit, AnswerStep, TypeCorrect, PTL DEF Spec

-----------------------------------------------------------------------------
(* The lease.  The key names an attempt on that very pair which is not     *)
(* idle, so a new attempt never starts with somebody's key under its name. *)

LockNamesItsPair ==
  \A p \in Pair : lock[p] # None => pair[lock[p]] = p /\ pc[lock[p]] # "idle"

\* lockAcquired is set only by the answer of SetNX.
NotYetAcquired ==
  \A r \in Request :
    pc[r] \in {"idle", "lock", "setnx", "setnx_back"} => ~lockAcquired[r]

\* The lease starts when Redis sets the key, before the handler knows.
Leases(r) ==
  \/ InCriticalSection(r)
  \/ pc[r] = "setnx_back" /\ reply[r] = "set"

LeaseHeld == \A r \in Request : Leases(r) /\ ~lapsed[r] => lock[pair[r]] = r

LeaseInv == LockNamesItsPair /\ NotYetAcquired /\ LeaseHeld

LEMMA LeaseInit == Init => LeaseInv
BY DEF Init, LeaseInv, LockNamesItsPair, NotYetAcquired, LeaseHeld, Leases,
       InCriticalSection

\* Steps that leave the lock table and the leases alone and start no lease.
LEMMA QuietLease ==
  ASSUME TypeOK, LeaseInv, NotYetAcquired',
         pair' = pair, lock' = lock, lapsed' = lapsed,
         \A q \in Request : /\ Leases(q)' => Leases(q)
                            /\ pc[q] # "idle" => pc'[q] # "idle"
  PROVE  LeaseInv'
BY DEF TypeOK, LeaseInv, LockNamesItsPair, LeaseHeld

LEMMA NotYetAcquiredStep == TypeOK /\ NotYetAcquired /\ [Next]_vars => NotYetAcquired'
<1> SUFFICES ASSUME TypeOK, NotYetAcquired, [Next]_vars PROVE NotYetAcquired'
  OBVIOUS
<1> USE DEF TypeOK, NotYetAcquired
<1>1. ASSUME NEW r \in Request, NEW p \in Pair, Reject(r, p) \/ Accept(r, p) PROVE NotYetAcquired'
  BY <1>1 DEF Reject, Accept, Goto
<1>2. ASSUME NEW r \in Request, SetNX(r) PROVE NotYetAcquired'
  BY <1>2 DEF SetNX, Issue, Goto
<1>3. ASSUME NEW r \in Request, SetNXRuns(r) PROVE NotYetAcquired'
  BY <1>3 DEF SetNXRuns, Goto
<1>4. ASSUME NEW r \in Request, SetNXAnswerLost(r) PROVE NotYetAcquired'
  BY <1>4 DEF SetNXAnswerLost, request
<1>5. ASSUME NEW r \in Request, SetNXFails(r) \/ EvalFails(r) PROVE NotYetAcquired'
  BY <1>5 DEF SetNXFails, EvalFails, CommandFails, Goto
<1>6. ASSUME NEW r \in Request, SetNXReturns(r) PROVE NotYetAcquired'
  BY <1>6 DEF SetNXReturns, Goto
<1>7. ASSUME NEW r \in Request, GetCourse(r) PROVE NotYetAcquired'
  BY <1>7 DEF GetCourse, Return, DatabaseFails, Goto
<1>8. ASSUME NEW r \in Request, CheckPurchase(r) PROVE NotYetAcquired'
  BY <1>8 DEF CheckPurchase, Return, DatabaseFails, Goto
<1>9. ASSUME NEW r \in Request, Insert(r) PROVE NotYetAcquired'
  BY <1>9 DEF Insert, Return, DatabaseFails, Goto
<1>10. ASSUME NEW r \in Request, Unlock(r) PROVE NotYetAcquired'
  BY <1>10 DEF Unlock, Issue, Goto
<1>11. ASSUME NEW r \in Request, EvalRuns(r) PROVE NotYetAcquired'
  BY <1>11 DEF EvalRuns, Goto
<1>12. ASSUME NEW r \in Request, EvalAnswerLost(r) PROVE NotYetAcquired'
  BY <1>12 DEF EvalAnswerLost, request
<1>13. ASSUME NEW r \in Request, EvalReturns(r) PROVE NotYetAcquired'
  BY <1>13 DEF EvalReturns, Goto
<1>14. ASSUME NEW r \in Request, Deliver(r) PROVE NotYetAcquired'
  BY <1>14 DEF Deliver, Goto
<1>15. ASSUME NEW r \in Request, Timeout(r) PROVE NotYetAcquired'
  BY <1>15 DEF Timeout, Goto
<1>16. ASSUME NEW r \in Request, TryAgain(r) PROVE NotYetAcquired'
  BY <1>16 DEF TryAgain, Goto
<1>17. CASE (\E p \in Pair : Expire(p)) \/ CoolDown
  BY <1>17 DEF Expire, CoolDown, request
<1>18. CASE Crash
  BY <1>18 DEF Crash
<1>19. CASE UNCHANGED vars
  BY <1>19 DEF vars
<1> QED
  BY <1>1, <1>2, <1>3, <1>4, <1>5, <1>6, <1>7, <1>8, <1>9, <1>10, <1>11, <1>12, <1>13, <1>14, <1>15, <1>16, <1>17, <1>18, <1>19
     DEF Next, Ask, Handle, Disturb

\* SetNX took effect for r, whose handler may or may not hear of it.
LEMMA GrantLease ==
  ASSUME TypeOK, LeaseInv, NotYetAcquired', NEW r \in Request, Grant(r),
         pc[r] # "idle", pair' = pair,
         \A q \in Request : pc[q] # "idle" => pc'[q] # "idle",
         \A q \in Request \ {r} : Leases(q)' => Leases(q)
  PROVE  LeaseInv'
<1> USE NoneAssumption DEF TypeOK, Grant
<1>1. LockNamesItsPair'
  BY DEF LeaseInv, LockNamesItsPair
<1>2. ASSUME NEW q \in Request, Leases(q)', ~lapsed'[q]
      PROVE  lock'[pair'[q]] = q
  <2>1. CASE q = r
    BY <2>1
  <2>2. CASE q # r
    BY <1>2, <2>2 DEF LeaseInv, LeaseHeld
  <2> QED
    BY <2>1, <2>2
<1> QED
  BY <1>1, <1>2 DEF LeaseInv, LeaseHeld

\* The script ran for r, which is past its critical section.
LEMMA ReleaseLease ==
  ASSUME TypeOK, LeaseInv, NotYetAcquired', NEW r \in Request, ~Leases(r)',
         lock' = Released(r), pair' = pair, lapsed' = lapsed,
         \A q \in Request : pc[q] # "idle" => pc'[q] # "idle",
         \A q \in Request \ {r} : Leases(q)' => Leases(q)
  PROVE  LeaseInv'
<1> USE NoneAssumption DEF TypeOK, Released
<1>1. LockNamesItsPair'
  BY DEF LeaseInv, LockNamesItsPair
<1>2. ASSUME NEW q \in Request, Leases(q)', ~lapsed'[q]
      PROVE  lock'[pair'[q]] = q
  BY <1>2 DEF LeaseInv, LeaseHeld
<1> QED
  BY <1>1, <1>2 DEF LeaseInv, LeaseHeld

LEMMA LeaseStep == TypeOK /\ LeaseInv /\ [Next]_vars => LeaseInv'
<1> SUFFICES ASSUME TypeOK, LeaseInv, [Next]_vars PROVE LeaseInv'
  OBVIOUS
<1>0. NotYetAcquired'
  BY NotYetAcquiredStep DEF LeaseInv
<1> USE <1>0 DEF TypeOK
<1>1. ASSUME NEW r \in Request, NEW p \in Pair, Reject(r, p) \/ Accept(r, p)
      PROVE  LeaseInv'
  <2>1. \A q \in Request : ~Leases(r)' /\ (Leases(q)' => Leases(q))
    BY <1>1 DEF Leases, InCriticalSection, Reject, Accept, Goto, LeaseInv,
                NotYetAcquired
  <2>2. LockNamesItsPair'
    BY <1>1, NoneAssumption
       DEF LeaseInv, LockNamesItsPair, Reject, Accept, Goto
  <2>3. LeaseHeld'
    BY <1>1, <2>1 DEF LeaseInv, LeaseHeld, Reject, Accept, Goto
  <2> QED
    BY <2>2, <2>3 DEF LeaseInv
<1>2. ASSUME NEW r \in Request, SetNX(r) PROVE LeaseInv'
  BY <1>2, QuietLease
     DEF SetNX, Issue, Goto, Leases, InCriticalSection, LeaseInv,
         NotYetAcquired
<1>3. ASSUME NEW r \in Request, SetNXRuns(r) PROVE LeaseInv'
  <2>1. CASE Grant(r)
    BY <1>3, <2>1, GrantLease
       DEF SetNXRuns, Goto, Leases, InCriticalSection
  <2>2. CASE UNCHANGED <<lock, lapsed>> /\ reply' = [reply EXCEPT ![r] = "exists"]
    BY <1>3, <2>2, QuietLease
       DEF SetNXRuns, Goto, Leases, InCriticalSection
  <2> QED
    BY <1>3, <2>1, <2>2 DEF SetNXRuns
<1>4. ASSUME NEW r \in Request, SetNXAnswerLost(r) PROVE LeaseInv'
  BY <1>4, GrantLease
     DEF SetNXAnswerLost, request, Leases, InCriticalSection
<1>5. ASSUME NEW r \in Request, SetNXFails(r) \/ EvalFails(r)
      PROVE  LeaseInv'
  BY <1>5, QuietLease
     DEF SetNXFails, EvalFails, CommandFails, Goto, Leases, InCriticalSection
<1>6. ASSUME NEW r \in Request, SetNXReturns(r) PROVE LeaseInv'
  BY <1>6, QuietLease DEF SetNXReturns, Goto, Leases, InCriticalSection
<1>7. ASSUME NEW r \in Request,
             GetCourse(r) \/ CheckPurchase(r) \/ Insert(r)
      PROVE  LeaseInv'
  BY <1>7, QuietLease
     DEF GetCourse, CheckPurchase, Insert, Return, DatabaseFails, Goto,
         Leases, InCriticalSection
<1>8. ASSUME NEW r \in Request, Unlock(r) PROVE LeaseInv'
  BY <1>8, QuietLease DEF Unlock, Issue, Goto, Leases, InCriticalSection
<1>9. ASSUME NEW r \in Request, EvalRuns(r) PROVE LeaseInv'
  BY <1>9, ReleaseLease DEF EvalRuns, Goto, Leases, InCriticalSection
<1>10. ASSUME NEW r \in Request, EvalAnswerLost(r) PROVE LeaseInv'
  BY <1>10, ReleaseLease
     DEF EvalAnswerLost, request, Leases, InCriticalSection
<1>11. ASSUME NEW r \in Request, EvalReturns(r) PROVE LeaseInv'
  BY <1>11, QuietLease DEF EvalReturns, Goto, Leases, InCriticalSection
<1>12. ASSUME NEW r \in Request, Deliver(r) PROVE LeaseInv'
  BY <1>12, QuietLease DEF Deliver, Goto, Leases, InCriticalSection
<1>13. ASSUME NEW r \in Request, Timeout(r) PROVE LeaseInv'
  BY <1>13, QuietLease DEF Timeout, Leases, InCriticalSection
<1>14. ASSUME NEW r \in Request, TryAgain(r) PROVE LeaseInv'
  BY <1>14 DEF TryAgain, Goto, Leases, InCriticalSection, LeaseInv, LeaseHeld,
               LockNamesItsPair
<1>15. ASSUME NEW p \in Pair, Expire(p) PROVE LeaseInv'
  BY <1>15, NoneAssumption
     DEF Expire, request, Leases, InCriticalSection, LeaseInv, LeaseHeld,
         LockNamesItsPair
<1>16. CASE CoolDown
  BY <1>16, QuietLease DEF CoolDown, request, Leases, InCriticalSection
<1>17. CASE Crash
  BY <1>17, QuietLease DEF Crash, Leases, InCriticalSection
<1>18. CASE UNCHANGED vars
  BY <1>18, QuietLease DEF vars, Leases, InCriticalSection
<1> QED
  BY <1>1, <1>2, <1>3, <1>4, <1>5, <1>6, <1>7, <1>8, <1>9, <1>10, <1>11,
     <1>12, <1>13, <1>14, <1>15, <1>16, <1>17, <1>18
     DEF Next, Ask, Handle, Disturb

\* While its lease has not lapsed, the lock in Redis is the attempt's own:
\* no other attempt's release, retry, failure or crash takes it away.
THEOREM LeaseIsExclusive == Spec => []LeaseExclusive
<1>1. LeaseInv => LeaseExclusive
  BY DEF LeaseInv, LeaseHeld, Leases, LeaseExclusive
<1> QED
  BY <1>1, LeaseInit, LeaseStep, TypeCorrect, PTL DEF Spec

-----------------------------------------------------------------------------
(* What holds as long as there is no fault.  No deadline has passed and the *)
(* breaker has never counted anything, so every Redis command is executed   *)
(* and answered.                                                            *)

Undisturbed ==
  /\ breaker = NewBreaker
  /\ \A r \in Request :
       /\ ~ctxDone[r] /\ reply[r] # "error"
       /\ answer[r] # "50001" /\ seen[r] # "50001"
       /\ pc[r] # "done" => seen[r] = "none"

\* The attempt that a lock names will come by its release: it has yet to hear
\* that it has the lock, or knows it, or is releasing it.
ToRelease(r) ==
  \/ pc[r] = "setnx_back" /\ reply[r] = "set"
  \/ pc[r] \in {"course", "check", "insert", "unlock"} /\ lockAcquired[r]
  \/ pc[r] = "eval"

LocksAttended == \A p \in Pair : lock[p] # None => ToRelease(lock[p])

\* Whoever wrote a row goes on to say so.
Acknowledges(r) ==
  \/ pc[r] \in {"unlock", "eval", "eval_back", "reply"} /\ answer[r] = "ok"
  \/ pc[r] = "done" /\ seen[r] = "ok"

RowsAcknowledged == \A o \in orders : Acknowledges(o.by)

CalmInv == faults = 0 => Undisturbed /\ LocksAttended /\ RowsAcknowledged

\* A step that leaves locks and rows alone and moves one attempt, from one
\* place on its way to the next.
LEMMA CalmMove ==
  ASSUME TypeOK, Undisturbed, LocksAttended, RowsAcknowledged, NEW r \in Request,
         breaker' = NewBreaker, UNCHANGED <<pair, lock, orders, ctxDone>>,
         \A q \in Request \ {r} :
           /\ pc'[q] = pc[q] /\ lockAcquired'[q] = lockAcquired[q]
           /\ reply'[q] = reply[q] /\ answer'[q] = answer[q] /\ seen'[q] = seen[q],
         reply'[r] # "error", answer'[r] # "50001", seen'[r] # "50001",
         pc'[r] # "done" => seen'[r] = "none",
         ToRelease(r) => ToRelease(r)',
         Acknowledges(r) => Acknowledges(r)'
  PROVE  Undisturbed' /\ LocksAttended' /\ RowsAcknowledged'
<1>1. Undisturbed'
  BY DEF Undisturbed
<1>2. \A q \in Request : /\ ToRelease(q) => ToRelease(q)'
                         /\ Acknowledges(q) => Acknowledges(q)'
  BY DEF ToRelease, Acknowledges
<1>3. LocksAttended'
  BY <1>2 DEF LocksAttended, TypeOK
<1>4. RowsAcknowledged'
  BY <1>2 DEF RowsAcknowledged, TypeOK
<1> QED
  BY <1>1, <1>3, <1>4

LEMMA CalmStep == TypeOK /\ LockNamesItsPair /\ CalmInv /\ [Next]_vars => CalmInv'
<1> SUFFICES ASSUME TypeOK, LockNamesItsPair, CalmInv, [Next]_vars, faults' = 0
             PROVE  Undisturbed' /\ LocksAttended' /\ RowsAcknowledged'
  BY DEF CalmInv
<1> DEFINE Goal == Undisturbed' /\ LocksAttended' /\ RowsAcknowledged'
<1>a. ~Fault
  BY DEF Fault, TypeOK
<1>b. faults = 0
  <2>1. faults' = faults \/ Fault
    BY DEF Next, Ask, Handle, Disturb, Reject, Accept, SetNX, SetNXRuns,
           SetNXAnswerLost, SetNXFails, CommandFails, SetNXReturns, GetCourse,
           CheckPurchase, Insert, DatabaseFails, Unlock, EvalRuns,
           EvalAnswerLost, EvalFails, EvalReturns, Deliver, Timeout, TryAgain,
           Expire, CoolDown, Crash, vars
  <2> QED
    BY <2>1, <1>a
<1>c. Undisturbed /\ LocksAttended /\ RowsAcknowledged
  BY <1>b DEF CalmInv
<1>d. ~FastFails(breaker) /\ Admit(breaker) = NewBreaker
  BY <1>c DEF Undisturbed, FastFails, Admit, NewBreaker
<1>1. ASSUME NEW r \in Request, NEW p \in Pair, Reject(r, p) \/ Accept(r, p)
      PROVE  Goal
  <2>1. /\ pc[r] = "idle" /\ pair' = [pair EXCEPT ![r] = p]
        /\ UNCHANGED <<lock, orders, breaker, ctxDone, reply, seen, lockAcquired>>
        /\ pc'[r] # "done"
        /\ \A q \in Request \ {r} : pc'[q] = pc[q] /\ answer'[q] = answer[q]
        /\ answer'[r] \in {answer[r], "10001"}
    BY <1>1 DEF Reject, Accept, Goto, TypeOK
  <2>2. ~ToRelease(r) /\ ~Acknowledges(r)
    BY <2>1 DEF ToRelease, Acknowledges
  <2>3. Undisturbed'
    BY <1>c, <2>1 DEF Undisturbed
  <2>4. LocksAttended' /\ RowsAcknowledged'
    BY <1>c, <2>1, <2>2
       DEF LocksAttended, RowsAcknowledged, ToRelease, Acknowledges, TypeOK
  <2> QED
    BY <2>3, <2>4
<1>2. ASSUME NEW r \in Request, SetNX(r) \/ Unlock(r) PROVE Goal
  BY <1>2, <1>c, <1>d, CalmMove
     DEF SetNX, Unlock, Issue, Goto, Undisturbed, ToRelease, Acknowledges, TypeOK
<1>3. ASSUME NEW r \in Request, SetNXRuns(r) PROVE Goal
  <2>1. CASE Grant(r)
    <3>1. /\ pc[r] = "setnx" /\ lock' = [lock EXCEPT ![pair[r]] = r]
          /\ UNCHANGED <<pair, lockAcquired, orders, breaker, ctxDone, answer, seen>>
          /\ pc' = [pc EXCEPT ![r] = "setnx_back"]
          /\ \/ reply' = [reply EXCEPT ![r] = "set"]
             \/ reply' = [reply EXCEPT ![r] = "exists"] /\ lock[pair[r]] # None
          /\ lock[pair[r]] = None
      BY <1>3, <2>1 DEF SetNXRuns, Grant, Goto
    <3>2. ToRelease(r)' /\ \A q \in Request \ {r} : ToRelease(q) => ToRelease(q)'
      BY <3>1 DEF ToRelease, TypeOK
    <3>3. Undisturbed'
      BY <1>c, <3>1 DEF Undisturbed, TypeOK
    <3>4. RowsAcknowledged'
      BY <1>c, <3>1 DEF RowsAcknowledged, Acknowledges, TypeOK
    <3>5. LocksAttended'
      BY <1>c, <3>1, <3>2 DEF LocksAttended, TypeOK
    <3> QED
      BY <3>3, <3>4, <3>5
  <2>2. CASE UNCHANGED <<lock, lapsed>> /\ reply' = [reply EXCEPT ![r] = "exists"]
    BY <1>3, <2>2, <1>c, CalmMove
       DEF SetNXRuns, Goto, Undisturbed, ToRelease, Acknowledges, TypeOK
  <2> QED
    BY <1>3, <2>1, <2>2 DEF SetNXRuns
<1>4. ASSUME NEW r \in Request, SetNXReturns(r) PROVE Goal
  <2>1. breaker' = NewBreaker
    BY <1>4, <1>c DEF SetNXReturns, AfterSuccess, Undisturbed
  <2>2. /\ pc[r] = "setnx_back"
        /\ UNCHANGED <<pair, lock, orders, ctxDone, reply, seen>>
        /\ \A q \in Request \ {r} :
             pc'[q] = pc[q] /\ lockAcquired'[q] = lockAcquired[q] /\ answer'[q] = answer[q]
        /\ answer'[r] \in {answer[r], "40002"}
        /\ pc'[r] = IF reply[r] = "exists" THEN "reply" ELSE "course"
    BY <1>4 DEF SetNXReturns, Goto, TypeOK
  <2>3. reply[r] = "set" => lockAcquired'[r]
    BY <1>4 DEF SetNXReturns, TypeOK
  <2>4. (ToRelease(r) => ToRelease(r)') /\ ~Acknowledges(r)
    BY <2>2, <2>3 DEF ToRelease, Acknowledges
  <2>5. /\ reply'[r] # "error" /\ answer'[r] # "50001" /\ seen'[r] # "50001"
        /\ pc'[r] # "done" => seen'[r] = "none"
    BY <1>c, <2>2 DEF Undisturbed
  <2> QED
    BY <1>c, <2>1, <2>2, <2>4, <2>5, CalmMove
<1>5. ASSUME NEW r \in Request, GetCourse(r) \/ CheckPurchase(r) PROVE Goal
  BY <1>5, <1>a, <1>c, CalmMove
     DEF GetCourse, CheckPurchase, DatabaseFails, Return, Goto, Undisturbed,
         ToRelease, Acknowledges, TypeOK
<1>6. ASSUME NEW r \in Request, Insert(r) PROVE Goal
  <2>1. CASE UNCHANGED orders
    BY <1>6, <2>1, <1>a, <1>c, CalmMove
       DEF Insert, DatabaseFails, Return, Goto, Undisturbed, ToRelease,
           Acknowledges, TypeOK
  <2>2. CASE orders' = orders \union {Row(r)} /\ Return(r, "ok")
    <3>1. /\ UNCHANGED <<pair, lock, lockAcquired, breaker, ctxDone, reply, seen>>
          /\ pc[r] = "insert"
      BY <1>6 DEF Insert
    <3>2. /\ answer' = [answer EXCEPT ![r] = "ok"]
          /\ pc' = [pc EXCEPT ![r] = IF lockAcquired[r] THEN "unlock" ELSE "reply"]
      BY <2>2 DEF Return, Goto
    <3>3. Undisturbed'
      BY <1>c, <3>1, <3>2 DEF Undisturbed, TypeOK
    <3>4. /\ Acknowledges(r)'
          /\ \A q \in Request : /\ ToRelease(q) => ToRelease(q)'
                                /\ Acknowledges(q) => Acknowledges(q)'
      BY <3>1, <3>2 DEF ToRelease, Acknowledges, TypeOK
    <3>5. LocksAttended' /\ RowsAcknowledged'
      BY <1>c, <2>2, <3>1, <3>4 DEF LocksAttended, RowsAcknowledged, Row, TypeOK
    <3> QED
      BY <3>3, <3>5
  <2> QED
    BY <1>6, <1>a, <2>1, <2>2 DEF Insert, DatabaseFails
<1>7. ASSUME NEW r \in Request, EvalRuns(r) PROVE Goal
  <2>1. /\ pc[r] = "eval" /\ pc' = [pc EXCEPT ![r] = "eval_back"]
        /\ reply' = [reply EXCEPT ![r] = "ran"] /\ lock' = Released(r)
        /\ UNCHANGED <<pair, lockAcquired, orders, breaker, ctxDone, answer, seen>>
    BY <1>7 DEF EvalRuns, Goto
  <2>2. Undisturbed'
    BY <1>c, <2>1 DEF Undisturbed, TypeOK
  <2>3. RowsAcknowledged'
    BY <1>c, <2>1 DEF RowsAcknowledged, Acknowledges, TypeOK
  <2>4. \A p \in Pair : lock'[p] # None => lock'[p] = lock[p] /\ lock[p] # r
    BY <2>1 DEF Released, LockNamesItsPair, TypeOK
  <2>5. LocksAttended'
    BY <1>c, <2>1, <2>4 DEF LocksAttended, ToRelease, TypeOK
  <2> QED
    BY <2>2, <2>3, <2>5
<1>8. ASSUME NEW r \in Request, EvalReturns(r) PROVE Goal
  <2>1. reply[r] # "error"
    BY <1>c DEF Undisturbed
  <2> QED
    BY <1>8, <2>1, <1>c, CalmMove
       DEF EvalReturns, AfterSuccess, Goto, Undisturbed, ToRelease, Acknowledges,
           TypeOK
<1>9. ASSUME NEW r \in Request, Deliver(r) PROVE Goal
  BY <1>9, <1>c, CalmMove
     DEF Deliver, Goto, Undisturbed, ToRelease, Acknowledges, TypeOK
<1>10. ASSUME NEW r \in Request, Disturb(r) PROVE Goal
  BY <1>10, <1>a, <1>c
     DEF Disturb, SetNXAnswerLost, SetNXFails, EvalAnswerLost, EvalFails,
         CommandFails, Timeout, Undisturbed
<1>11. ASSUME NEW r \in Request, TryAgain(r) PROVE Goal
  <2>1. /\ pc[r] = "done" /\ pc' = [pc EXCEPT ![r] = "idle"]
        /\ UNCHANGED <<pair, lock, orders, breaker>>
        /\ lockAcquired' = [lockAcquired EXCEPT ![r] = FALSE]
        /\ ctxDone' = [ctxDone EXCEPT ![r] = FALSE]
        /\ reply' = [reply EXCEPT ![r] = "none"]
        /\ answer' = [answer EXCEPT ![r] = "none"]
        /\ seen' = [seen EXCEPT ![r] = "none"]
        /\ \A o \in orders : o.by # r
    BY <1>11 DEF TryAgain, Goto
  <2>2. Undisturbed'
    BY <1>c, <2>1 DEF Undisturbed, TypeOK
  <2>3. LocksAttended'
    BY <1>c, <2>1 DEF LocksAttended, ToRelease, TypeOK
  <2>4. RowsAcknowledged'
    BY <1>c, <2>1 DEF RowsAcknowledged, Acknowledges, TypeOK
  <2> QED
    BY <2>2, <2>3, <2>4
<1>12. ASSUME NEW p \in Pair, Expire(p) PROVE Goal
  <2>1. /\ UNCHANGED <<request, orders, breaker>>
        /\ lock' = [lock EXCEPT ![p] = None]
    BY <1>12 DEF Expire
  <2> QED
    BY <1>c, <2>1
       DEF request, Undisturbed, LocksAttended, RowsAcknowledged, ToRelease,
           Acknowledges, TypeOK
<1>13. CASE CoolDown
  BY <1>13, <1>c DEF CoolDown, Undisturbed, NewBreaker
<1>14. CASE Crash
  BY <1>14, <1>a DEF Crash
<1>15. CASE UNCHANGED vars
  BY <1>15, <1>c
     DEF vars, Undisturbed, LocksAttended, RowsAcknowledged, ToRelease,
         Acknowledges
<1> QED
  BY <1>1, <1>2, <1>3, <1>4, <1>5, <1>6, <1>7, <1>8, <1>9, <1>10, <1>11,
     <1>12, <1>13, <1>14, <1>15 DEF Next, Ask, Handle

\* Without a fault no lock is left behind, every buyer gets its receipt and
\* nobody sees an internal error: no path through CreateOrder forgets either.
THEOREM FaultFreeHolds == Spec => []FaultFree
<1>1. Init => CalmInv
  BY DEF Init, CalmInv, Undisturbed, LocksAttended, RowsAcknowledged
<1>2. TypeOK /\ CalmInv => FaultFree
  BY DEF TypeOK, CalmInv, Undisturbed, LocksAttended, ToRelease,
         RowsAcknowledged, Acknowledges, FaultFree
<1>3. LeaseInv => LockNamesItsPair
  BY DEF LeaseInv
<1> QED
  BY <1>1, <1>2, <1>3, CalmStep, LeaseInit, LeaseStep, TypeCorrect, PTL DEF Spec

-----------------------------------------------------------------------------
(* Two more facts about where an attempt is. *)

\* A handler that is past its decision has one; one that is past GetCourse
\* asks for a course that exists; a finished attempt has told its client.
PathInv ==
  \A r \in Request :
    /\ pc[r] \in {"unlock", "eval", "eval_back", "reply"} => answer[r] # "none"
    /\ pc[r] \in {"check", "insert"} => pair[r] \in Listed
    /\ pc[r] = "done" => seen[r] # "none"

LEMMA PathStep == TypeOK /\ PathInv /\ [Next]_vars => PathInv'
<1> SUFFICES ASSUME TypeOK, PathInv, [Next]_vars PROVE PathInv'
  OBVIOUS
<1> USE DEF TypeOK, PathInv
<1>1. ASSUME NEW r \in Request, NEW p \in Pair, Reject(r, p) \/ Accept(r, p)
      PROVE  PathInv'
  BY <1>1 DEF Reject, Accept, Goto
<1>2. ASSUME NEW r \in Request, SetNX(r) \/ Unlock(r) PROVE PathInv'
  BY <1>2 DEF SetNX, Unlock, Issue, Goto
<1>3. ASSUME NEW r \in Request, SetNXRuns(r) \/ EvalRuns(r) PROVE PathInv'
  BY <1>3 DEF SetNXRuns, EvalRuns, Goto
<1>4. ASSUME NEW r \in Request, SetNXAnswerLost(r) \/ EvalAnswerLost(r)
      PROVE  PathInv'
  BY <1>4 DEF SetNXAnswerLost, EvalAnswerLost, request
<1>5. ASSUME NEW r \in Request, SetNXFails(r) \/ EvalFails(r) PROVE PathInv'
  BY <1>5 DEF SetNXFails, EvalFails, CommandFails, Goto
<1>6. ASSUME NEW r \in Request, SetNXReturns(r) \/ EvalReturns(r)
      PROVE  PathInv'
  BY <1>6 DEF SetNXReturns, EvalReturns, Goto
<1>7. ASSUME NEW r \in Request,
             GetCourse(r) \/ CheckPurchase(r) \/ Insert(r)
      PROVE  PathInv'
  BY <1>7
     DEF GetCourse, CheckPurchase, Insert, Return, DatabaseFails, Goto
<1>8. ASSUME NEW r \in Request, Deliver(r) \/ TryAgain(r) PROVE PathInv'
  BY <1>8 DEF Deliver, TryAgain, Goto
<1>9. ASSUME NEW r \in Request, Timeout(r) PROVE PathInv'
  BY <1>9 DEF Timeout
<1>10. CASE (\E p \in Pair : Expire(p)) \/ CoolDown
  BY <1>10 DEF Expire, CoolDown, request
<1>11. CASE Crash
  BY <1>11 DEF Crash
<1>12. CASE UNCHANGED vars
  BY <1>12 DEF vars
<1> QED
  BY <1>1, <1>2, <1>3, <1>4, <1>5, <1>6, <1>7, <1>8, <1>9, <1>10, <1>11,
     <1>12 DEF Next, Ask, Handle, Disturb

\* What the step of the refinement may assume.
RefInv == TypeOK /\ OneOrderPerPair /\ AnswerInv /\ PathInv

LEMMA RefInvariant == Spec => []RefInv
<1>1. Init => RefInv
  BY TypeInit, AnswerInit
     DEF RefInv, Init, OneOrderPerPair, PathInv
<1>2. RefInv /\ [Next]_vars => RefInv'
  BY TypeStep, UniqueStep, AnswerStep, PathStep DEF RefInv
<1> QED
  BY <1>1, <1>2, PTL DEF Spec

-----------------------------------------------------------------------------
(* The owner of a pair is the author of its only row. *)

LEMMA OnlyRow ==
  ASSUME NEW S, \A o1, o2 \in S : o1.pair = o2.pair => o1 = o2, NEW o \in S
  PROVE  (CHOOSE x \in S : x.pair = o.pair) = o
OBVIOUS

LEMMA OwnerIsAuthor ==
  ASSUME OneOrderPerPair, NEW o \in orders
  PROVE  OwnerOf(o.pair) = o.by
BY OnlyRow DEF OwnerOf, Bought, OneOrderPerPair

Owners == [p \in Pair |-> OwnerOf(p)]

\* Rows are only added, one at a time, so owners only appear.
LEMMA InsertBuys ==
  ASSUME RefInv, OneOrderPerPair', NEW r \in Request, Unique(Row(r)),
         orders' = orders \union {Row(r)}, pair' = pair
  PROVE  Owners[pair[r]] = None /\ Owners' = [Owners EXCEPT ![pair[r]] = r]
<1> USE DEF RefInv, TypeOK
<1>1. Owners[pair[r]] = None
  BY DEF Owners, OwnerOf, Unique, Row
<1>2. OwnerOf(pair[r])' = r
  <2>1. Row(r) \in orders' /\ Row(r).pair = pair[r] /\ Row(r).by = r
    BY DEF Row
  <2>2. (CHOOSE o \in orders' : o.pair = pair[r]) = Row(r)
    BY <2>1, OnlyRow DEF OneOrderPerPair
  <2> QED
    BY <2>1, <2>2 DEF OwnerOf, Bought
<1>3. ASSUME NEW p \in Pair, p # pair[r]
      PROVE  OwnerOf(p)' = OwnerOf(p)
  <2>1. CASE Bought(p)
    <3>1. PICK o \in orders : o.pair = p
      BY <2>1 DEF Bought
    <3>2. (CHOOSE x \in orders : x.pair = p) = o
      BY <3>1, OnlyRow DEF OneOrderPerPair
    <3>3. (CHOOSE x \in orders' : x.pair = p) = o
      BY <3>1, OnlyRow DEF OneOrderPerPair
    <3> QED
      BY <3>1, <3>2, <3>3 DEF OwnerOf, Bought
  <2>2. CASE ~Bought(p)
    <3>1. ~Bought(p)'
      BY <1>3, <2>2 DEF Bought, Row
    <3> QED
      BY <2>2, <3>1 DEF OwnerOf
  <2> QED
    BY <2>1, <2>2
<1> QED
  BY <1>1, <1>2, <1>3 DEF Owners

LEMMA SameOwners ==
  ASSUME orders' = orders
  PROVE  Owners' = Owners
BY DEF Owners, OwnerOf, Bought

\* What the handler has decided is what the abstract purchase may answer.
LEMMA DecisionAllowed ==
  ASSUME RefInv, NEW r \in Request
  PROVE  Abstract!Truthful(r, answer[r])
<1> DEFINE a == answer[r]
<1> USE DEF RefInv, TypeOK
<1>1. Truthful(r, a)
  BY DEF AnswerInv, DecisionsTruthful
<1>2. a = "ok" => Owners[pair[r]] = r
  <2> SUFFICES ASSUME a = "ok" PROVE Owners[pair[r]] = r
    OBVIOUS
  <2>1. Row(r) \in orders
    BY <1>1 DEF Truthful
  <2>2. OwnerOf(Row(r).pair) = Row(r).by
    BY <2>1, OwnerIsAuthor
  <2> QED
    BY <2>2 DEF Owners, Row
<1>3. a = "40001" => Owners[pair[r]] # None
  <2> SUFFICES ASSUME a = "40001" PROVE Owners[pair[r]] # None
    OBVIOUS
  <2>1. PICK o \in orders : o.pair = pair[r]
    BY <1>1 DEF Truthful, Bought
  <2>2. OwnerOf(pair[r]) = o.by
    BY <2>1, OwnerIsAuthor
  <2> QED
    BY <2>2, NoneAssumption DEF Owners
<1> QED
  BY <1>1, <1>2, <1>3 DEF Abstract!Truthful, Truthful, Owners

-----------------------------------------------------------------------------
(* The step. *)

\* Nothing the abstract purchase sees has changed.
LEMMA Stutter ==
  ASSUME orders' = orders, seen' = seen, pair' = pair,
         Working' = Working
  PROVE  UNCHANGED Abstract!vars
BY SameOwners DEF Abstract!vars, Owners

LEMMA RefInit == Init => Abstract!Init
<1> SUFFICES ASSUME Init PROVE Abstract!Init
  OBVIOUS
<1>1. pair \in [Request -> Pair]
  BY PairAssumption DEF Init
<1> QED
  BY <1>1 DEF Init, Abstract!Init, Working, OwnerOf, Bought

LEMMA InsertRefines ==
  ASSUME RefInv, RefInv', NEW r \in Request, Insert(r)
  PROVE  [Abstract!Next]_(Abstract!vars)
<1> USE DEF RefInv, TypeOK
<1>1. Working' = Working
  BY DEF Insert, Return, DatabaseFails, Goto, Working
<1>2. CASE Unique(Row(r)) /\ orders' = orders \union {Row(r)}
  <2>1. Owners[pair[r]] = None /\ Owners' = [Owners EXCEPT ![pair[r]] = r]
    BY <1>2, InsertBuys DEF Insert
  <2>2. r \in Working /\ pair[r] \in Listed
    BY DEF Insert, PathInv, Working
  <2>3. Abstract!Buy(r)
    BY <1>1, <2>1, <2>2 DEF Abstract!Buy, Owners, Insert
  <2> QED
    BY <2>3 DEF Abstract!Next
<1>3. CASE orders' = orders
  BY <1>1, <1>3, Stutter DEF Insert
<1> QED
  BY <1>2, <1>3 DEF Insert

LEMMA DeliverRefines ==
  ASSUME RefInv, NEW r \in Request, Deliver(r)
  PROVE  Abstract!Answer(r)
<1> USE DEF RefInv, TypeOK
<1>1. r \in Working /\ Working' = Working \ {r}
  BY DEF Deliver, Goto, Working
<1>2. Owners' = Owners /\ pair' = pair
  BY SameOwners DEF Deliver
<1>3. answer[r] \in {"ok", "10001", "30001", "40001", "40002", "50001"}
  BY DEF Deliver, PathInv, Answers
<1>4. seen' = [seen EXCEPT ![r] = IF seen[r] = "none" THEN answer[r]
                                  ELSE seen[r]]
  BY DEF Deliver
<1>5. CASE seen[r] = "none"
  BY <1>1, <1>2, <1>3, <1>4, <1>5, DecisionAllowed
     DEF Abstract!Answer, Owners
<1>6. CASE seen[r] # "none"
  <2>1. seen' = seen
    BY <1>4, <1>6
  <2> QED
    BY <1>1, <1>2, <1>6, <2>1 DEF Abstract!Answer, Owners
<1> QED
  BY <1>5, <1>6

LEMMA CrashRefines ==
  ASSUME RefInv, Crash
  PROVE  Abstract!Collapse
<1> USE DEF RefInv, TypeOK
<1>1. Working' = {}
  BY DEF Crash, Working
<1>2. Owners' = Owners /\ pair' = pair
  BY SameOwners DEF Crash
<1>3. seen' = [r \in Request |->
                 IF r \in Working /\ seen[r] = "none" THEN "50001" ELSE seen[r]]
  BY DEF Crash, Working, PathInv
<1> QED
  BY <1>1, <1>2, <1>3 DEF Abstract!Collapse, Owners

LEMMA StepRefines ==
  RefInv /\ RefInv' /\ [Next]_vars => [Abstract!Next]_(Abstract!vars)
<1> SUFFICES ASSUME RefInv, RefInv', [Next]_vars
             PROVE  [Abstract!Next]_(Abstract!vars)
  OBVIOUS
<1> USE DEF RefInv, TypeOK
<1>1. ASSUME NEW r \in Request, NEW p \in Pair, Reject(r, p) \/ Accept(r, p)
      PROVE  Abstract!Next
  <2>1. r \notin Working /\ Working' = Working \union {r}
    BY <1>1 DEF Reject, Accept, Goto, Working
  <2>2. seen[r] = "none"
    BY <1>1 DEF Reject, Accept, AnswerInv, IdleIsFresh
  <2>3. Owners' = Owners
    BY <1>1, SameOwners DEF Reject, Accept
  <2>4. Abstract!Begin(r, p)
    BY <1>1, <2>1, <2>2, <2>3 DEF Abstract!Begin, Owners, Reject, Accept
  <2> QED
    BY <2>4 DEF Abstract!Next
<1>2. ASSUME NEW r \in Request, SetNX(r) \/ Unlock(r)
      PROVE  UNCHANGED Abstract!vars
  <2>1. Working' = Working
    BY <1>2 DEF SetNX, Unlock, Issue, Goto, Working
  <2> QED
    BY <1>2, <2>1, Stutter DEF SetNX, Unlock
<1>3. ASSUME NEW r \in Request, SetNXRuns(r) \/ EvalRuns(r)
      PROVE  UNCHANGED Abstract!vars
  <2>1. Working' = Working
    BY <1>3 DEF SetNXRuns, EvalRuns, Goto, Working
  <2> QED
    BY <1>3, <2>1, Stutter DEF SetNXRuns, EvalRuns
<1>4. ASSUME NEW r \in Request, SetNXAnswerLost(r) \/ EvalAnswerLost(r)
      PROVE  UNCHANGED Abstract!vars
  BY <1>4, Stutter DEF SetNXAnswerLost, EvalAnswerLost, request, Working
<1>5. ASSUME NEW r \in Request, SetNXFails(r) \/ EvalFails(r)
      PROVE  UNCHANGED Abstract!vars
  <2>1. Working' = Working
    BY <1>5 DEF SetNXFails, EvalFails, CommandFails, Goto, Working
  <2> QED
    BY <1>5, <2>1, Stutter DEF SetNXFails, EvalFails, CommandFails
<1>6. ASSUME NEW r \in Request, SetNXReturns(r) \/ EvalReturns(r)
      PROVE  UNCHANGED Abstract!vars
  <2>1. Working' = Working
    BY <1>6 DEF SetNXReturns, EvalReturns, Goto, Working
  <2> QED
    BY <1>6, <2>1, Stutter DEF SetNXReturns, EvalReturns
<1>7. ASSUME NEW r \in Request, GetCourse(r) \/ CheckPurchase(r)
      PROVE  UNCHANGED Abstract!vars
  <2>1. Working' = Working
    BY <1>7
       DEF GetCourse, CheckPurchase, Return, DatabaseFails, Goto, Working
  <2> QED
    BY <1>7, <2>1, Stutter DEF GetCourse, CheckPurchase
<1>8. ASSUME NEW r \in Request, Insert(r)
      PROVE  [Abstract!Next]_(Abstract!vars)
  BY <1>8, InsertRefines
<1>9. ASSUME NEW r \in Request, Deliver(r) PROVE Abstract!Next
  BY <1>9, DeliverRefines DEF Abstract!Next
<1>10. ASSUME NEW r \in Request, Timeout(r) PROVE Abstract!Next
  <2>1. Working' = Working /\ r \in Working
    BY <1>10 DEF Timeout, Working
  <2>2. Owners' = Owners
    BY <1>10, SameOwners DEF Timeout
  <2>3. Abstract!GiveUp(r)
    BY <1>10, <2>1, <2>2 DEF Timeout, Abstract!GiveUp, Owners
  <2> QED
    BY <2>3 DEF Abstract!Next
<1>11. ASSUME NEW r \in Request, TryAgain(r) PROVE Abstract!Next
  <2>1. Working' = Working /\ r \notin Working
    BY <1>11 DEF TryAgain, Goto, Working
  <2>2. Owners' = Owners
    BY <1>11, SameOwners DEF TryAgain
  <2>3. \A p \in Pair : OwnerOf(p) # r
    BY <1>11, NoneAssumption, OwnerIsAuthor DEF TryAgain, OwnerOf, Bought
  <2>4. Abstract!Renew(r)
    BY <1>11, <2>1, <2>2, <2>3 DEF TryAgain, Abstract!Renew, Owners
  <2> QED
    BY <2>4 DEF Abstract!Next
<1>12. CASE (\E p \in Pair : Expire(p)) \/ CoolDown
  BY <1>12, Stutter DEF Expire, CoolDown, request, Working
<1>13. CASE Crash
  BY <1>13, CrashRefines DEF Abstract!Next
<1>14. CASE UNCHANGED vars
  BY <1>14, Stutter DEF vars, Working
<1> QED
  BY <1>1, <1>2, <1>3, <1>4, <1>5, <1>6, <1>7, <1>8, <1>9, <1>10, <1>11,
     <1>12, <1>13, <1>14 DEF Next, Ask, Handle, Disturb

\* CreateOrder, with its lock, its breaker, its deadline and its crashes, is
\* one atomic purchase of the pair and one true answer.
THEOREM ImplementsPurchase == Spec => PurchaseSpec
BY RefInit, StepRefines, RefInvariant, PTL
   DEF Spec, PurchaseSpec, Abstract!Spec

=============================================================================
