------------------------- MODULE RedisCircuitBreaker -------------------------
(***************************************************************************)
(* One redisCircuitBreaker and the goroutines that send Redis commands     *)
(* through it: Get, Set and DeletePrefix through cacheBreaker, SetNX and   *)
(* Eval through lockBreaker.  Every one of them calls beforeRequest, then  *)
(* talks to Redis without the mutex, then calls afterSuccess or            *)
(* afterFailure, so results arrive in any order and may find the breaker   *)
(* in another state than the one that let the request through.  A panic on *)
(* the way is caught by the gRPC server's recovery interceptor, and the    *)
(* breaker is then told nothing at all.                                    *)
(***************************************************************************)
EXTENDS RedisBreaker, FiniteSets

CONSTANT Caller

VARIABLES
  breaker,
  gauge,     \* the metric redis_circuit_open
  at,        \* where each caller is: idle, or with Redis, or with a result
  probing,   \* whether it was let through as a half-open probe
  redisUp,   \* Redis answers within the callers' deadlines
  lost       \* history: a probe has panicked, and no result has come since

vars == <<breaker, gauge, at, probing, redisUp, lost>>

Init ==
  /\ breaker = NewBreaker
  /\ gauge = FALSE
  /\ at = [c \in Caller |-> "idle"]
  /\ probing = [c \in Caller |-> FALSE]
  /\ redisUp \in BOOLEAN
  /\ lost = FALSE

\* beforeRequest lets the caller through.  (A caller it refuses returns with
\* ErrRedisCircuitOpen and has changed nothing.)
BeforeRequest(c) ==
  /\ at[c] = "idle"
  /\ ~FastFails(breaker)
  /\ breaker' = Admit(breaker)
  /\ at' = [at EXCEPT ![c] = "sent"]
  /\ probing' = [probing EXCEPT ![c] = breaker.state # "closed"]
  /\ UNCHANGED <<gauge, redisUp, lost>>

\* The command comes to its end: an answer, redis.Nil included, or an error.
RedisAnswers(c) ==
  /\ at[c] = "sent"
  /\ at' = [at EXCEPT ![c] = IF redisUp THEN "ok" ELSE "failed"]
  /\ UNCHANGED <<breaker, gauge, probing, redisUp, lost>>

\* The command panics: UnaryServerRecoveryInterceptor answers the caller, but
\* neither afterSuccess nor afterFailure is called (neither is deferred).
Panic(c) ==
  /\ at[c] = "sent"
  /\ at' = [at EXCEPT ![c] = "idle"]
  /\ probing' = [probing EXCEPT ![c] = FALSE]
  /\ lost' = (lost \/ probing[c])
  /\ UNCHANGED <<breaker, gauge, redisUp>>

\* Mutant: the metric is not cleared on recovery.
SucceedSilently(c) ==
  /\ at[c] = "ok"
  /\ breaker' = AfterSuccess(breaker)
  /\ at' = [at EXCEPT ![c] = "idle"]
  /\ probing' = [probing EXCEPT ![c] = FALSE]
  /\ lost' = FALSE
  /\ UNCHANGED <<gauge, redisUp>>

Succeed(c) ==
  /\ at[c] = "ok"
  /\ breaker' = AfterSuccess(breaker)
  /\ gauge' = FALSE
  /\ at' = [at EXCEPT ![c] = "idle"]
  /\ probing' = [probing EXCEPT ![c] = FALSE]
  /\ lost' = FALSE
  /\ UNCHANGED redisUp

Fail(c) ==
  /\ at[c] = "failed"
  /\ breaker' = AfterFailure(breaker)
  /\ gauge' = (gauge \/ Trips(breaker))
  /\ at' = [at EXCEPT ![c] = "idle"]
  /\ probing' = [probing EXCEPT ![c] = FALSE]
  /\ lost' = FALSE
  /\ UNCHANGED redisUp

CoolDown ==
  /\ breaker.cooling
  /\ breaker' = Cooled(breaker)
  /\ UNCHANGED <<gauge, at, probing, redisUp, lost>>

RedisChanges ==
  /\ redisUp' = ~redisUp
  /\ UNCHANGED <<breaker, gauge, at, probing, lost>>

Next ==
  \/ \E c \in Caller :
       \/ BeforeRequest(c) \/ RedisAnswers(c) \/ Panic(c)
       \/ Succeed(c) \/ Fail(c)
  \/ CoolDown
  \/ RedisChanges

Spec == Init /\ [][Next]_vars

\* Requests keep coming, a command ends (go-redis has socket timeouts), its
\* result is handed to the breaker, and time passes.
Fairness ==
  /\ WF_vars(\E c \in Caller : BeforeRequest(c))
  /\ \A c \in Caller : WF_vars(RedisAnswers(c) \/ Succeed(c) \/ Fail(c))
  /\ WF_vars(CoolDown)

FairSpec == Spec /\ Fairness

-----------------------------------------------------------------------------
\* The variables have their types.
TypeOK ==
  /\ breaker \in Breakers
  /\ gauge \in BOOLEAN
  /\ at \in [Caller -> {"idle", "sent", "ok", "failed"}]
  /\ probing \in [Caller -> BOOLEAN]
  /\ redisUp \in BOOLEAN
  /\ lost \in BOOLEAN

\* A half-open breaker always has its probe with Redis or on the way back, so
\* some result is due that takes it out of half open, unless the probe has
\* panicked: then it refuses every request until the result of an older one
\* comes in, for ever if there is none.  (A second consequence: beforeRequest
\* never finds the breaker half open without a probe, its last branch is dead
\* code.)
HalfOpenHasProbe ==
  breaker.state = "half_open" =>
    /\ breaker.probe
    /\ lost \/ \E c \in Caller : at[c] # "idle" /\ probing[c]

\* The breaker's books agree under every order of late results: the metric is
\* 1 exactly when requests are not let through freely, nothing but a half-open
\* breaker has a probe, and a closed one has spent less than its threshold,
\* whatever failures were counted while it was open.
CountersInStep ==
  /\ gauge <=> breaker.state # "closed"
  /\ breaker.probe => breaker.state = "half_open"
  /\ breaker.cooling => breaker.state = "open"
  /\ breaker.state = "closed" => breaker.failures < Threshold

\* When Redis is back for good, so is the cache (and the lock): the breaker
\* closes and stays closed, unless a probe panics and no result follows it.
ClosesWhenRedisIsBack ==
  <>[]redisUp /\ []<>(~lost) => <>[](breaker.state = "closed")

=============================================================================
