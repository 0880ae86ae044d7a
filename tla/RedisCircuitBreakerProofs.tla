---------------------- MODULE RedisCircuitBreakerProofs ----------------------
(***************************************************************************)
(* Proofs about RedisCircuitBreaker, for every set of callers and every    *)
(* threshold.                                                              *)
(***************************************************************************)
EXTENDS RedisCircuitBreaker, TLAPS

\* Every operation of the breaker stays in its type.
LEMMA BreakerType ==
  /\ NewBreaker \in Breakers
  /\ \A b \in Breakers : /\ Admit(b) \in Breakers /\ Cooled(b) \in Breakers
                         /\ AfterSuccess(b) \in Breakers
                         /\ AfterFailure(b) \in Breakers
<1>1. NewBreaker \in Breakers
  BY DEF NewBreaker, Breakers
<1>2. ASSUME NEW b \in Breakers PROVE AfterFailure(b) \in Breakers
  <2>1. b.failures + 1 \in Nat
    BY DEF Breakers
  <2>2. [b EXCEPT !.failures = @ + 1, !.probe = FALSE] \in Breakers
    BY <2>1 DEF Breakers
  <2> QED
    BY <2>2 DEF AfterFailure, Tripped, Breakers
<1> QED
  BY <1>1, <1>2 DEF Admit, AfterSuccess, Cooled, Breakers

\* A state the breaker can be in.
Sound(b) ==
  /\ b \in Breakers
  /\ b.probe <=> b.state = "half_open"
  /\ b.cooling => b.state = "open"
  /\ b.state = "closed" => b.failures < Threshold

\* No result, however late, takes the breaker out of those states, and no
\* result leaves it half open.
LEMMA BreakerSound ==
  ASSUME NEW b, Sound(b)
  PROVE  /\ ~FastFails(b) => Sound(Admit(b))
         /\ Sound(AfterSuccess(b)) /\ AfterSuccess(b).state # "half_open"
         /\ Sound(AfterFailure(b)) /\ AfterFailure(b).state # "half_open"
         /\ Sound(Cooled(b))
<1>1. NewBreaker \in Breakers /\ Tripped \in Breakers
  BY DEF NewBreaker, Tripped, Breakers
<1>2. /\ Admit(b) \in Breakers
      /\ AfterSuccess(b) \in Breakers
      /\ AfterFailure(b) \in Breakers
      /\ Cooled(b) \in Breakers
  BY BreakerType DEF Sound
<1>3. ~FastFails(b) => Sound(Admit(b))
  BY <1>2 DEF Sound, Admit, FastFails, Breakers
<1>4. Sound(AfterSuccess(b)) /\ AfterSuccess(b).state # "half_open"
  BY <1>1, ThresholdAssumption DEF Sound, AfterSuccess, NewBreaker
<1>5. Sound(AfterFailure(b)) /\ AfterFailure(b).state # "half_open"
  <2>1. CASE Trips(b)
    BY <1>1, <2>1 DEF Sound, AfterFailure, Tripped
  <2>2. CASE ~Trips(b)
    <3>1. /\ AfterFailure(b).state = b.state
          /\ AfterFailure(b).failures = b.failures + 1
          /\ AfterFailure(b).probe = FALSE
          /\ AfterFailure(b).cooling = b.cooling
      BY <2>2 DEF Sound, AfterFailure, Breakers
    <3>2. b.state # "half_open"
      BY <2>2 DEF Trips
    <3>3. b.state = "closed" => b.failures + 1 < Threshold
      BY <2>2, ThresholdAssumption DEF Trips, Sound, Breakers
    <3> QED
      BY <1>2, <3>1, <3>2, <3>3 DEF Sound
  <2> QED
    BY <2>1, <2>2
<1>6. Sound(Cooled(b))
  BY <1>2 DEF Sound, Cooled, Breakers
<1> QED
  BY <1>3, <1>4, <1>5, <1>6

-----------------------------------------------------------------------------
\* The inductive invariant: the breaker is in one of its sound states, the
\* gauge follows it, and a half-open breaker has its probe out or lost it.
ProbeOut ==
  breaker.state = "half_open" =>
    lost \/ \E c \in Caller : at[c] # "idle" /\ probing[c]

GaugeTruthful == gauge <=> breaker.state # "closed"

Inv == TypeOK /\ Sound(breaker) /\ GaugeTruthful /\ ProbeOut

LEMMA InvInit == Init => Inv
<1> SUFFICES ASSUME Init PROVE Inv
  OBVIOUS
<1>1. TypeOK
  BY BreakerType DEF Init, TypeOK
<1>2. Sound(breaker) /\ breaker.state = "closed"
  BY BreakerType, ThresholdAssumption DEF Init, Sound, NewBreaker
<1> QED
  BY <1>1, <1>2 DEF Init, Inv, GaugeTruthful, ProbeOut

LEMMA InvStep == Inv /\ [Next]_vars => Inv'
<1> SUFFICES ASSUME Inv, [Next]_vars PROVE Inv'
  OBVIOUS
<1> USE DEF Inv, TypeOK
<1>1. ASSUME NEW c \in Caller, BeforeRequest(c) PROVE Inv'
  <2>1. Sound(breaker')
    BY <1>1, BreakerSound DEF BeforeRequest
  <2>2. at'[c] # "idle"
    BY <1>1 DEF BeforeRequest
  <2>3. ProbeOut'
    <3>1. CASE breaker.state = "closed"
      BY <1>1, <3>1 DEF BeforeRequest, Admit, ProbeOut
    <3>2. CASE breaker.state # "closed"
      BY <1>1, <2>2, <3>2 DEF BeforeRequest, ProbeOut
    <3> QED
      BY <3>1, <3>2
  <2>4. GaugeTruthful'
    BY <1>1 DEF BeforeRequest, Admit, FastFails, GaugeTruthful, Breakers
  <2> QED
    BY <1>1, <2>1, <2>3, <2>4 DEF BeforeRequest, Sound
<1>2. ASSUME NEW c \in Caller, RedisAnswers(c) PROVE Inv'
  BY <1>2 DEF RedisAnswers, GaugeTruthful, ProbeOut
<1>3. ASSUME NEW c \in Caller, Succeed(c) PROVE Inv'
  <2>1. Sound(breaker') /\ breaker'.state = "closed"
    BY <1>3, BreakerSound DEF Succeed, AfterSuccess, NewBreaker
  <2> QED
    BY <1>3, <2>1 DEF Succeed, GaugeTruthful, ProbeOut, Sound
<1>4. ASSUME NEW c \in Caller, Fail(c) PROVE Inv'
  <2>1. Sound(breaker') /\ breaker'.state # "half_open"
    BY <1>4, BreakerSound DEF Fail
  <2>2. GaugeTruthful'
    BY <1>4
       DEF Fail, AfterFailure, Trips, Tripped, GaugeTruthful, Breakers
  <2> QED
    BY <1>4, <2>1, <2>2 DEF Fail, ProbeOut, Sound
<1>8. ASSUME NEW c \in Caller, Panic(c) PROVE Inv'
  <2>1. ProbeOut'
    <3>1. CASE probing[c]
      BY <1>8, <3>1 DEF Panic, ProbeOut
    <3>2. CASE ~probing[c]
      BY <1>8, <3>2 DEF Panic, ProbeOut
    <3> QED
      BY <3>1, <3>2
  <2> QED
    BY <1>8, <2>1 DEF Panic, GaugeTruthful
<1>5. CASE CoolDown
  <2>1. Sound(breaker') /\ breaker'.state = breaker.state
    BY <1>5, BreakerSound DEF CoolDown, Cooled, Breakers
  <2> QED
    BY <1>5, <2>1 DEF CoolDown, GaugeTruthful, ProbeOut, Sound
<1>6. CASE RedisChanges
  BY <1>6 DEF RedisChanges, GaugeTruthful, ProbeOut
<1>7. CASE UNCHANGED vars
  BY <1>7 DEF vars, GaugeTruthful, ProbeOut
<1> QED
  BY <1>1, <1>2, <1>3, <1>4, <1>5, <1>6, <1>7, <1>8 DEF Next

LEMMA Invariant == Spec => []Inv
BY InvInit, InvStep, PTL DEF Spec

\* Every variable keeps its type.
THEOREM TypeCorrect == Spec => []TypeOK
<1>1. Inv => TypeOK
  BY DEF Inv
<1> QED
  BY <1>1, Invariant, PTL

\* A half-open breaker waits for a probe that is really out, or that panicked.
THEOREM NeverHalfOpenForNothing == Spec => []HalfOpenHasProbe
<1>1. Inv => HalfOpenHasProbe
  BY DEF Inv, Sound, ProbeOut, HalfOpenHasProbe
<1> QED
  BY <1>1, Invariant, PTL

\* Metric, probe, clock and failure count agree with the state.
THEOREM CountersStayInStep == Spec => []CountersInStep
<1>1. Inv => CountersInStep
  BY DEF Inv, Sound, CountersInStep, GaugeTruthful
<1> QED
  BY <1>1, Invariant, PTL

=============================================================================
