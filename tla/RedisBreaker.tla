---------------------------- MODULE RedisBreaker ----------------------------
(***************************************************************************)
(* The circuit breaker that RedisAdapter puts in front of every Redis      *)
(* command (logic-server/service/adapters.go).  Each method of             *)
(* redisCircuitBreaker runs under its mutex, so it is a function from one  *)
(* breaker value to the next; the machines that call it are                *)
(* RedisCircuitBreaker, OrderService and CourseCatalog.                    *)
(*                                                                         *)
(* Wall-clock time is abstracted: "cooling" stands for now < openUntil,    *)
(* and the environment clears it at an arbitrary later moment.             *)
(***************************************************************************)
EXTENDS Integers

CONSTANT Threshold         \* failureThreshold

ASSUME ThresholdAssumption == Threshold \in Nat \ {0}

Breakers == [state    : {"closed", "open", "half_open"},
             failures : Nat,
             probe    : BOOLEAN,       \* probeInFlight
             cooling  : BOOLEAN]       \* now < openUntil

NewBreaker ==
  [state |-> "closed", failures |-> 0, probe |-> FALSE, cooling |-> FALSE]

\* beforeRequest returns ErrRedisCircuitOpen.
FastFails(b) ==
  \/ b.state = "open" /\ b.cooling
  \/ b.state = "half_open" /\ b.probe

\* beforeRequest returns nil (only meaningful when ~FastFails(b)).
Admit(b) ==
  IF b.state = "closed" THEN b
  ELSE [b EXCEPT !.state = "half_open", !.probe = TRUE]

\* Mutant: the count of failures survives a success.
SuccessKeepsCount(b) ==
  [b EXCEPT !.state = "closed", !.probe = FALSE, !.cooling = FALSE]

\* Mutant: the success of the probe is not taken as a recovery.
SuccessIgnoresProbe(b) == IF b.state = "half_open" THEN b ELSE NewBreaker

\* A success closes the breaker from whatever state the success finds it in.
AfterSuccess(b) == NewBreaker

\* Mutant: a failure found half open is only counted.
TripsOnlyClosed(b) == b.state = "closed" /\ b.failures + 1 >= Threshold

\* Whether a failure trips the breaker: half open always, whoever the failed
\* request was; closed at the threshold; open never.
Trips(b) ==
  \/ b.state = "half_open"
  \/ b.state = "closed" /\ b.failures + 1 >= Threshold

Tripped ==
  [state |-> "open", failures |-> 0, probe |-> FALSE, cooling |-> TRUE]

AfterFailure(b) ==
  IF Trips(b) THEN Tripped
  ELSE [b EXCEPT !.failures = @ + 1, !.probe = FALSE]

\* openDuration has passed since the last trip.
Cooled(b) == [b EXCEPT !.cooling = FALSE]
=============================================================================
