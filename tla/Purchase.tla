------------------------------- MODULE Purchase -------------------------------
(***************************************************************************)
(* What buying a course promises, without locks, Redis or time: a pair is  *)
(* bought at most once and for ever, by an attempt that is asking for it,  *)
(* and an attempt is told one thing, which is true when it is told.        *)
(***************************************************************************)
CONSTANTS Request, Pair, Valid, Listed, None

VARIABLES
  asking,    \* attempts the service is working on
  asked,     \* what each asks to buy
  owner,     \* the attempt that bought each pair
  told       \* what each client has been told

vars == <<asking, asked, owner, told>>

\* What an answer says about the store.
Truthful(r, a) ==
  /\ a = "ok" => owner[asked[r]] = r
  /\ a = "40001" => owner[asked[r]] # None          \* already purchased
  /\ a = "30001" => asked[r] \notin Listed          \* no such course
  /\ a = "10001" => asked[r] \notin Valid           \* invalid parameters

Init ==
  /\ asking = {}
  /\ asked \in [Request -> Pair]
  /\ owner = [p \in Pair |-> None]
  /\ told = [r \in Request |-> "none"]

Begin(r, p) ==
  /\ r \notin asking /\ told[r] = "none"
  /\ asking' = asking \union {r}
  /\ asked' = [asked EXCEPT ![r] = p]
  /\ UNCHANGED <<owner, told>>

Buy(r) ==
  /\ r \in asking /\ asked[r] \in Listed
  /\ owner[asked[r]] = None
  /\ owner' = [owner EXCEPT ![asked[r]] = r]
  /\ UNCHANGED <<asking, asked, told>>

\* The client stops waiting; the attempt may still buy.
GiveUp(r) ==
  /\ r \in asking /\ told[r] = "none"
  /\ told' = [told EXCEPT ![r] = "50001"]
  /\ UNCHANGED <<asking, asked, owner>>

Answer(r) ==
  /\ r \in asking
  /\ asking' = asking \ {r}
  /\ IF told[r] = "none"
     THEN \E a \in {"ok", "10001", "30001", "40001", "40002", "50001"} :
            Truthful(r, a) /\ told' = [told EXCEPT ![r] = a]
     ELSE UNCHANGED told
  /\ UNCHANGED <<asked, owner>>

\* Every attempt in progress is lost.
Collapse ==
  /\ asking' = {}
  /\ told' = [r \in Request |->
                IF r \in asking /\ told[r] = "none" THEN "50001" ELSE told[r]]
  /\ UNCHANGED <<asked, owner>>

\* An attempt that bought nothing may be made anew.
Renew(r) ==
  /\ r \notin asking /\ \A p \in Pair : owner[p] # r
  /\ told' = [told EXCEPT ![r] = "none"]
  /\ UNCHANGED <<asking, asked, owner>>

Next ==
  \/ \E r \in Request :
       \/ \E p \in Pair : Begin(r, p)
       \/ Buy(r) \/ GiveUp(r) \/ Answer(r) \/ Renew(r)
  \/ Collapse

Spec == Init /\ [][Next]_vars
=============================================================================
