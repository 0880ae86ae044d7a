------------------------- MODULE CourseCatalogProofs -------------------------
(***************************************************************************)
(* Proofs about CourseCatalog, for every set of readers, creators and      *)
(* keys, every threshold of the breaker and every number of faults.        *)
(***************************************************************************)
EXTENDS CourseCatalog, FiniteSetTheorems, TLAPS

\* Every operation of the breaker stays in its type.
LEMMA BreakerType ==
  /\ NewBreaker \in Breakers
  /\ \A b \in Breakers : /\ Admit(b) \in Breakers /\ Cooled(b) \in Breakers
                         /\ AfterSuccess(b) \in Breakers
                         /\ AfterFailure(b) \in Breakers
<1>1. NewBreaker \in Breakers
  BY DEF NewBreaker, Breakers
<1>2. ASSUME NEW b \in Breakers PROVE AfterFailure(b) \in Breakers
  <2>1. b.failures + 1 \in Nat
    BY DEF Breakers
  <2>2. [b EXCEPT !.failures = @ + 1, !.probe = FALSE] \in Breakers
    BY <2>1 DEF Breakers
  <2> QED
    BY <2>2 DEF AfterFailure, Tripped, Breakers
<1> QED
  BY <1>1, <1>2 DEF Admit, AfterSuccess, Cooled, Breakers

-----------------------------------------------------------------------------
\* A reader that runs the function of a flight.
InFlight(r) ==
  pc[r] \in {"count", "find", "set", "setting", "stored", "return"}

\* The reader of a flight is its key's leader, and a leader is in flight on its
\* key: Do, FlightEnds and a crash are the only places where either changes.
FlightInv ==
  /\ \A r \in Reader : InFlight(r) => leader[key[r]] = r
  /\ \A k \in Key : leader[k] # None =>
       InFlight(leader[k]) /\ key[leader[k]] = k
  /\ \A r \in Reader : pc[r] = "wait" => leader[key[r]] # None

FlightType ==
  /\ pc \in [Call -> Steps]
  /\ key \in [Reader -> Key]
  /\ leader \in [Key -> Reader \union {None}]

LEMMA FlightTypeStep == FlightType /\ [Next]_vars => FlightType'
<1> SUFFICES ASSUME FlightType, [Next]_vars PROVE FlightType'
  OBVIOUS
<1> USE DEF FlightType, Call
<1>1. ASSUME NEW r \in Reader, NEW k \in Key, List(r, k) PROVE FlightType'
  BY <1>1 DEF List, Goto, Steps
<1>2. ASSUME NEW r \in Reader, Get(r) \/ Set(r) PROVE FlightType'
  BY <1>2 DEF Get, Set, Issue, Goto, Steps
<1>3. ASSUME NEW r \in Reader, GetRuns(r) \/ SetRuns(r) PROVE FlightType'
  BY <1>3 DEF GetRuns, SetRuns, Goto, Steps
<1>4. ASSUME NEW r \in Reader, GetReturns(r) \/ SetReturns(r)
      PROVE  FlightType'
  BY <1>4 DEF GetReturns, SetReturns, Goto, Steps
<1>5. ASSUME NEW r \in Reader, GetFails(r) \/ SetFails(r) PROVE FlightType'
  BY <1>5 DEF GetFails, SetFails, CommandFails, Goto, Steps
<1>6. ASSUME NEW r \in Reader, Do(r) PROVE FlightType'
  BY <1>6 DEF Do, Goto, Steps
<1>7. ASSUME NEW r \in Reader, Count(r) \/ Find(r) PROVE FlightType'
  BY <1>7 DEF Count, Find, Goto, Steps
<1>8. ASSUME NEW r \in Reader, FlightEnds(r) PROVE FlightType'
  BY <1>8 DEF FlightEnds, Steps
<1>9. ASSUME NEW r \in Reader, ListAgain(r) PROVE FlightType'
  BY <1>9 DEF ListAgain, Goto, Steps
<1>10. ASSUME NEW c \in Creator, Create(c) \/ Insert(c) PROVE FlightType'
  BY <1>10 DEF Create, Insert, Goto, Steps, local
<1>11. ASSUME NEW c \in Creator, Purge(c) PROVE FlightType'
  BY <1>11 DEF Purge, Issue, Goto, Steps
<1>12. ASSUME NEW c \in Creator,
              \/ PurgeRuns(c) \/ PurgeEnds(c) \/ PurgeFails(c)
              \/ PurgeReturns(c)
       PROVE  FlightType'
  BY <1>12
     DEF PurgeRuns, PurgeEnds, PurgeFails, CommandFails, PurgeReturns, Goto,
         Steps
<1>13. CASE \/ \E c \in Call : Timeout(c)
            \/ \E k \in Key : Expire(k)
            \/ CoolDown
  BY <1>13 DEF Timeout, Expire, CoolDown, local
<1>14. CASE Crash
  BY <1>14 DEF Crash, local, Steps
<1>15. CASE UNCHANGED vars
  BY <1>15 DEF vars
<1>16. ASSUME NEW r \in Reader, SetAnswerLost(r) PROVE FlightType'
  BY <1>16 DEF SetAnswerLost, local
<1> QED
  BY <1>1, <1>2, <1>3, <1>4, <1>5, <1>6, <1>7, <1>8, <1>9, <1>10, <1>11,
     <1>12, <1>13, <1>14, <1>15, <1>16 DEF Next, Read, Write

-----------------------------------------------------------------------------
\* Steps that move no reader into or out of a flight or a wait.
LEMMA QuietFlight ==
  ASSUME FlightType, FlightInv, key' = key, leader' = leader,
         \A r \in Reader : /\ InFlight(r)' <=> InFlight(r)
                           /\ pc'[r] = "wait" => pc[r] = "wait"
  PROVE  FlightInv'
BY DEF FlightType, FlightInv

\* A creator's step moves no reader.
LEMMA CreatorStep ==
  ASSUME FlightType, FlightInv, NEW c \in Creator, NEW s, Goto(c, s),
         key' = key, leader' = leader
  PROVE  FlightInv'
<1>1. \A r \in Reader : pc'[r] = pc[r]
  BY CallsDisjoint DEF FlightType, Goto, Call
<1> QED
  BY <1>1, QuietFlight DEF InFlight

LEMMA FlightStep == FlightType /\ FlightInv /\ [Next]_vars => FlightInv'
<1> SUFFICES ASSUME FlightType, FlightInv, [Next]_vars PROVE FlightInv'
  OBVIOUS
<1> USE DEF FlightType, Call
<1>1. ASSUME NEW r \in Reader, NEW k \in Key, List(r, k) PROVE FlightInv'
  BY <1>1 DEF List, Goto, FlightInv, InFlight
<1>2. ASSUME NEW r \in Reader, Get(r) \/ Set(r) PROVE FlightInv'
  BY <1>2, QuietFlight DEF Get, Set, Issue, Goto, InFlight
<1>3. ASSUME NEW r \in Reader, GetRuns(r) \/ SetRuns(r) PROVE FlightInv'
  BY <1>3, QuietFlight DEF GetRuns, SetRuns, Goto, InFlight
<1>4. ASSUME NEW r \in Reader, GetReturns(r) \/ SetReturns(r)
      PROVE  FlightInv'
  BY <1>4, QuietFlight DEF GetReturns, SetReturns, Goto, InFlight
<1>5. ASSUME NEW r \in Reader, GetFails(r) \/ SetFails(r) PROVE FlightInv'
  BY <1>5, QuietFlight DEF GetFails, SetFails, CommandFails, Goto, InFlight
<1>6. ASSUME NEW r \in Reader, Do(r) PROVE FlightInv'
  <2>1. CASE leader[key[r]] = None
    <3>1. /\ leader' = [leader EXCEPT ![key[r]] = r]
          /\ pc' = [pc EXCEPT ![r] = "count"] /\ key' = key
      BY <1>6, <2>1 DEF Do, Goto
    <3> QED
      BY <2>1, <3>1, NoneNotAReader DEF FlightInv, InFlight
  <2>2. CASE leader[key[r]] # None
    BY <1>6, <2>2 DEF Do, Goto, FlightInv, InFlight
  <2> QED
    BY <2>1, <2>2
<1>7. ASSUME NEW r \in Reader, Count(r) \/ Find(r) PROVE FlightInv'
  BY <1>7, QuietFlight DEF Count, Find, Goto, InFlight
<1>8. ASSUME NEW r \in Reader, FlightEnds(r) PROVE FlightInv'
  <2>1. leader[key[r]] = r
    BY <1>8 DEF FlightEnds, FlightInv, InFlight
  <2>2. /\ leader' = [leader EXCEPT ![key[r]] = None]
        /\ key' = key
        /\ \A q \in Reader :
             pc'[q] = IF q = r \/ (pc[q] = "wait" /\ key[q] = key[r])
                      THEN "done" ELSE pc[q]
    BY <1>8 DEF FlightEnds, Waiting
  <2> QED
    BY <2>1, <2>2 DEF FlightInv, InFlight
<1>9. ASSUME NEW r \in Reader, ListAgain(r) PROVE FlightInv'
  BY <1>9, QuietFlight DEF ListAgain, Goto, InFlight
<1>10. ASSUME NEW c \in Creator, Create(c) \/ Insert(c) PROVE FlightInv'
  BY <1>10, CreatorStep DEF Create, Insert, local
<1>11. ASSUME NEW c \in Creator, Purge(c) PROVE FlightInv'
  BY <1>11, CreatorStep DEF Purge, Issue
<1>12. ASSUME NEW c \in Creator,
              PurgeEnds(c) \/ PurgeFails(c) \/ PurgeReturns(c)
       PROVE  FlightInv'
  BY <1>12, CreatorStep
     DEF PurgeEnds, PurgeFails, CommandFails, PurgeReturns
<1>13. CASE \/ \E c \in Creator : PurgeRuns(c)
            \/ \E c \in Call : Timeout(c)
            \/ \E k \in Key : Expire(k)
            \/ CoolDown
  BY <1>13, QuietFlight
     DEF PurgeRuns, Timeout, Expire, CoolDown, local, InFlight
<1>14. CASE Crash
  BY <1>14 DEF Crash, local, FlightInv, InFlight
<1>15. CASE UNCHANGED vars
  BY <1>15, QuietFlight DEF vars, InFlight
<1>16. ASSUME NEW r \in Reader, SetAnswerLost(r) PROVE FlightInv'
  BY <1>16, QuietFlight DEF SetAnswerLost, local, InFlight
<1> QED
  BY <1>1, <1>2, <1>3, <1>4, <1>5, <1>6, <1>7, <1>8, <1>9, <1>10, <1>11,
     <1>12, <1>13, <1>14, <1>15, <1>16 DEF Next, Read, Write

LEMMA FlightInvariant == Spec => [](FlightType /\ FlightInv)
<1>1. Init => FlightType /\ FlightInv
  BY CallsDisjoint DEF Init, FlightType, FlightInv, InFlight, Steps, Call
<1> QED
  BY <1>1, FlightTypeStep, FlightStep, PTL DEF Spec

\* Two readers never query MySQL for the same page at the same time.
THEOREM OneQueryAtATime == Spec => []OneLoadPerKey
<1>1. FlightType /\ FlightInv => OneLoadPerKey
  BY DEF FlightInv, InFlight, OneLoadPerKey
<1> QED
  BY <1>1, FlightInvariant, PTL

\* No reader waits for a flight that nobody flies.
THEOREM NobodyWaitsInVain == Spec => []WaitersHaveLeader
<1>1. FlightType /\ FlightInv => WaitersHaveLeader
  BY DEF FlightType, FlightInv, InFlight, WaitersHaveLeader
<1> QED
  BY <1>1, FlightInvariant, PTL

-----------------------------------------------------------------------------
(* Type correctness.  That Find and SetRuns find a page where they expect   *)
(* one is not a matter of types, and is carried along.                       *)

Loaded == \A r \in Reader : Loading(r) => page[r] \in Pages

TypeInv == TypeOK /\ Loaded

LEMMA AcknowledgedType == TypeOK => Acknowledged \in Int
<1> DEFINE busy == {c \in Creator : pc[c] \in {"purge", "purging", "purged"}}
<1>1. IsFiniteSet(busy)
  BY CreatorFinite, FS_Subset
<1>2. Cardinality(busy) \in Nat
  BY <1>1, FS_CardinalityType
<1> QED
  BY <1>2 DEF TypeOK, Acknowledged

LEMMA TypeStep == TypeInv /\ [Next]_vars => TypeInv'
<1> SUFFICES ASSUME TypeInv, [Next]_vars PROVE TypeInv'
  OBVIOUS
<1> USE DEF TypeInv, TypeOK, Loaded, Loading, Call
<1>1. ASSUME NEW r \in Reader, NEW k \in Key, List(r, k) PROVE TypeInv'
  BY <1>1, AcknowledgedType DEF List, Goto, Steps
<1>2. ASSUME NEW r \in Reader, Get(r) \/ Set(r) PROVE TypeInv'
  BY <1>2, BreakerType DEF Get, Set, Issue, Goto, Steps
<1>3. ASSUME NEW r \in Reader, GetRuns(r) \/ SetRuns(r) PROVE TypeInv'
  BY <1>3 DEF GetRuns, SetRuns, Goto, Steps
<1>4. ASSUME NEW r \in Reader, GetReturns(r) \/ SetReturns(r) PROVE TypeInv'
  BY <1>4, BreakerType DEF GetReturns, SetReturns, Settle, Goto, Steps
<1>5. ASSUME NEW r \in Reader, GetFails(r) \/ SetFails(r) PROVE TypeInv'
  BY <1>5, MaxFaultsAssumption
     DEF GetFails, SetFails, CommandFails, Fault, Goto, Steps
<1>6. ASSUME NEW r \in Reader, Do(r) PROVE TypeInv'
  BY <1>6 DEF Do, Goto, Steps
<1>7. ASSUME NEW r \in Reader, Count(r) PROVE TypeInv'
  BY <1>7, MaxFaultsAssumption DEF Count, Fault, Goto, Steps, Pages
<1>8. ASSUME NEW r \in Reader, Find(r) PROVE TypeInv'
  BY <1>8, MaxFaultsAssumption DEF Find, Fault, Goto, Steps, Pages
<1>9. ASSUME NEW r \in Reader, FlightEnds(r) PROVE TypeInv'
  BY <1>9 DEF FlightEnds, Steps
<1>10. ASSUME NEW r \in Reader, ListAgain(r) PROVE TypeInv'
  BY <1>10 DEF ListAgain, Goto, Steps
<1>11. ASSUME NEW r \in Reader, SetAnswerLost(r) PROVE TypeInv'
  BY <1>11, MaxFaultsAssumption DEF SetAnswerLost, Fault, local
<1>12. ASSUME NEW c \in Creator, Create(c) PROVE TypeInv'
  BY <1>12, CallsDisjoint DEF Create, Goto, Steps, local
<1>13. ASSUME NEW c \in Creator, Insert(c) PROVE TypeInv'
  <2>1. /\ pc' \in [Call -> Steps] /\ db' \in Nat /\ faults' \in 0 .. MaxFaults
        /\ \A r \in Reader : pc'[r] = pc[r]
    BY <1>13, CallsDisjoint, MaxFaultsAssumption
       DEF Insert, Commit, Fault, Goto, Steps
  <2>2. raced' \in BOOLEAN
    BY <1>13, Zenon DEF Insert, Commit
  <2>3. UNCHANGED <<cacheEnabled, local, leader, cache, breaker>>
    BY <1>13 DEF Insert
  <2> QED
    BY <2>1, <2>2, <2>3 DEF local
<1>14. ASSUME NEW c \in Creator, Purge(c) PROVE TypeInv'
  BY <1>14, CallsDisjoint, BreakerType DEF Purge, Issue, Goto, Steps
<1>15. ASSUME NEW c \in Creator, PurgeRuns(c) PROVE TypeInv'
  BY <1>15 DEF PurgeRuns
<1>16. ASSUME NEW c \in Creator, PurgeEnds(c) \/ PurgeReturns(c)
       PROVE  TypeInv'
  BY <1>16, CallsDisjoint, BreakerType
     DEF PurgeEnds, PurgeReturns, Settle, Goto, Steps
<1>17. ASSUME NEW c \in Creator, PurgeFails(c) PROVE TypeInv'
  BY <1>17, CallsDisjoint, MaxFaultsAssumption
     DEF PurgeFails, CommandFails, Fault, Goto, Steps
<1>18. ASSUME NEW c \in Call, Timeout(c) PROVE TypeInv'
  BY <1>18, MaxFaultsAssumption DEF Timeout, Fault
<1>19. CASE CoolDown \/ \E k \in Key : Expire(k)
  BY <1>19, BreakerType DEF CoolDown, Expire, local
<1>20. CASE Crash
  BY <1>20, BreakerType, MaxFaultsAssumption DEF Crash, Fault, local, Steps
<1>21. CASE UNCHANGED vars
  BY <1>21 DEF vars
<1> QED
  BY <1>1, <1>2, <1>3, <1>4, <1>5, <1>6, <1>7, <1>8, <1>9, <1>10, <1>11,
     <1>12, <1>13, <1>14, <1>15, <1>16, <1>17, <1>18, <1>19, <1>20, <1>21
     DEF Next, Read, Write

LEMMA TypeInit == Init => TypeInv
<1> SUFFICES ASSUME Init PROVE TypeInv
  OBVIOUS
<1>1. /\ \A r \in Reader : ~Loading(r)
      /\ pc \in [Call -> Steps]
  BY DEF Init, Loading, Steps, Call
<1>2. /\ cacheEnabled \in BOOLEAN /\ raced \in BOOLEAN
      /\ key \in [Reader -> Key]
  BY CallsDisjoint DEF Init
<1>3. db \in Nat /\ faults \in 0 .. MaxFaults /\ since \in [Reader -> Int]
  BY MaxFaultsAssumption DEF Init
<1>4. /\ page \in [Reader -> Pages \union {None, Failed}]
      /\ ctxDone \in [Call -> BOOLEAN]
      /\ reply \in [Call -> {"none", "ran", "error"}]
      /\ todo \in [Creator -> SUBSET Key]
      /\ leader \in [Key -> Reader \union {None}]
      /\ cache \in [Key -> Pages \union {None}]
  BY DEF Init
<1>5. breaker \in Breakers
  BY BreakerType DEF Init
<1> QED
  BY <1>1, <1>2, <1>3, <1>4, <1>5 DEF TypeInv, TypeOK, Loaded

LEMMA TypeInvariant == Spec => []TypeInv
BY TypeInit, TypeStep, PTL DEF Spec

\* Every variable keeps its type, whatever fails.
THEOREM TypeCorrect == Spec => []TypeOK
<1>1. TypeInv => TypeOK
  BY DEF TypeInv
<1> QED
  BY <1>1, TypeInvariant, PTL

-----------------------------------------------------------------------------
(* What is cached and what is returned, while nothing fails and no insertion *)
(* falls under a load.                                                        *)

Quiet == ~raced /\ faults = 0

\* No command has failed, none will for want of time, the breaker is closed.
NothingFailed ==
  /\ breaker = NewBreaker
  /\ \A c \in Call : ~ctxDone[c] /\ reply[c] # "error"

\* Without a cache nothing is cached.
CacheOff ==
  ~cacheEnabled =>
    /\ \A k \in Key : cache[k] = None
    /\ \A r \in Reader : pc[r] \notin {"set", "setting"}

\* The creators that are inserted and have yet to come by the key.
OverdueBy(k) ==
  {c \in Creator : pc[c] = "purge" \/ (pc[c] = "purging" /\ k \in todo[c])}

\* A cached page lacks at most the courses of those creators.
CachedInv ==
  \A k \in Key : cache[k] # None =>
    /\ cache[k].total = cache[k].rows
    /\ cache[k].rows <= db
    /\ db <= cache[k].rows + Cardinality(OverdueBy(k))

\* Steps at which a reader has no page it will return, ...
Asking == {"get", "getting", "got", "do", "count", "find", "set", "setting"}

\* ... and those at which it has one.
Answered(r) ==
  pc[r] \in {"stored", "return", "done"} \/ (pc[r] = "got" /\ page[r] # None)

\* A page on its way to the cache is the table as it is; a page on its way to
\* the client has what was acknowledged when it was asked for.
ReaderInv(r) ==
  /\ pc[r] = "find" => page[r].total = db
  /\ pc[r] \in {"set", "setting"} => page[r] = [rows |-> db, total |-> db]
  /\ pc[r] \in Asking => since[r] <= Acknowledged
  /\ Answered(r) => page[r] \in Pages /\ page[r].rows >= since[r]

\* Whoever joined a flight gets what its leader asked for.
WaitInv ==
  \A r \in Reader : pc[r] = "wait" => since[r] = since[leader[key[r]]]

Calm ==
  /\ NothingFailed
  /\ CacheOff
  /\ CachedInv
  /\ \A r \in Reader : ReaderInv(r)
  /\ WaitInv

CalmInv == Quiet => Calm

Busy == {c \in Creator : pc[c] \in {"purge", "purging", "purged"}}

LEMMA Counts ==
  /\ IsFiniteSet(Busy) /\ Cardinality(Busy) \in Nat
  /\ \A k \in Key : /\ IsFiniteSet(OverdueBy(k)) /\ Cardinality(OverdueBy(k)) \in Nat
                    /\ Cardinality(OverdueBy(k)) <= Cardinality(Busy)
<1>1. IsFiniteSet(Busy)
  BY CreatorFinite, FS_Subset DEF Busy
<1>2. ASSUME NEW k \in Key
      PROVE  /\ IsFiniteSet(OverdueBy(k)) /\ Cardinality(OverdueBy(k)) \in Nat
             /\ Cardinality(OverdueBy(k)) <= Cardinality(Busy)
  <2>1. OverdueBy(k) \subseteq Busy
    BY DEF OverdueBy, Busy
  <2> QED
    BY <1>1, <2>1, FS_Subset, FS_CardinalityType
<1> QED
  BY <1>1, <1>2, FS_CardinalityType

\* A cached page has everything that is acknowledged.
LEMMA CachedHasAcknowledged ==
  ASSUME TypeOK, CachedInv, NEW k \in Key, cache[k] # None
  PROVE  cache[k] \in Pages /\ cache[k].rows >= Acknowledged
<1>1. cache[k] \in Pages /\ cache[k].rows \in Nat /\ db \in Nat
  BY DEF TypeOK, Pages
<1>2. db <= cache[k].rows + Cardinality(OverdueBy(k))
  BY DEF CachedInv
<1>3. Acknowledged = db - Cardinality(Busy)
  BY DEF Acknowledged, Busy
<1> QED
  BY <1>1, <1>2, <1>3, Counts

LEMMA AcknowledgedAreThere ==
  ASSUME TypeOK
  PROVE  Acknowledged \in Int /\ Acknowledged <= db
BY Counts DEF TypeOK, Acknowledged, Busy

\* Readers' steps leave the creators' bookkeeping alone.
LEMMA CreatorsStill ==
  ASSUME \A c \in Creator : pc'[c] = pc[c], db' = db, todo' = todo
  PROVE  /\ Acknowledged' = Acknowledged
         /\ \A k \in Key : OverdueBy(k)' = OverdueBy(k)
BY DEF Acknowledged, OverdueBy

LEMMA CalmIssue ==
  ASSUME NothingFailed, NEW c \in Call, NEW refused, NEW sent, NEW back,
         Issue(c, refused, sent, back)
  PROVE  /\ breaker' = NewBreaker /\ Goto(c, sent)
         /\ reply' = [reply EXCEPT ![c] = "none"]
<1>1. ~FastFails(breaker) /\ Admit(breaker) = NewBreaker
  BY DEF NothingFailed, NewBreaker, FastFails, Admit
<1> QED
  BY <1>1 DEF NothingFailed, Issue

LEMMA CalmSettle ==
  ASSUME NothingFailed, NEW c \in Call, Settle(c)
  PROVE  breaker' = NewBreaker /\ reply' = [reply EXCEPT ![c] = "none"]
BY DEF NothingFailed, Settle, AfterSuccess

\* Without faults no command fails.
LEMMA NoCommandFails ==
  ASSUME Quiet, Quiet', NothingFailed, NEW c \in Call, NEW s, NEW t
  PROVE  ~CommandFails(c, s, t)
BY DEF Quiet, NothingFailed, CommandFails, Fault

-----------------------------------------------------------------------------
\* The steps of a reader r other than those that begin, join or end a flight.
LEMMA ReaderMoves ==
  ASSUME TypeOK, Calm, NEW r \in Reader, NEW s \in Steps \ {"wait"}, Goto(r, s),
         UNCHANGED <<cacheEnabled, key, since, ctxDone, todo, leader, db>>,
         breaker' = NewBreaker, \A c \in Call : reply'[c] # "error",
         \A q \in Reader \ {r} : page'[q] = page[q],
         CacheOff', cache' # cache => CachedInv',
         Acknowledged' = Acknowledged => ReaderInv(r)'
  PROVE  Calm'
<1> USE DEF Calm
<1>1. /\ \A c \in Call \ {r} : pc'[c] = pc[c]
      /\ \A c \in Creator : pc'[c] = pc[c]
      /\ pc'[r] # "wait"
  BY CallsDisjoint DEF Goto, TypeOK, Call
<1>2. /\ Acknowledged' = Acknowledged
      /\ \A k \in Key : OverdueBy(k)' = OverdueBy(k)
  BY <1>1, CreatorsStill
<1>3. NothingFailed'
  BY DEF NothingFailed
<1>4. CachedInv'
  BY <1>2 DEF CachedInv
<1>5. ASSUME NEW q \in Reader PROVE ReaderInv(q)'
  <2>1. CASE q = r
    BY <1>2, <2>1
  <2>2. CASE q # r
    BY <1>1, <1>2, <2>2 DEF ReaderInv, Answered, Call
  <2> QED
    BY <2>1, <2>2
<1>6. WaitInv'
  BY <1>1 DEF WaitInv, Call
<1> QED
  BY <1>3, <1>4, <1>5, <1>6

LEMMA QuietReads ==
  ASSUME TypeInv, Calm, Quiet, Quiet', NEW r \in Reader,
         \/ Get(r) \/ GetRuns(r) \/ GetReturns(r) \/ Count(r) \/ Find(r)
         \/ Set(r) \/ SetRuns(r) \/ SetReturns(r) \/ ListAgain(r)
  PROVE  Calm'
<1> USE DEF TypeInv, Call
<1>0. /\ r \in Call /\ pc[r] \in Steps /\ db \in Nat /\ since[r] \in Int
      /\ NothingFailed /\ CacheOff /\ CachedInv /\ ReaderInv(r)
      /\ breaker = NewBreaker /\ \A c \in Call : reply[c] # "error"
      /\ Acknowledged \in Int /\ Acknowledged <= db
      /\ reply \in [Call -> {"none", "ran", "error"}]
  BY AcknowledgedAreThere DEF TypeOK, Calm, NothingFailed
<1>1. \A s : Goto(r, s) => pc'[r] = s /\ \A q \in Reader \ {r} : pc'[q] = pc[q]
  BY DEF TypeOK, Goto
<1>2. CASE Get(r)
  <2>1. /\ pc[r] = "get" /\ Goto(r, "getting") /\ breaker' = NewBreaker
        /\ reply' = [reply EXCEPT ![r] = "none"]
        /\ UNCHANGED <<cacheEnabled, key, since, page, ctxDone, todo, leader,
                       cache, db>>
    BY <1>0, <1>2, CalmIssue DEF Get
  <2>2. ReaderInv(r)' \/ Acknowledged' # Acknowledged
    BY <1>0, <1>1, <2>1 DEF ReaderInv, Answered, Asking
  <2>3. CacheOff'
    BY <1>0, <1>1, <2>1 DEF CacheOff
  <2>4. \A c \in Call : reply'[c] # "error"
    BY <1>0, <2>1
  <2> QED
    BY <2>1, <2>2, <2>3, <2>4, ReaderMoves DEF Steps
<1>3. CASE GetRuns(r)
  <2>1. /\ pc[r] = "getting" /\ Goto(r, "got")
        /\ page' = [page EXCEPT ![r] = cache[key[r]]]
        /\ reply' = [reply EXCEPT ![r] = "ran"]
        /\ UNCHANGED <<cacheEnabled, key, since, ctxDone, todo, leader, cache,
                       db, breaker>>
    BY <1>3 DEF GetRuns
  <2>2. /\ key[r] \in Key /\ page'[r] = cache[key[r]]
        /\ \A q \in Reader \ {r} : page'[q] = page[q]
    BY <2>1 DEF TypeOK
  <2>3. page'[r] # None => page'[r] \in Pages /\ page'[r].rows >= Acknowledged
    BY <1>0, <2>2, CachedHasAcknowledged
  <2>4. page'[r] # None => page'[r].rows >= since[r]
    BY <1>0, <2>1, <2>3 DEF ReaderInv, Asking, Pages
  <2>5. ReaderInv(r)' \/ Acknowledged' # Acknowledged
    BY <1>0, <1>1, <2>1, <2>3, <2>4 DEF ReaderInv, Answered, Asking
  <2>6. CacheOff'
    BY <1>0, <1>1, <2>1 DEF CacheOff
  <2>7. \A c \in Call : reply'[c] # "error"
    BY <1>0, <2>1
  <2> QED
    BY <1>0, <2>1, <2>2, <2>5, <2>6, <2>7, ReaderMoves DEF Steps
<1>4. CASE GetReturns(r)
  <2>1. /\ pc[r] = "got" /\ breaker' = NewBreaker
        /\ reply' = [reply EXCEPT ![r] = "none"]
        /\ Goto(r, IF page[r] = None THEN "do" ELSE "done")
        /\ UNCHANGED <<cacheEnabled, key, since, page, ctxDone, todo, leader,
                       cache, db>>
    BY <1>0, <1>4, CalmSettle DEF GetReturns
  <2>2. ReaderInv(r)' \/ Acknowledged' # Acknowledged
    BY <1>0, <1>1, <2>1 DEF ReaderInv, Answered, Asking
  <2>3. CacheOff'
    BY <1>0, <1>1, <2>1 DEF CacheOff
  <2>4. \A c \in Call : reply'[c] # "error"
    BY <1>0, <2>1
  <2> QED
    BY <2>1, <2>2, <2>3, <2>4, ReaderMoves DEF Steps
<1>5. CASE Count(r)
  <2>1. /\ pc[r] = "count" /\ Goto(r, "find")
        /\ page' = [page EXCEPT ![r] = [rows |-> 0, total |-> db]]
        /\ UNCHANGED <<cacheEnabled, key, since, ctxDone, reply, todo, leader,
                       cache, db, breaker>>
    BY <1>5 DEF Count, Fault, Quiet
  <2>2. /\ page'[r] = [rows |-> 0, total |-> db]
        /\ \A q \in Reader \ {r} : page'[q] = page[q]
    BY <2>1 DEF TypeOK
  <2>3. ReaderInv(r)' \/ Acknowledged' # Acknowledged
    BY <1>0, <1>1, <2>1, <2>2 DEF ReaderInv, Answered, Asking
  <2>4. CacheOff'
    BY <1>0, <1>1, <2>1 DEF CacheOff
  <2> QED
    BY <1>0, <2>1, <2>2, <2>3, <2>4, ReaderMoves DEF Steps
<1>6. CASE Find(r)
  <2>1. /\ pc[r] = "find" /\ page' = [page EXCEPT ![r].rows = db]
        /\ Goto(r, IF cacheEnabled THEN "set" ELSE "return")
        /\ UNCHANGED <<cacheEnabled, key, since, ctxDone, reply, todo, leader,
                       cache, db, breaker>>
    BY <1>6 DEF Find, Fault, Quiet
  <2>2. page[r] \in Pages /\ page[r].total = db
    BY <1>0, <2>1 DEF ReaderInv, Loaded, Loading
  <2>3. /\ page'[r] = [rows |-> db, total |-> db] /\ page'[r] \in Pages
        /\ \A q \in Reader \ {r} : page'[q] = page[q]
    BY <1>0, <2>1, <2>2 DEF TypeOK, Pages
  <2>4. since[r] <= db
    BY <1>0, <2>1 DEF ReaderInv, Asking
  <2>5. ReaderInv(r)' \/ Acknowledged' # Acknowledged
    BY <1>0, <1>1, <2>1, <2>3, <2>4 DEF ReaderInv, Answered, Asking
  <2>6. CacheOff'
    BY <1>0, <1>1, <2>1 DEF CacheOff
  <2> QED
    BY <1>0, <2>1, <2>3, <2>5, <2>6, ReaderMoves DEF Steps
<1>7. CASE Set(r)
  <2>1. /\ pc[r] = "set" /\ Goto(r, "setting") /\ breaker' = NewBreaker
        /\ reply' = [reply EXCEPT ![r] = "none"]
        /\ UNCHANGED <<cacheEnabled, key, since, page, ctxDone, todo, leader,
                       cache, db>>
    BY <1>0, <1>7, CalmIssue DEF Set
  <2>2. ReaderInv(r)' \/ Acknowledged' # Acknowledged
    BY <1>0, <1>1, <2>1 DEF ReaderInv, Answered, Asking
  <2>3. CacheOff'
    BY <1>0, <1>1, <2>1 DEF CacheOff
  <2>4. \A c \in Call : reply'[c] # "error"
    BY <1>0, <2>1
  <2> QED
    BY <2>1, <2>2, <2>3, <2>4, ReaderMoves DEF Steps
<1>8. CASE SetRuns(r)
  <2>1. /\ pc[r] = "setting" /\ Goto(r, "stored")
        /\ cache' = [cache EXCEPT ![key[r]] = page[r]]
        /\ reply' = [reply EXCEPT ![r] = "ran"]
        /\ UNCHANGED <<cacheEnabled, key, since, page, ctxDone, todo, leader,
                       db, breaker>>
    BY <1>8 DEF SetRuns
  <2>2. page[r] = [rows |-> db, total |-> db] /\ since[r] <= db
    BY <1>0, <2>1 DEF ReaderInv, Asking
  <2>3. \A k \in Key : cache'[k] = IF k = key[r] THEN page[r] ELSE cache[k]
    BY <2>1 DEF TypeOK
  <2>4. \A c \in Creator : pc'[c] = pc[c]
    BY <2>1, CallsDisjoint DEF Goto, TypeOK
  <2>5. \A k \in Key : OverdueBy(k)' = OverdueBy(k)
    BY <2>1, <2>4, CreatorsStill
  <2>6. CachedInv'
    BY <1>0, <2>1, <2>2, <2>3, <2>5, Counts DEF CachedInv
  <2>7. page[r] \in Pages
    BY <1>0, <2>2 DEF Pages
  <2>8. ReaderInv(r)' \/ Acknowledged' # Acknowledged
    BY <1>0, <1>1, <2>1, <2>2, <2>7 DEF ReaderInv, Answered, Asking
  <2>9. CacheOff'
    BY <1>0, <2>1 DEF CacheOff
  <2>10. \A c \in Call : reply'[c] # "error"
    BY <1>0, <2>1
  <2> QED
    BY <1>0, <2>1, <2>6, <2>8, <2>9, <2>10, ReaderMoves DEF Steps
<1>9. CASE SetReturns(r)
  <2>1. /\ pc[r] = "stored" /\ breaker' = NewBreaker /\ Goto(r, "return")
        /\ reply' = [reply EXCEPT ![r] = "none"]
        /\ UNCHANGED <<cacheEnabled, key, since, page, ctxDone, todo, leader,
                       cache, db>>
    BY <1>0, <1>9, CalmSettle DEF SetReturns
  <2>2. ReaderInv(r)' \/ Acknowledged' # Acknowledged
    BY <1>0, <1>1, <2>1 DEF ReaderInv, Answered, Asking
  <2>3. CacheOff'
    BY <1>0, <1>1, <2>1 DEF CacheOff
  <2>4. \A c \in Call : reply'[c] # "error"
    BY <1>0, <2>1
  <2> QED
    BY <2>1, <2>2, <2>3, <2>4, ReaderMoves DEF Steps
<1>10. CASE ListAgain(r)
  <2>1. /\ Goto(r, "idle")
        /\ page' = [page EXCEPT ![r] = None]
        /\ ctxDone' = [ctxDone EXCEPT ![r] = FALSE]
        /\ reply' = [reply EXCEPT ![r] = "none"]
        /\ UNCHANGED <<cacheEnabled, key, since, todo, leader, cache, db, breaker>>
    BY <1>10 DEF ListAgain
  <2>2. ctxDone' = ctxDone
    BY <2>1 DEF TypeOK, Calm, NothingFailed
  <2>3. ReaderInv(r)'
    BY <1>1, <2>1 DEF ReaderInv, Answered, Asking
  <2>4. CacheOff'
    BY <1>0, <1>1, <2>1 DEF CacheOff
  <2>5. \A c \in Call : reply'[c] # "error"
    BY <1>0, <2>1
  <2>6. \A q \in Reader \ {r} : page'[q] = page[q]
    BY <2>1 DEF TypeOK
  <2> QED
    BY <1>0, <2>1, <2>2, <2>3, <2>4, <2>5, <2>6, ReaderMoves DEF Steps
<1> QED
  BY <1>2, <1>3, <1>4, <1>5, <1>6, <1>7, <1>8, <1>9, <1>10

\* A reader that asks is no one's leader yet.
LEMMA QuietList ==
  ASSUME TypeInv, FlightInv, Calm, NEW r \in Reader, NEW k \in Key, List(r, k)
  PROVE  Calm'
<1> USE DEF TypeInv, Call, Calm
<1>1. /\ pc[r] = "idle"
      /\ UNCHANGED <<cacheEnabled, page, ctxDone, reply, todo, leader, cache,
                     db, breaker>>
      /\ \A q \in Reader : since'[q] = IF q = r THEN Acknowledged ELSE since[q]
      /\ \A q \in Reader : key'[q] = IF q = r THEN k ELSE key[q]
      /\ \A c \in Call \ {r} : pc'[c] = pc[c]
      /\ \A c \in Creator : pc'[c] = pc[c]
      /\ pc'[r] \in {"get", "do"}
  BY CallsDisjoint DEF List, Goto, TypeOK
<1>2. /\ Acknowledged' = Acknowledged /\ Acknowledged \in Int
      /\ \A l \in Key : OverdueBy(l)' = OverdueBy(l)
  BY <1>1, CreatorsStill, AcknowledgedAreThere
<1>3. NothingFailed' /\ CacheOff' /\ CachedInv'
  BY <1>1, <1>2 DEF NothingFailed, CacheOff, CachedInv
<1>4. ASSUME NEW q \in Reader PROVE ReaderInv(q)'
  <2>1. CASE q = r
    BY <1>1, <1>2, <2>1 DEF ReaderInv, Answered, Asking
  <2>2. CASE q # r
    BY <1>1, <1>2, <2>2 DEF ReaderInv, Answered
  <2> QED
    BY <2>1, <2>2
<1>5. ASSUME NEW q \in Reader, pc'[q] = "wait"
      PROVE  since'[q] = since'[leader'[key'[q]]]
  <2>1. q # r /\ pc[q] = "wait"
    BY <1>1, <1>5
  <2>2. leader[key[q]] # None /\ key[q] \in Key
    BY <2>1 DEF FlightInv, TypeOK
  <2>3. leader[key[q]] \in Reader \ {r}
    BY <1>1, <2>2 DEF FlightInv, InFlight, TypeOK
  <2> QED
    BY <1>1, <2>1, <2>3 DEF WaitInv
<1> QED
  BY <1>3, <1>4, <1>5 DEF WaitInv

\* A reader that joins a flight takes over what its leader asked for.
LEMMA QuietDo ==
  ASSUME TypeInv, FlightInv, Calm, NEW r \in Reader, Do(r)
  PROVE  Calm'
<1> USE DEF TypeInv, Call, Calm
<1>1. /\ pc[r] = "do" /\ key[r] \in Key
      /\ UNCHANGED <<cacheEnabled, key, page, ctxDone, reply, todo, cache, db,
                     breaker>>
      /\ \A c \in Call \ {r} : pc'[c] = pc[c]
      /\ \A c \in Creator : pc'[c] = pc[c]
      /\ \A q \in Reader \ {r} : since'[q] = since[q]
  BY CallsDisjoint DEF Do, Goto, TypeOK
<1>2. /\ Acknowledged' = Acknowledged
      /\ \A l \in Key : OverdueBy(l)' = OverdueBy(l)
  BY <1>1, CreatorsStill
<1>3. (pc'[r] = "count" /\ since' = since) \/ pc'[r] = "wait"
  BY <1>1 DEF Do, Goto, TypeOK
<1>4. NothingFailed' /\ CacheOff' /\ CachedInv'
  BY <1>1, <1>2, <1>3 DEF NothingFailed, CacheOff, CachedInv
<1>5. ASSUME NEW q \in Reader PROVE ReaderInv(q)'
  <2>1. CASE q = r
    BY <1>1, <1>2, <1>3, <2>1 DEF ReaderInv, Answered, Asking
  <2>2. CASE q # r
    BY <1>1, <1>2, <2>2 DEF ReaderInv, Answered
  <2> QED
    BY <2>1, <2>2
<1>6. ASSUME NEW q \in Reader, pc'[q] = "wait"
      PROVE  since'[q] = since'[leader'[key'[q]]]
  <2>1. CASE leader[key[r]] = None
    <3>1. /\ leader' = [leader EXCEPT ![key[r]] = r] /\ since' = since
          /\ pc'[r] = "count"
      BY <1>1, <2>1 DEF Do, Goto, TypeOK
    <3>2. q # r /\ pc[q] = "wait"
      BY <1>1, <1>6, <3>1
    <3>3. leader[key[q]] # None /\ key[q] \in Key
      BY <3>2 DEF FlightInv, TypeOK
    <3>4. leader'[key[q]] = leader[key[q]]
      BY <2>1, <3>1, <3>3 DEF TypeOK
    <3> QED
      BY <1>1, <3>1, <3>2, <3>4 DEF WaitInv
  <2>2. CASE leader[key[r]] # None
    <3>1. /\ leader' = leader /\ key' = key
          /\ since' = [since EXCEPT ![r] = since[leader[key[r]]]]
      BY <1>1, <2>2 DEF Do
    <3>2. leader[key[q]] # None /\ key[q] \in Key
      BY <1>1, <1>6, <2>2 DEF FlightInv, TypeOK
    <3>3. leader[key[q]] \in Reader \ {r}
      BY <1>1, <3>2 DEF FlightInv, InFlight, TypeOK
    <3>4. q # r => pc[q] = "wait"
      BY <1>1, <1>6
    <3> QED
      BY <3>1, <3>3, <3>4 DEF WaitInv, TypeOK
  <2> QED
    BY <2>1, <2>2
<1> QED
  BY <1>4, <1>5, <1>6 DEF WaitInv

\* Everybody in a flight gets a page that has what its leader asked for.
LEMMA QuietFlightEnds ==
  ASSUME TypeInv, FlightInv, Calm, NEW r \in Reader, FlightEnds(r)
  PROVE  Calm'
<1> USE DEF TypeInv, Call, Calm
<1> DEFINE all == Waiting(key[r]) \union {r}
<1>1. /\ pc[r] = "return" /\ key[r] \in Key
      /\ leader' = [leader EXCEPT ![key[r]] = None]
      /\ UNCHANGED <<cacheEnabled, key, since, ctxDone, reply, todo, cache, db,
                     breaker>>
      /\ \A c \in Call : pc'[c] = IF c \in all THEN "done" ELSE pc[c]
      /\ \A q \in Reader : page'[q] = IF q \in all THEN page[r] ELSE page[q]
  BY DEF FlightEnds, TypeOK
<1>2. \A c \in Creator : pc'[c] = pc[c]
  BY <1>1, CallsDisjoint DEF Waiting
<1>3. /\ Acknowledged' = Acknowledged
      /\ \A l \in Key : OverdueBy(l)' = OverdueBy(l)
  BY <1>1, <1>2, CreatorsStill
<1>4. NothingFailed' /\ CacheOff' /\ CachedInv'
  BY <1>1, <1>3 DEF NothingFailed, CacheOff, CachedInv
<1>5. page[r] \in Pages /\ page[r].rows >= since[r] /\ leader[key[r]] = r
  BY <1>1 DEF ReaderInv, Answered, FlightInv, InFlight
<1>6. ASSUME NEW q \in Reader PROVE ReaderInv(q)'
  <2>1. CASE q \in all
    <3>1. since[q] = since[r]
      BY <1>5, <2>1 DEF WaitInv, Waiting
    <3> QED
      BY <1>1, <1>5, <2>1, <3>1 DEF ReaderInv, Answered, Asking
  <2>2. CASE q \notin all
    <3>1. ReaderInv(q)
      OBVIOUS
    <3>2. pc'[q] = pc[q] /\ page'[q] = page[q]
      BY <1>1, <2>2
    <3> QED
      BY <1>1, <1>3, <3>1, <3>2 DEF ReaderInv, Answered
  <2> QED
    BY <2>1, <2>2
<1>7. ASSUME NEW q \in Reader, pc'[q] = "wait"
      PROVE  since'[q] = since'[leader'[key'[q]]]
  <2>1. pc[q] = "wait" /\ key[q] # key[r] /\ key[q] \in Key
    BY <1>1, <1>7 DEF Waiting, TypeOK
  <2>2. leader'[key[q]] = leader[key[q]]
    BY <1>1, <2>1 DEF TypeOK
  <2> QED
    BY <1>1, <2>1, <2>2 DEF WaitInv
<1> QED
  BY <1>4, <1>6, <1>7 DEF WaitInv

-----------------------------------------------------------------------------
\* Steps of creators and of the environment, which move no reader.
LEMMA OthersMove ==
  ASSUME TypeOK, Calm, NothingFailed', CachedInv',
         UNCHANGED <<cacheEnabled, key, since, page, leader>>,
         \A r \in Reader : pc'[r] = pc[r],
         \A k \in Key : cache'[k] \in {cache[k], None},
         db' = db \/ \A r \in Reader : ~Loading(r),
         Acknowledged' \in Int, Acknowledged <= Acknowledged'
  PROVE  Calm'
<1> USE DEF Calm
<1>1. CacheOff'
  BY DEF CacheOff
<1>2. ASSUME NEW r \in Reader PROVE ReaderInv(r)'
  <2>1. ReaderInv(r) /\ since[r] \in Int /\ Acknowledged \in Int
    BY AcknowledgedAreThere DEF TypeOK
  <2>2. pc[r] \in Asking => since[r] <= Acknowledged'
    BY <2>1 DEF ReaderInv
  <2>3. pc[r] \in {"find", "set", "setting"} => db' = db
    BY DEF Loading
  <2> QED
    BY <2>1, <2>2, <2>3 DEF ReaderInv, Answered
<1>3. WaitInv'
  BY DEF WaitInv
<1> QED
  BY <1>1, <1>2, <1>3

\* One creator more to come by, or one less.
LEMMA CountMore ==
  ASSUME NEW S, IsFiniteSet(S), NEW x, x \notin S, NEW T, T = S \union {x}
  PROVE  Cardinality(T) = Cardinality(S) + 1
BY FS_AddElement

LEMMA CountLess ==
  ASSUME NEW S, IsFiniteSet(S), NEW x \in S, NEW T, T = S \ {x}
  PROVE  Cardinality(T) = Cardinality(S) - 1
BY FS_RemoveElement

LEMMA QuietInsert ==
  ASSUME TypeInv, Calm, Quiet, Quiet', NEW c \in Creator, Insert(c)
  PROVE  Calm'
<1> USE DEF TypeInv, Call
<1>1. /\ pc[c] = "insert" /\ Commit
      /\ pc' = [pc EXCEPT ![c] = IF cacheEnabled THEN "purge" ELSE "done"]
      /\ UNCHANGED <<cacheEnabled, key, since, page, ctxDone, reply, todo, leader,
                     cache, breaker>>
  BY DEF Insert, Fault, Quiet, Goto, local
<1>2. db' = db + 1 /\ db \in Nat /\ \A r \in Reader : ~Loading(r)
  BY <1>1 DEF Commit, Quiet, TypeOK
<1>3. /\ \A d \in Creator \ {c} : pc'[d] = pc[d]
      /\ \A r \in Reader : pc'[r] = pc[r]
      /\ pc'[c] = IF cacheEnabled THEN "purge" ELSE "done"
  BY <1>1, CallsDisjoint DEF TypeOK
<1>4. Acknowledged <= Acknowledged' /\ Acknowledged' \in Int
  <2>1. /\ Acknowledged = db - Cardinality(Busy)
        /\ Acknowledged' = db' - Cardinality(Busy')
    BY DEF Acknowledged, Busy
  <2>2. Busy' = Busy \/ (Busy' = Busy \union {c} /\ c \notin Busy)
    BY <1>1, <1>3 DEF Busy
  <2>3. Cardinality(Busy') \in {Cardinality(Busy), Cardinality(Busy) + 1}
    BY <2>2, Counts, CountMore
  <2> QED
    BY <1>2, <2>1, <2>3, Counts
<1>5. CachedInv'
  <2> SUFFICES ASSUME NEW k \in Key, cache'[k] # None
               PROVE  /\ cache'[k].total = cache'[k].rows
                      /\ cache'[k].rows <= db'
                      /\ db' <= cache'[k].rows + Cardinality(OverdueBy(k)')
    BY DEF CachedInv
  <2>1. cacheEnabled
    BY <1>1 DEF Calm, CacheOff
  <2>2. OverdueBy(k)' = OverdueBy(k) \union {c} /\ c \notin OverdueBy(k)
    BY <1>1, <1>3, <2>1 DEF OverdueBy
  <2>3. Cardinality(OverdueBy(k)') = Cardinality(OverdueBy(k)) + 1
    BY <2>2, Counts, CountMore
  <2>4. cache[k] \in Pages /\ cache[k].rows \in Nat
    BY <1>1 DEF TypeOK, Pages
  <2> QED
    BY <1>1, <1>2, <2>3, <2>4, Counts DEF Calm, CachedInv
<1>6. NothingFailed'
  BY <1>1 DEF Calm, NothingFailed
<1> QED
  BY <1>1, <1>2, <1>3, <1>4, <1>5, <1>6, OthersMove

\* The purge of a creator c: what it has deleted is no longer overdue by it.
LEMMA QuietPurges ==
  ASSUME TypeInv, Calm, Quiet, Quiet', NEW c \in Creator,
         Create(c) \/ Purge(c) \/ PurgeRuns(c) \/ PurgeEnds(c)
  PROVE  Calm'
<1> USE DEF TypeInv, Call
<1>0. NothingFailed /\ reply \in [Call -> {"none", "ran", "error"}]
  BY DEF Calm, TypeOK
<1>1. /\ UNCHANGED <<cacheEnabled, key, since, page, ctxDone, leader, db>>
      /\ \A r \in Reader : pc'[r] = pc[r]
      /\ \A d \in Creator \ {c} : pc'[d] = pc[d] /\ todo'[d] = todo[d]
      /\ breaker' = NewBreaker /\ \A d \in Call : reply'[d] # "error"
  <2>1. CASE Create(c)
    BY <1>0, <2>1, CallsDisjoint DEF Create, Goto, local, NothingFailed, TypeOK
  <2>2. CASE Purge(c)
    BY <1>0, <2>2, CalmIssue, CallsDisjoint DEF Purge, Goto, NothingFailed, TypeOK
  <2>3. CASE PurgeRuns(c)
    BY <1>0, <2>3 DEF PurgeRuns, NothingFailed, TypeOK
  <2>4. CASE PurgeEnds(c)
    BY <1>0, <2>4, CallsDisjoint DEF PurgeEnds, Goto, NothingFailed, TypeOK
  <2> QED
    BY <2>1, <2>2, <2>3, <2>4
<1>2. NothingFailed'
  BY <1>0, <1>1 DEF NothingFailed
<1>3. /\ \A k \in Key : cache'[k] \in {cache[k], None}
      /\ \A k \in Key : cache'[k] # None => OverdueBy(k)' = OverdueBy(k)
      /\ Busy' = Busy
  <2>1. CASE Create(c)
    <3>1. pc[c] = "idle" /\ pc'[c] = "insert" /\ cache' = cache /\ todo' = todo
      BY <2>1 DEF Create, Goto, local, TypeOK
    <3> QED
      BY <1>1, <3>1 DEF OverdueBy, Busy
  <2>2. CASE Purge(c)
    <3>1. pc[c] = "purge" /\ pc'[c] = "purging" /\ cache' = cache /\ todo'[c] = Key
      BY <1>0, <2>2, CalmIssue DEF Purge, Goto, TypeOK
    <3> QED
      BY <1>1, <3>1 DEF OverdueBy, Busy
  <2>3. CASE PurgeRuns(c)
    <3>1. PICK l \in todo[c] :
            /\ cache' = [cache EXCEPT ![l] = None]
            /\ todo' = [todo EXCEPT ![c] = @ \ {l}]
            /\ pc' = pc
      BY <2>3 DEF PurgeRuns
    <3>2. /\ \A k \in Key : cache'[k] = IF k = l THEN None ELSE cache[k]
          /\ todo'[c] = todo[c] \ {l}
      BY <3>1 DEF TypeOK
    <3> QED
      BY <1>1, <3>1, <3>2 DEF OverdueBy, Busy
  <2>4. CASE PurgeEnds(c)
    <3>1. /\ pc[c] = "purging" /\ pc'[c] = "purged" /\ cache' = cache
          /\ todo[c] = {} /\ todo' = todo
      BY <2>4 DEF PurgeEnds, Goto, TypeOK
    <3> QED
      BY <1>1, <3>1 DEF OverdueBy, Busy
  <2> QED
    BY <2>1, <2>2, <2>3, <2>4
<1>4. CachedInv'
  BY <1>1, <1>3 DEF Calm, CachedInv
<1>5. Acknowledged' = Acknowledged
  BY <1>1, <1>3 DEF Acknowledged, Busy
<1>6. Acknowledged \in Int
  BY AcknowledgedAreThere
<1> QED
  BY <1>1, <1>2, <1>3, <1>4, <1>5, <1>6, OthersMove

\* CreateCourse answers: a course more is acknowledged.
LEMMA QuietPurgeReturns ==
  ASSUME TypeInv, Calm, NEW c \in Creator, PurgeReturns(c)
  PROVE  Calm'
<1> USE DEF TypeInv, Call
<1>1. /\ pc[c] = "purged" /\ breaker' = NewBreaker
      /\ reply' = [reply EXCEPT ![c] = "none"] /\ pc' = [pc EXCEPT ![c] = "done"]
      /\ UNCHANGED <<cacheEnabled, key, since, page, ctxDone, todo, leader, cache,
                     db>>
  BY CalmSettle DEF PurgeReturns, Calm, Goto
<1>2. /\ \A d \in Creator \ {c} : pc'[d] = pc[d]
      /\ \A r \in Reader : pc'[r] = pc[r]
      /\ pc'[c] = "done"
      /\ \A d \in Call : reply'[d] = IF d = c THEN "none" ELSE reply[d]
  BY <1>1, CallsDisjoint DEF TypeOK
<1>3. NothingFailed'
  BY <1>1, <1>2 DEF Calm, NothingFailed
<1>4. \A k \in Key : OverdueBy(k)' = OverdueBy(k)
  BY <1>1, <1>2 DEF OverdueBy
<1>5. CachedInv'
  BY <1>1, <1>4 DEF Calm, CachedInv
<1>6. Acknowledged <= Acknowledged' /\ Acknowledged' \in Int
  <2>1. /\ Acknowledged = db - Cardinality(Busy)
        /\ Acknowledged' = db - Cardinality(Busy')
    BY <1>1 DEF Acknowledged, Busy
  <2>2. Busy' = Busy \ {c} /\ c \in Busy
    BY <1>1, <1>2 DEF Busy
  <2>3. Cardinality(Busy') = Cardinality(Busy) - 1
    BY <2>2, Counts, CountLess
  <2> QED
    BY <2>1, <2>3, Counts DEF TypeOK
<1> QED
  BY <1>1, <1>2, <1>3, <1>5, <1>6, OthersMove

LEMMA QuietElse ==
  ASSUME TypeInv, Calm,
         \/ \E k \in Key : Expire(k)
         \/ CoolDown
         \/ UNCHANGED vars
  PROVE  Calm'
<1> USE DEF TypeInv, Call
<1>1. ~CoolDown
  BY DEF CoolDown, Calm, NothingFailed, NewBreaker
<1>2. /\ UNCHANGED <<cacheEnabled, pc, key, since, page, ctxDone, reply, todo,
                     leader, db, breaker>>
      /\ \A k \in Key : cache'[k] \in {cache[k], None}
  BY <1>1 DEF Expire, local, vars, TypeOK
<1>3. /\ Acknowledged' = Acknowledged /\ Acknowledged \in Int
      /\ \A k \in Key : OverdueBy(k)' = OverdueBy(k)
  BY <1>2, CreatorsStill, AcknowledgedAreThere
<1>4. NothingFailed' /\ CachedInv'
  BY <1>2, <1>3 DEF Calm, NothingFailed, CachedInv
<1> QED
  BY <1>2, <1>3, <1>4, OthersMove

\* Faults and races are not undone.
LEMMA QuietBefore ==
  ASSUME TypeOK, [Next]_vars, Quiet'
  PROVE  Quiet
<1>1. faults \in Nat
  BY MaxFaultsAssumption DEF TypeOK
<1>2. \A c, s, t : CommandFails(c, s, t) => Quiet
  BY <1>1 DEF CommandFails, Fault, Quiet
<1>3. ASSUME NEW r \in Reader, NEW k \in Key, List(r, k) PROVE Quiet
  BY <1>3 DEF List, Quiet
<1>4. ASSUME NEW r \in Reader, Read(r) PROVE Quiet
  BY <1>1, <1>4
  DEF Read, Get, GetRuns, GetReturns, Do, Count, Find, Set, SetRuns, SetReturns,
      FlightEnds, Fault, Quiet
<1>5. ASSUME NEW r \in Reader, ListAgain(r) \/ SetAnswerLost(r) PROVE Quiet
  BY <1>1, <1>5 DEF ListAgain, SetAnswerLost, Fault, Quiet
<1>6. ASSUME NEW r \in Reader, GetFails(r) \/ SetFails(r) PROVE Quiet
  BY <1>2, <1>6 DEF GetFails, SetFails
<1>7. ASSUME NEW c \in Creator, Insert(c) PROVE Quiet
  <2>1. ~raced
    BY <1>7, Zenon DEF Insert, Commit, Quiet
  <2>2. faults = 0
    BY <1>1, <1>7 DEF Insert, Fault, Quiet
  <2> QED
    BY <2>1, <2>2 DEF Quiet
<1>8. ASSUME NEW c \in Creator,
             \/ Create(c) \/ Purge(c) \/ PurgeRuns(c) \/ PurgeEnds(c)
             \/ PurgeReturns(c)
      PROVE  Quiet
  BY <1>8 DEF Create, Purge, PurgeRuns, PurgeEnds, PurgeReturns, Quiet
<1>9. ASSUME NEW c \in Creator, PurgeFails(c) PROVE Quiet
  BY <1>2, <1>9 DEF PurgeFails
<1>10. ASSUME NEW c \in Call, Timeout(c) PROVE Quiet
  BY <1>1, <1>10 DEF Timeout, Fault, Quiet
<1>11. CASE CoolDown \/ Crash \/ \E k \in Key : Expire(k)
  BY <1>1, <1>11 DEF CoolDown, Crash, Expire, Fault, Quiet
<1>12. CASE UNCHANGED vars
  BY <1>12 DEF vars, Quiet
<1> QED
  BY <1>3, <1>4, <1>5, <1>6, <1>7, <1>8, <1>9, <1>10, <1>11, <1>12
  DEF Next, Write

LEMMA CalmStep ==
  ASSUME TypeInv, FlightInv, CalmInv, [Next]_vars
  PROVE  CalmInv'
<1> SUFFICES ASSUME Quiet' PROVE Calm'
  BY DEF CalmInv
<1>1. Quiet
  BY QuietBefore DEF TypeInv
<1>2. Calm
  BY <1>1 DEF CalmInv
<1>3. \A c \in Call : \A s, t : ~CommandFails(c, s, t)
  BY <1>1, <1>2, NoCommandFails DEF Calm
<1>4. ~Fault
  BY <1>1 DEF Fault, Quiet
<1>5. ASSUME NEW r \in Reader, NEW k \in Key, List(r, k) PROVE Calm'
  BY <1>2, <1>5, QuietList
<1>6. ASSUME NEW r \in Reader, Read(r) \/ ListAgain(r) PROVE Calm'
  BY <1>1, <1>2, <1>6, QuietReads, QuietDo, QuietFlightEnds DEF Read
<1>7. ASSUME NEW r \in Reader PROVE ~GetFails(r) /\ ~SetFails(r)
  BY <1>3 DEF GetFails, SetFails, Call
<1>8. ASSUME NEW r \in Reader PROVE ~SetAnswerLost(r)
  BY <1>2, <1>4 DEF SetAnswerLost, Calm, NothingFailed, Call
<1>9. ASSUME NEW c \in Creator, Create(c) \/ Write(c) PROVE Calm'
  BY <1>1, <1>2, <1>9, QuietInsert, QuietPurges, QuietPurgeReturns DEF Write
<1>10. ASSUME NEW c \in Creator PROVE ~PurgeFails(c)
  BY <1>3 DEF PurgeFails, Call
<1>11. ~Crash /\ \A c \in Call : ~Timeout(c)
  BY <1>4 DEF Crash, Timeout
<1> QED
  BY <1>2, <1>5, <1>6, <1>7, <1>8, <1>9, <1>10, <1>11, QuietElse DEF Next

LEMMA CalmInvariant == Spec => []CalmInv
<1>1. ASSUME Init PROVE CalmInv
  <2>1. NothingFailed /\ CacheOff /\ CachedInv
    BY <1>1 DEF Init, NothingFailed, CacheOff, CachedInv, Call
  <2>2. \A r \in Reader : ReaderInv(r)
    BY <1>1 DEF Init, ReaderInv, Answered, Asking, Call
  <2>3. WaitInv
    BY <1>1 DEF Init, WaitInv, Call
  <2> QED
    BY <2>1, <2>2, <2>3 DEF CalmInv, Calm
<1>2. FlightType /\ FlightInv => FlightInv
  OBVIOUS
<1> QED
  BY <1>1, <1>2, CalmStep, TypeInvariant, FlightInvariant, PTL DEF Spec

\* What is cached, once every CreateCourse has come by its key, is the table as
\* it is: without faults only a race of an insertion with a load leaves a stale
\* page.
THEOREM OnlyRacesLeaveStale == Spec => []StaleOnlyIfRaced
<1>1. ASSUME TypeInv, CalmInv, NEW k \in Key, cache[k] # None, ~Overdue(k),
             ~raced, faults = 0
      PROVE  cache[k] = [rows |-> db, total |-> db]
  <2>1. OverdueBy(k) = {}
    BY <1>1 DEF Overdue, OverdueBy
  <2>2. cache[k] \in Pages /\ cache[k].rows \in Nat /\ db \in Nat
    BY <1>1 DEF TypeInv, TypeOK, Pages
  <2>3. /\ cache[k].total = cache[k].rows
        /\ cache[k].rows <= db
        /\ db <= cache[k].rows + 0
    BY <1>1, <2>1, FS_EmptySet DEF CalmInv, Quiet, Calm, CachedInv
  <2> QED
    BY <2>2, <2>3 DEF Pages
<1>2. TypeInv /\ CalmInv => StaleOnlyIfRaced
  BY <1>1 DEF StaleOnlyIfRaced
<1> QED
  BY <1>2, TypeInvariant, CalmInvariant, PTL

\* A reader is given every course that was acknowledged when its load, or the one
\* it joined, was asked for.
THEOREM FreshAsAsked == Spec => []FreshAsItsLoad
<1>1. CalmInv => FreshAsItsLoad
  BY DEF CalmInv, Calm, Quiet, ReaderInv, Answered, FreshAsItsLoad
<1> QED
  BY <1>1, CalmInvariant, PTL
=============================================================================
