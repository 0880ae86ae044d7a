---------------------------- MODULE CourseCatalog ----------------------------
(***************************************************************************)
(* The course list: CourseServiceServer.ListCourses reads a page through   *)
(* Redis (cache-aside behind cacheBreaker), loads it from MySQL under      *)
(* singleflight when it is not there and writes it back with a TTL;        *)
(* CreateCourse inserts a course and then deletes every cached page.       *)
(*                                                                         *)
(* A page is abstracted to how many courses existed when each of its two   *)
(* queries ran: rows for the SELECT, total for the COUNT.  Every insertion *)
(* changes every page, the list being ordered by created_at DESC.          *)
(***************************************************************************)
EXTENDS RedisBreaker, FiniteSets

CONSTANTS
  Reader,      \* calls of ListCourses
  Creator,     \* calls of CreateCourse
  Key,         \* cache keys: (page, size) pairs
  None,        \* nothing: no entry, no leader, no result
  Failed,      \* the result of a load that failed
  MaxFaults    \* bound on faults, timeouts and crashes in a behaviour

ASSUME CallsDisjoint == Reader \intersect Creator = {} /\ Key # {}
ASSUME CreatorFinite == IsFiniteSet(Creator)
ASSUME NoneNotAReader == None \notin Reader
ASSUME MaxFaultsAssumption == MaxFaults \in Nat

Call == Reader \union Creator

VARIABLES
  cacheEnabled,  \* CACHE_ENABLED, read at start-up: s.cache # nil
  pc,            \* where each call is
  key,           \* the page a reader asks for
  since,         \* history: the courses acknowledged when a reader's load,
                 \* its own or the one it joined, was asked for
  page,          \* what a reader has loaded, and in the end returns
  ctxDone,       \* the gateway's deadline for the call has passed
  reply,         \* the pending answer of a call's Redis command
  todo,          \* keys a creator's DeletePrefix has yet to come by
  leader,        \* courseListGroup: key -> the reader whose flight it is
  cache,         \* Redis: key -> page
  db,            \* number of rows in the courses table
  breaker,       \* cacheBreaker
  raced,         \* history: a course was inserted under a load in flight
  faults         \* number of faults so far

vars == <<cacheEnabled, pc, key, since, page, ctxDone, reply, todo, leader,
          cache, db, breaker, raced, faults>>

local == <<key, since, page, ctxDone, reply, todo>>

Pages == [rows : Nat, total : Nat]

Steps == {"idle", "get", "getting", "got", "do", "count", "find", "set",
          "setting", "stored", "return", "wait",
          "insert", "purge", "purging", "purged", "done"}

Init ==
  /\ cacheEnabled \in BOOLEAN
  /\ pc = [c \in Call |-> "idle"]
  /\ key = [r \in Reader |-> CHOOSE k \in Key : TRUE]
  /\ since = [r \in Reader |-> 0]
  /\ page = [r \in Reader |-> None]
  /\ ctxDone = [c \in Call |-> FALSE]
  /\ reply = [c \in Call |-> "none"]
  /\ todo = [c \in Creator |-> {}]
  /\ leader = [k \in Key |-> None]
  /\ cache = [k \in Key |-> None]
  /\ db = 0
  /\ breaker = NewBreaker
  /\ raced = FALSE
  /\ faults = 0

-----------------------------------------------------------------------------
Goto(c, s) == pc' = [pc EXCEPT ![c] = s]

Fault ==
  /\ faults < MaxFaults
  /\ faults' = faults + 1

\* A Redis command is issued: the breaker refuses it, or lets it through, to
\* go-redis, which does not start a command whose context is done.
Issue(c, refused, sent, back) ==
  \/ /\ FastFails(breaker)
     /\ Goto(c, refused)
     /\ UNCHANGED <<breaker, reply>>
  \/ /\ ~FastFails(breaker)
     /\ breaker' = Admit(breaker)
     /\ IF ctxDone[c]
        THEN reply' = [reply EXCEPT ![c] = "error"] /\ Goto(c, back)
        ELSE reply' = [reply EXCEPT ![c] = "none"] /\ Goto(c, sent)

\* The command fails; what it would have changed is not changed.
CommandFails(c, at, back) ==
  /\ pc[c] = at
  /\ \/ ctxDone[c] /\ UNCHANGED faults
     \/ ~ctxDone[c] /\ Fault
  /\ reply' = [reply EXCEPT ![c] = "error"]
  /\ Goto(c, back)
  /\ UNCHANGED <<cacheEnabled, key, since, page, ctxDone, todo, leader, cache,
                 db, breaker, raced>>

\* The breaker is told what came of the command.
Settle(c) ==
  /\ breaker' = IF reply[c] = "error" THEN AfterFailure(breaker)
                                      ELSE AfterSuccess(breaker)
  /\ reply' = [reply EXCEPT ![c] = "none"]

-----------------------------------------------------------------------------
(* ListCourses. *)

\* Courses whose creation has been answered.
Acknowledged ==
  db - Cardinality({c \in Creator : pc[c] \in {"purge", "purging", "purged"}})

List(r, k) ==
  /\ pc[r] = "idle"
  /\ key' = [key EXCEPT ![r] = k]
  /\ since' = [since EXCEPT ![r] = Acknowledged]
  /\ Goto(r, IF cacheEnabled THEN "get" ELSE "do")
  /\ UNCHANGED <<cacheEnabled, page, ctxDone, reply, todo, leader, cache, db,
                 breaker, raced, faults>>

Get(r) ==
  /\ pc[r] = "get"
  /\ Issue(r, "do", "getting", "got")
  /\ UNCHANGED <<cacheEnabled, key, since, page, ctxDone, todo, leader, cache,
                 db, raced, faults>>

GetRuns(r) ==
  /\ pc[r] = "getting"
  /\ page' = [page EXCEPT ![r] = cache[key[r]]]
  /\ reply' = [reply EXCEPT ![r] = "ran"]
  /\ Goto(r, "got")
  /\ UNCHANGED <<cacheEnabled, key, since, ctxDone, todo, leader, cache, db,
                 breaker, raced, faults>>

GetFails(r) == CommandFails(r, "getting", "got")

\* A hit is returned at once; a miss or an error leads to the database.
GetReturns(r) ==
  /\ pc[r] = "got"
  /\ Settle(r)
  /\ Goto(r, IF page[r] = None THEN "do" ELSE "done")
  /\ UNCHANGED <<cacheEnabled, key, since, page, ctxDone, todo, leader, cache,
                 db, raced, faults>>

\* Mutant: every reader that misses queries for itself.
DoAlone(r) ==
  /\ pc[r] = "do"
  /\ leader' = [leader EXCEPT ![key[r]] = r]
  /\ Goto(r, "count")
  /\ UNCHANGED <<cacheEnabled, key, since, page, ctxDone, reply, todo, cache,
                 db, breaker, raced, faults>>

\* courseListGroup.Do: the first reader of the key runs the function, those
\* that come while it runs wait for its result.
Do(r) ==
  /\ pc[r] = "do"
  /\ \/ /\ leader[key[r]] = None
        /\ leader' = [leader EXCEPT ![key[r]] = r]
        /\ Goto(r, "count")
        /\ UNCHANGED since
     \/ /\ leader[key[r]] # None
        /\ Goto(r, "wait")
        /\ since' = [since EXCEPT ![r] = since[leader[key[r]]]]
        /\ UNCHANGED leader
  /\ UNCHANGED <<cacheEnabled, key, page, ctxDone, reply, todo, cache, db,
                 breaker, raced, faults>>

\* CourseDao.ListCourses: COUNT, whose error is dropped, leaving total 0 ...
Count(r) ==
  /\ pc[r] = "count"
  /\ \/ /\ page' = [page EXCEPT ![r] = [rows |-> 0, total |-> db]]
        /\ UNCHANGED faults
     \/ /\ page' = [page EXCEPT ![r] = [rows |-> 0, total |-> 0]]
        /\ Fault
  /\ Goto(r, "find")
  /\ UNCHANGED <<cacheEnabled, key, since, ctxDone, reply, todo, leader, cache,
                 db, breaker, raced>>

\* ... and then the SELECT.
Find(r) ==
  /\ pc[r] = "find"
  /\ \/ /\ page' = [page EXCEPT ![r].rows = db]
        /\ Goto(r, IF cacheEnabled THEN "set" ELSE "return")
        /\ UNCHANGED faults
     \/ /\ page' = [page EXCEPT ![r] = Failed]
        /\ Goto(r, "return")
        /\ Fault
  /\ UNCHANGED <<cacheEnabled, key, since, ctxDone, reply, todo, leader, cache,
                 db, breaker, raced>>

\* The write-back, under the leader's context; its error is only logged.
Set(r) ==
  /\ pc[r] = "set"
  /\ Issue(r, "return", "setting", "stored")
  /\ UNCHANGED <<cacheEnabled, key, since, page, ctxDone, todo, leader, cache,
                 db, raced, faults>>

SetRuns(r) ==
  /\ pc[r] = "setting"
  /\ cache' = [cache EXCEPT ![key[r]] = page[r]]
  /\ reply' = [reply EXCEPT ![r] = "ran"]
  /\ Goto(r, "stored")
  /\ UNCHANGED <<cacheEnabled, key, since, page, ctxDone, todo, leader, db,
                 breaker, raced, faults>>

\* SET is executed but its answer is lost: go-redis sends it again, or gives
\* up, which is SetFails.
SetAnswerLost(r) ==
  /\ pc[r] = "setting"
  /\ \/ ctxDone[r] /\ UNCHANGED faults
     \/ ~ctxDone[r] /\ Fault
  /\ cache' = [cache EXCEPT ![key[r]] = page[r]]
  /\ UNCHANGED <<cacheEnabled, pc, local, leader, db, breaker, raced>>

SetFails(r) == CommandFails(r, "setting", "stored")

SetReturns(r) ==
  /\ pc[r] = "stored"
  /\ Settle(r)
  /\ Goto(r, "return")
  /\ UNCHANGED <<cacheEnabled, key, since, page, ctxDone, todo, leader, cache,
                 db, raced, faults>>

\* Mutant: the followers of a flight are forgotten.
NobodyWaiting(k) == {}

\* The function returns: the flight is over and everybody in it has its result.
Waiting(k) == {r \in Reader : pc[r] = "wait" /\ key[r] = k}

FlightEnds(r) ==
  LET all == Waiting(key[r]) \union {r}
  IN  /\ pc[r] = "return"
      /\ leader' = [leader EXCEPT ![key[r]] = None]
      /\ page' = [q \in Reader |-> IF q \in all THEN page[r] ELSE page[q]]
      /\ pc' = [c \in Call |-> IF c \in all THEN "done" ELSE pc[c]]
      /\ UNCHANGED <<cacheEnabled, key, since, ctxDone, reply, todo, cache, db,
                     breaker, raced, faults>>

\* Another call to ListCourses.
ListAgain(r) ==
  /\ pc[r] = "done"
  /\ Goto(r, "idle")
  /\ page' = [page EXCEPT ![r] = None]
  /\ ctxDone' = [ctxDone EXCEPT ![r] = FALSE]
  /\ reply' = [reply EXCEPT ![r] = "none"]
  /\ UNCHANGED <<cacheEnabled, key, since, todo, leader, cache, db, breaker,
                 raced, faults>>

-----------------------------------------------------------------------------
(* CreateCourse.  A course with an empty title or a negative price returns *)
(* before anything happens and is left out.                                *)

Create(c) ==
  /\ pc[c] = "idle"
  /\ Goto(c, "insert")
  /\ UNCHANGED <<cacheEnabled, local, leader, cache, db, breaker, raced,
                 faults>>

\* Readers that hold a page, or half of one, that is yet to be written back.
Loading(r) == pc[r] \in {"find", "set", "setting"}

Commit ==
  /\ db' = db + 1
  /\ raced' = (raced \/ \E r \in Reader : Loading(r))

Insert(c) ==
  /\ pc[c] = "insert"
  /\ \/ /\ Commit
        /\ Goto(c, IF cacheEnabled THEN "purge" ELSE "done")
        /\ UNCHANGED faults
     \/ /\ Fault                               \* an error; nothing inserted
        /\ Goto(c, "done")
        /\ UNCHANGED <<db, raced>>
     \/ /\ Fault                               \* an error after the commit
        /\ Commit
        /\ Goto(c, "done")
  /\ UNCHANGED <<cacheEnabled, local, leader, cache, breaker>>

\* invalidateCourseListCache; whatever comes of it the course is created.
Purge(c) ==
  /\ pc[c] = "purge"
  /\ Issue(c, "done", "purging", "purged")
  /\ todo' = [todo EXCEPT ![c] = Key]
  /\ UNCHANGED <<cacheEnabled, key, since, page, ctxDone, leader, cache, db,
                 raced, faults>>

\* SCAN comes by a key and DEL deletes it.
PurgeRuns(c) ==
  /\ pc[c] = "purging"
  /\ \E k \in todo[c] :
       /\ cache' = [cache EXCEPT ![k] = None]
       /\ todo' = [todo EXCEPT ![c] = @ \ {k}]
  /\ UNCHANGED <<cacheEnabled, pc, key, since, page, ctxDone, reply, leader,
                 db, breaker, raced, faults>>

\* Mutant: one SCAN is taken for all of them.
PurgeEndsEarly(c) ==
  /\ pc[c] = "purging"
  /\ todo[c] # Key
  /\ reply' = [reply EXCEPT ![c] = "ran"]
  /\ Goto(c, "purged")
  /\ UNCHANGED <<cacheEnabled, key, since, page, ctxDone, todo, leader, cache,
                 db, breaker, raced, faults>>

\* The cursor is back at 0.
PurgeEnds(c) ==
  /\ pc[c] = "purging"
  /\ todo[c] = {}
  /\ reply' = [reply EXCEPT ![c] = "ran"]
  /\ Goto(c, "purged")
  /\ UNCHANGED <<cacheEnabled, key, since, page, ctxDone, todo, leader, cache,
                 db, breaker, raced, faults>>

\* Some SCAN or DEL fails: the keys still to come stay.
PurgeFails(c) == CommandFails(c, "purging", "purged")

PurgeReturns(c) ==
  /\ pc[c] = "purged"
  /\ Settle(c)
  /\ Goto(c, "done")
  /\ UNCHANGED <<cacheEnabled, key, since, page, ctxDone, todo, leader, cache,
                 db, raced, faults>>

-----------------------------------------------------------------------------
(* The environment. *)

\* The gateway's 5s deadline: Redis commands yet to start fail, MySQL, which
\* is given no context, goes on.
Timeout(c) ==
  /\ pc[c] \notin {"idle", "done"}
  /\ ~ctxDone[c]
  /\ Fault
  /\ ctxDone' = [ctxDone EXCEPT ![c] = TRUE]
  /\ UNCHANGED <<cacheEnabled, pc, key, since, page, reply, todo, leader,
                 cache, db, breaker, raced>>

\* Mutant: pages are cached without a TTL.
KeptForEver(k) == FALSE

\* The TTL of 5 to 6 minutes.
Expire(k) ==
  /\ cache[k] # None
  /\ cache' = [cache EXCEPT ![k] = None]
  /\ UNCHANGED <<cacheEnabled, pc, local, leader, db, breaker, raced, faults>>

CoolDown ==
  /\ breaker.cooling
  /\ breaker' = Cooled(breaker)
  /\ UNCHANGED <<cacheEnabled, pc, local, leader, cache, db, raced, faults>>

\* logic-server dies and is restarted.
Crash ==
  /\ Fault
  /\ pc' = [c \in Call |-> IF pc[c] = "idle" THEN "idle" ELSE "done"]
  /\ leader' = [k \in Key |-> None]
  /\ breaker' = NewBreaker
  /\ UNCHANGED <<cacheEnabled, local, cache, db, raced>>

-----------------------------------------------------------------------------
Read(r) ==
  \/ Get(r) \/ GetRuns(r) \/ GetReturns(r)
  \/ Do(r) \/ Count(r) \/ Find(r)
  \/ Set(r) \/ SetRuns(r) \/ SetReturns(r)
  \/ FlightEnds(r)

Write(c) ==
  Insert(c) \/ Purge(c) \/ PurgeRuns(c) \/ PurgeEnds(c) \/ PurgeReturns(c)

Next ==
  \/ \E r \in Reader :
       \/ \E k \in Key : List(r, k)
       \/ Read(r) \/ ListAgain(r)
       \/ GetFails(r) \/ SetFails(r) \/ SetAnswerLost(r)
  \/ \E c \in Creator : Create(c) \/ Write(c) \/ PurgeFails(c)
  \/ \E c \in Call : Timeout(c)
  \/ \E k \in Key : Expire(k)
  \/ CoolDown
  \/ Crash

Spec == Init /\ [][Next]_vars

\* Handlers run to their end, entries reach their TTL, time passes.  Nobody
\* has to ask for a list or to create a course.
Fairness ==
  /\ \A r \in Reader : WF_vars(Read(r))
  /\ \A c \in Creator : WF_vars(Write(c))
  /\ \A k \in Key : WF_vars(Expire(k))
  /\ WF_vars(CoolDown)

FairSpec == Spec /\ Fairness

-----------------------------------------------------------------------------
\* The variables have their types.
TypeOK ==
  /\ cacheEnabled \in BOOLEAN
  /\ pc \in [Call -> Steps]
  /\ key \in [Reader -> Key]
  /\ since \in [Reader -> Int]
  /\ page \in [Reader -> Pages \union {None, Failed}]
  /\ ctxDone \in [Call -> BOOLEAN]
  /\ reply \in [Call -> {"none", "ran", "error"}]
  /\ todo \in [Creator -> SUBSET Key]
  /\ leader \in [Key -> Reader \union {None}]
  /\ cache \in [Key -> Pages \union {None}]
  /\ db \in Nat
  /\ breaker \in Breakers
  /\ raced \in BOOLEAN
  /\ faults \in 0 .. MaxFaults

-----------------------------------------------------------------------------
\* "At any moment there is only one database query for one CacheKey"
\* (docs/ARCHITECTURE_EVOLUTION.md, stage three), however many readers miss
\* together and whatever becomes of the leader.
OneLoadPerKey ==
  \A r, q \in Reader :
    /\ {pc[r], pc[q]} \subseteq {"count", "find"}
    /\ key[r] = key[q]
    => r = q

\* A reader that waits has somebody to wait for: the leader of its key, which
\* is in flight on that key.
WaitersHaveLeader ==
  \A r \in Reader : pc[r] = "wait" =>
    LET l == leader[key[r]]
    IN  /\ l # None
        /\ key[l] = key[r]
        /\ pc[l] \in {"count", "find", "set", "setting", "stored", "return"}

\* Once CreateCourse has come by a key, what is cached there is the table as it
\* is, unless a fault occurred or the insertion fell between a reader's load
\* and its write-back (that stale page stays until its TTL).
Overdue(k) ==
  \E c \in Creator :
    pc[c] = "purge" \/ (pc[c] = "purging" /\ k \in todo[c])

StaleOnlyIfRaced ==
  \A k \in Key :
    /\ cache[k] # None /\ ~Overdue(k)
    /\ ~raced /\ faults = 0
    => cache[k] = [rows |-> db, total |-> db]

\* A reader is given every course whose creation had been answered when the
\* load behind its page was asked for.  That is when it asked itself, unless it
\* joined a flight: a course acknowledged between the leader's question and its
\* own may be missing.
FreshAsItsLoad ==
  \A r \in Reader :
    /\ pc[r] = "done" /\ page[r] \in Pages
    /\ ~raced /\ faults = 0
    => page[r].rows >= since[r]

\* Whatever raced or failed, the cache ends up agreeing with the table.
EventuallyFresh ==
  <>[](\A k \in Key : cache[k] \in {None, [rows |-> db, total |-> db]})

\* Every reader gets an answer, the ones that joined a flight included.
EveryReaderEnds == \A r \in Reader : pc[r] # "idle" ~> pc[r] = "done"

\* An empty list is not cached (logic-server/service/course_service_test.go).
EmptyListNotCached == \A k \in Key : cache[k] # None => cache[k].rows > 0

=============================================================================
