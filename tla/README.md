# geekedu in TLA+

A verification development for geekedu, a learning platform that sells courses
and plays their videos.  It models the parts of the program where steps of
several requests, of Redis, MySQL and OSS, of the gateway's deadlines and of
crashes interleave; TLC checks the models on small instances, and TLAPS proves
the central results for every instance.

## 1. The system

    browser (React) --HTTP--> web-server (Gin gateway) --gRPC--> logic-server
                                                                  |    |    |
       |                                                       MySQL Redis OSS
       +----------------- signed URLs: PUT parts, play ------------------^

| Component | State | Operations | Talks to |
|---|---|---|---|
| Order service (`logic-server/service/order_service.go`, `web-server/handler/order_handler.go`) | `orders` rows, the Redis lock per (user, course) | `CreateOrder`, `CheckPurchase` | lock breaker, Redis, MySQL; the gateway waits 5 s |
| Redis circuit breaker (`service/adapters.go`) | `state`, `failures`, `probeInFlight`, `openUntil`, the gauge `redis_circuit_open` | `beforeRequest`, `afterSuccess`, `afterFailure` | called by every Redis command; one breaker for the cache, one for locks |
| Course list (`service/course_service.go`, `dao/course_dao.go`) | `courses` rows, cached pages, the flights of `courseListGroup` | `ListCourses`, `CreateCourse`, `DeletePrefix` | cache breaker, Redis, MySQL |
| Videos (`service/video_service.go`, `oss/oss_client.go`, `pages/Admin/UploadVideo`) | multipart uploads and objects in OSS, `course_videos` rows, signed URLs | `InitMultipartUpload`, the page's PUTs, `CompleteMultipartUpload`, `GetVideoPlayURL` | OSS, MySQL, orders |
| Accounts and sessions (`service/user_service.go`, `common/jwt`, `middleware/auth.go`, `frontend/src/api/request.ts`, `utils/token.ts`) | `users` rows, tokens, the browser's `localStorage` | `Register`, `Login`, `AuthMiddleware`, `AdminMiddleware`, the axios interceptors | MySQL, every protected route |
| Browser pages and routing (`App.tsx`, `components/Layout`, `pages/*`, `api/request.ts`) | the tab's history, the mounted page's state, the header, requests on their way | navigation, every page's button and request, answers, a 401, reloads, other tabs | the gateway, `localStorage` |
| Course detail (`GetCourse`, `pages/CourseDetail`) | the page's course and videos | load, buy, play | MySQL, orders, the player |
| Load test report (`Jmeter/report/content`) | a panel's boxes, labels, graph, overview, zoom | draw, expand, hide or show series, zoom | flot, the recorded data |
| Cover upload and course form (`pages/Admin/CreateCourse`) | a cover object, a course row | `GetCoverUploadURL`, PUT, `CreateCourse` | OSS, course list |
| Paging (`normalizePage`, the handlers' query parsing, `pages/CourseList`) | the page shown | turning the page | course list |
| Error codes (`common/errcode`, `common/response`) | none | business error <-> gRPC status <-> HTTP | all |
| Rate limiter (`middleware/ratelimit.go`) | a token bucket per route group | admit, refuse | gateway |
| Start-up, configuration, logging, metrics, traces | configuration | wait for MySQL, graceful stop | - |

### What is hard

* **Check, then act.** `CreateOrder` and `Register` look for a row and insert
  one later; the lock in front of `CreateOrder` is best effort (it may be
  disabled, refused by the breaker, expired, or held by a dead process).
* **Lost answers.** MySQL, Redis or OSS may have done what the caller is told
  has failed.  go-redis resends a command whose answer was lost, and then meets
  its own effect: a `SetNX` that finds its own key reads as a conflict.
* **Deadlines.** The gateway gives up; the DAO and OSS calls, which are given
  no context, go on.  A retry then runs beside the attempt it repeats.
* **Late results.** The breaker hears of a command in whatever state it is by
  then, not in the one that let the command through.
* **Cache-aside races.** A page read before an insertion may be written after
  the invalidation.
* **Two stores.** An upload, or a cover, becomes an object in OSS and a row in
  MySQL with no transaction between them.
* **A list that moves.** Pages are cut by OFFSET out of a list that grows at its
  front, from answers that may arrive in any order.
* **One localStorage.** All tabs of a browser share one session, and any 401
  clears it.
* **Pages that stay.** Back and Forward change the id in the address under a
  mounted page, whose old requests still answer; a page that is left has its
  late answers move or sign in whoever is elsewhere by then.
* **Panics.** A recovered panic answers the caller but skips everything that is
  not deferred, the breaker's books among it.
* **Controls before their content.** A report's panel can be told to hide its
  series before it has any on the screen.

`PROJECT.json` lists the hazards at their lines with the properties that cover
each, and the reason where none does.

### What would make each component correct

* Orders: a pair is bought once; what a buyer is told is true; a lock whose
  lease runs belongs to its taker; nobody is shut out for good.
* Breaker: it closes when Redis is back; it never refuses for ever; the metric
  agrees with it.
* Course list: one query per key at a time; no reader waits on nobody; stale
  pages come only from known causes and go away.
* Videos: a listed video is playable, holds what its administrator sent, and
  reaches only those who bought its course.
* Course form: one form becomes one course, with its own cover.
* List page: who turns all its pages has seen all courses, and the pager and the
  spinner tell what is so.
* Pages: what is shown, and what its button acts on, is what the address names;
  the header is the session's; nothing waits for what is not coming.
* Report: box, colour, curve and label of a series belong together; the overview
  agrees with the graph; times are shifted once.
* Accounts: one account per name; a request is admitted only for the account
  behind its token; the browser's session is not thrown away without a reason.

## 2. The modules

### RedisBreaker and RedisCircuitBreaker

`RedisBreaker` is the breaker as a value.  Each method of
`redisCircuitBreaker` runs under its mutex, so it is a function: `FastFails`
and `Admit` are the two outcomes of `beforeRequest`, `AfterSuccess`, `Trips`
and `AfterFailure` are the methods of those names with `tripLocked`.
Wall-clock time is the flag `cooling`, for `now < openUntil`, which the
environment clears at any moment.  `failures` keeps counting, as the code does,
when failures arrive at a breaker that is open (`AfterFailure`); `tripLocked`
sets it to 0.

`RedisCircuitBreaker` is the breaker with its callers.  A caller is `idle`,
with Redis (`sent`), or has a result (`ok`, `failed`) that it has not yet
reported.  Redis comes and goes at any time.  A caller that is refused changes
nothing and has no action.  `Panic` is a command that panics:
`UnaryServerRecoveryInterceptor` answers the caller, and neither of the
breaker's methods is called, since neither is deferred.  `lost` says that the
probe went this way and that no result has arrived since.

### OrderService

One attempt is a `Request`, whose identity is the uuid in the lock.  `pc`
follows the handler; the other per-attempt variables are its locals.

| Code (`CreateOrder`) | Action |
|---|---|
| parameter check | `Reject`, `Accept` |
| `s.cache.SetNX` through `lockBreaker` | `SetNX` (the breaker's decision), `SetNXRuns` (Redis), `SetNXReturns` (report to the breaker, go on) |
| a resend by go-redis, an error, a passed context | `SetNXAnswerLost`, `SetNXFails` |
| `GetCourseByID`, `CheckPurchase`, `CreateOrder` of the DAOs | `GetCourse`, `CheckPurchase`, `Insert` |
| the deferred `Eval` (compare and delete) | `Unlock`, `EvalRuns`, `EvalReturns`, `EvalAnswerLost`, `EvalFails` |
| the handler's return, the gateway's deadline | `Deliver`, `Timeout` |
| a user's next attempt | `TryAgain` |
| the lock's TTL, `openUntil`, a crash | `Expire`, `CoolDown`, `Crash` |

A Redis command has separate steps for the server's execution and the
handling of the answer, so that an expiry, another attempt or a trip of the
breaker can fall between them.  `lapsed` is a history variable: the lease of
the attempt ran out before its release.  `TryAgain` reuses the name of an
attempt whose uuid is stored nowhere: it is as good as a fresh uuid, and lets a
finite set of names stand for any number of attempts.  The `orders` rows
carry the attempt that wrote them, which the table does not.

### Purchase

What `CreateOrder` promises, without locks, Redis or time: `owner` says who
bought a pair, `Buy` gives a free listed pair to an attempt that asks for it,
`Answer` tells the client something true.  `OrderService` implements it under
the mapping `asking <- Working`, `asked <- pair`, `owner <- OwnerOf`,
`told <- seen`.

### CourseCatalog

`ListCourses` and `CreateCourse`.  A page is abstracted to what the properties
tell apart: how many courses there were when its COUNT ran (`total`) and when
its SELECT ran (`rows`).  Every insertion changes every page, since the list is
ordered by creation time, newest first.  `leader` is
`courseListGroup`: `Do` starts a flight or joins one, `FlightEnds` hands the
result to everybody in it.  `Count` may fail and leave a total of 0, since
`CourseDao.ListCourses` drops that error.  `Purge`, `PurgeRuns`, `PurgeEnds`
and `PurgeReturns` are `DeletePrefix`, which comes by one key after the other.
`raced` is a history variable: a course was inserted between a reader's load
and its write-back.  `since` is another: the courses whose creation had been
answered (`Acknowledged`) when the load behind a reader's page was asked for.
Creations whose title or price is refused return before
any change and are left out.

### VideoService

`pc` follows an upload through the page and the two handlers; OSS keeps
`session` and `objects`, MySQL keeps `videos`, and nothing but the upload's
requests relates them.  `VideoKey` is `GenerateVideoKey`: the course, and a
`Stamp` for the millisecond and the file's name, so that two uploads may share
a key.  `stamp` and `course` are chosen in `Init`, for the form's submission
decides them and nothing depends on when it does.  `Submit` cuts a file of any
size into parts, since the page bounds none: `count` is 0 for an empty file and
`MaxParts + 1` for one of too many parts, and `InitMultipartUpload` (for 0 the
gateway's binding before it) refuses both.  `PutPart` is `uploadPart`, which may
or may not find an ETag in OSS's answer; `etags` counts those it found.
`Complete` takes the course of the path as an input, since a client other than
the page may send any; the prefix check and the check of the ETags decide, and a
refusal leaves the multipart upload open.  `disturbed` is a history variable: the
uploads that a fault of their own has hit, which for a crash are those that
logic-server was working on.  `RecordFails` and `MergeFails` include the
case that the store did its work and the answer was lost.  On the students'
side `Play`, `CheckPurchase` and `Sign` are the three steps of
`GetVideoPlayURL`; `Buy` stands for the order service, which only adds rows.
Not included: a client that completes with fewer parts than it announced, or
completes one upload twice: the server does not compare the parts with those
it signed, so that a row's object has all its parts is the page's doing.

### ErrorCodes and UserService

`ErrorCodes` is the way of a business error from a service to the browser:
`ToGRPCError` puts the code into the details of a gRPC status, `FromGRPCError`
takes it out, `FromGRPCCode` is what is left without details (`Bare`: a deadline,
a recovered panic), `HttpStatus` is what the browser's interceptor acts on.
`UserService` uses it for everything `Register` and `Login` answer (`Seen`).

`UserService` has the calls of one browser: forms (`Submit`), protected requests (`Send`), the steps
of `Register` (`FindExisting`, `Create`) and of `Login`, the middleware
(`Admit`), and the browser's handling of an answer (`Deliver`), which stores a
session after a login and removes it after any code with HTTP status 401.
`issued` records what each token says and which password was given for it (a
history that no part of the program has); `served` records what the middleware
has let through.  Names stand for classes of names under the collation
`utf8mb4_unicode_ci`, which the lookup and the unique index both use.
`Timeout` covers the form requests; the protected routes' own deadlines belong
to the modules of those routes.

### CourseForm

An attempt is one press of the form's button, or one request of a client that
posts the file to the gateway (`posted`).  `Sign` is `GetCoverUploadURL`, `Put`
the PUT to OSS, by the page or by `uploadCoverViaSignedURL`, `Insert` the row of
`CreateCourse`.  `CoverKey` is `GenerateCoverKey`: a millisecond and an
extension (`Stamp`), and nothing that names a course.  `Submit` has the page's
guards: the button is disabled while an attempt is on its way, and the page is
left after a success; after an error the form is still there.  A client that
posts the file itself has no such guard and may send the same form at any time.  `UploadError`
keeps what `bindCreateCourseRequest` does to errors of a posted file: all become
`ErrInvalidParams`.  What `CreateCourse` does to the cache is in
`CourseCatalog`; form and file checks return before any change and are left out.

### Paging and CourseListPage

`Paging` has the way of a page number: the gateway's `int32` conversion
(modulo `2 * Half`, with `Half` = 2^31), `normalizePage`, the OFFSET.

`CourseListPage` is `pages/CourseList` with its requests.  `Turn` is a click on
the pager with the effect that it triggers, `Arrive` and `ArriveFailed` the two
ends of `fetchCourses`, which set the state whichever page they are the answer
for; `Reopen` leaves the page and returns.  Courses are numbered as they are
created; `Orders` has the orders that `ORDER BY created_at DESC` permits, which
are several if courses share a second (`tied`).  The server's `Answer` is any
that `CourseCatalog` lets a reader have: rows as of some moment up to now, a
total counted no later than they were read.  History variables say what was
turned, read and mixed.  Which pages the pager offers is antd's `Pagination`.

### StudentPages

One tab: `hist` and `pos` are its history, `page` is the state of the mounted
component, `header` the session that the header was last rendered with, `store`
the session in `localStorage`, `flight` the requests on their way.

| Code | Action |
|---|---|
| the header (`components/Layout`) | `Home`, `Menu`, `LoginButton`, `HandleLogout` |
| `pages/CourseList`, a card | `OpenCourse` |
| `pages/CourseDetail` | `Fetch` when mounted, `Refetch` when the id changes; `HandleBuy`, `HandlePlay`; `Loaded`, `LoadFails`, `Done`, `SubmitFails` |
| `pages/Player` | the same requests for a play address; `Barred` (no session: to the login page), `Return` |
| `pages/Login`, `pages/Register` | `SubmitLogin`, `LoggedIn`, `SubmitRegister`, `Registered`, `ToRegister`, `ToLogin` |
| `pages/Admin/*` | `Publish`, `Published`, `Upload`, `Progress` |
| the 401 branch of `api/request.ts` | `Unauthorized`: the session is removed and the document loaded anew |
| Back, Forward, reload, another tab | `Jump`, `Reload`, `OtherTab` |

`Go` is the router: a page of the same kind stays mounted with its state and
gets `Refetch`, one of another kind is replaced and leaves its requests behind
(`mine` is FALSE: their answers no longer concern a page, but a login, a
registration or a publication still moves whoever is there).  `Load` is a new
document: all requests are dropped.  `excuse`, `moved` and `elsewhere` are
history variables: why what is shown may not be what the address names, that the
address changed under a mounted page, and what has not been rendered since
another tab changed the session.

Each publication and upload is one request with one answer here; the steps are
in `CourseForm` and `VideoService`, and what the list page loads is in
`CourseListPage`.  A 401 may answer any of their requests but the public ones.
Further abstractions: the effects run once (the production build, without
StrictMode's second run); the assignment of `location.href` and the load are one
step; the browser keeps no page alive behind Back; which course an upload names
is a choice, without the list that the form fetches for it.

### ReportPanels and ReportPage

The report of the load test has 16 panels on three pages, each an `...Infos`
object and a `refresh...` function of `js/graph.js`.  `ReportPanels` says of each
what decides its behaviour: a time axis, a guard against an empty series, an
overview, how lines are drawn, who sets the colours, whether it is drawn with
the page.  `ReportPage` is one panel, of any kind: `ui` is what the code keeps
in the page's elements, and `Refresh`, `CreateGraph`, `CreateLegend`,
`PrepareData`, `Toggled` and the others are the functions of those names on it.
The series' data and the drawing (flot) are left out; ranges of the x axis stand
for those of both.  The panels of a page share nothing.  The specification is
`ReportSpec`, with `ReportInit` and `ReportNext`: `BrowserProofs` takes in this
module beside `CourseForm`, so their names differ.

### MC modules

`MCBreaker`, `MCOrders`, `MCCatalog`, `MCVideo`, `MCUsers`, `MCForm`, `MCList`,
`MCPages` and `MCReport` extend the specification and define the symmetry sets,
the courses of the videos and the order of the series' names.  Operators whose comment starts
with "Mutant:" stand next to the definition they vary; no specification uses
them.  They record, for every property, a change of the code that breaks it.

## 3. What the runs check

| Run | Instance | Properties |
|---|---|---|
| `breaker` | 4 callers, threshold 2 | `HalfOpenHasProbe`, `CountersInStep`, `ClosesWhenRedisIsBack` |
| `orders` | 3 attempts on one pair, threshold 2, 3 faults | `OneOrderPerPair`, `AnswersTruthful`, `LeaseExclusive`, `FaultFree`, `PurchaseSpec` |
| `orders_live` | 2 attempts; a listed pair, one without a course, an invalid one; 2 faults | `EventuallyBought`, `EveryAttemptEnds` |
| `catalog` | 2 readers, 1 creation, 2 keys, threshold 1, 1 fault | `OneLoadPerKey`, `WaitersHaveLeader`, `StaleOnlyIfRaced`, `FreshAsItsLoad` |
| `catalog_live` | the same with 1 key | `EventuallyFresh`, `EveryReaderEnds` |
| `catalog_empty` | the same with 1 key | `EmptyListNotCached`, which is violated |
| `video` | 2 uploads, 1 student, 2 courses, 2 stamps, files of 0 to 3 parts (2 are allowed), 2 faults | `RecordsPlayable`, `OwnContentUnlessCollision`, `PaidForWhatIsPlayed`, `SuccessIsRecorded`, `LeftoversExplained` |
| `users` | 2 calls, 2 names (one the preset administrator's), 2 passwords, 3 tokens, 1 fault | `OneAccountPerName`, `ServedIsEntitled`, `SessionMatchesAccount`, `GoodSessionKept` |
| `form` | 3 attempts, 2 forms, 2 stamps, 2 faults | `CoverIsOwn`, `CopiesCostFaults`, `CoversAccountedFor`, `RefusedMakesNoCourse` |
| `list` | 2 requests, 3 courses, 1 on a page, `Half` = 8, 1 fault | `NothingMissed`, `PagerLostWithReason`, `SpinnerHonest` |
| `pages` | 2 courses with a video each, an administrator or nobody logged in, a history of 3 entries, 2 requests at once | `ShownIsCurrent`, `RenderedSession`, `WaitsForSomething`, `SpinnerEnds` |
| `report` | every kind of panel, up to 3 series whose names are not in the order of the data, an axis of 4 points | `DrawnIsChecked`, `OverviewAgrees`, `ShiftedOnce`, `GreyMeansHidden` |

Every invariant of the table, `PurchaseSpec` and `GoodSessionKept` are theorems,
too (section 4).  So are the types, which the runs do not check again.

What they show:

* The lock is an optimisation.  `OneOrderPerPair` holds in every state in which
  it fails, because the unique index decides; what the lock does guarantee is
  `LeaseExclusive`.  Every way in which a buyer can be told less than the truth
  (an internal error for an order that exists) needs a fault: `FaultFree`.
* A stale page is cached only through the race in `raced`, or a fault, and the
  TTL ends it (`EventuallyFresh`).  The race itself is real: with `~raced`
  dropped from `StaleOnlyIfRaced`, TLC finds it without any fault.
* What an upload leaves behind is explained by its own history, whatever happens
  to others at the same time (`LeftoversExplained`).  An object without a row
  needs a fault of its own.  An error does not: a file that is empty or too large
  is refused before OSS has heard of it, and a part whose ETag the page cannot
  read (OSS does not expose the header) ends in "invalid params" with the whole
  file in OSS and the multipart upload open.  Nothing removes such leftovers: no
  property says that they go away, because they do not.
* Two uploads that share course, millisecond and file name overwrite one
  another (`OwnContentUnlessCollision` names exactly this exception).
* A reader that joins a flight may miss a course that was acknowledged before it
  asked, but after the flight's leader did: `FreshAsItsLoad` is what is left, and
  with the reader's own question in place of the leader's TLC refutes it without
  a fault.
* A probe of the breaker that panics takes with it the only thing that could
  close the breaker: `HalfOpenHasProbe` and `ClosesWhenRedisIsBack` name the
  exception (`lost`).  No call between the two methods is known to panic.
* A late 401 for an old token clears the session of a newer login
  (`GoodSessionKept` lists it among the ways a good session ends).
* Courses may come double: `CreateCourse` has no idempotency, so every timeout
  or lost answer that the administrator answers by another press may cost a
  copy, and nothing else that the page does (`CopiesCostFaults`).  Only an
  internal error leaves it open whether the course is there or will be: who was
  told that the upload failed, or that the parameters were wrong, has made none
  and may press again (`RefusedMakesNoCourse`).
* A cover that no course names was uploaded last by somebody who was shown an
  error, never by one who was told of a success or whose request is still to come
  (`CoversAccountedFor`); nothing removes it.
* Covers of two courses made in one millisecond with one extension are one
  object, and the later PUT wins; `CoverIsOwn` names exactly this exception.
* Turning every page shows every course, though courses are created meanwhile
  (`NothingMissed`), with two exceptions that the property names: answers of
  mixed age (a stale cached page, a total older than its rows) and courses of
  one second, which have no fixed order.
* A failed request hides the pager (`PagerLostWithReason`), and an answer that
  comes late, after a page was turned while another was loading, leaves the
  courses of one page under the number of another (`SpinnerHonest` holds only
  as long as this does not happen).  The spinner covers the pager, so it takes
  the keyboard to do it.
* The detail page and the player may show what their address does not name, and
  the button then buys the course of the address: after a jump between two
  courses the later answer wins, and a failed request leaves the course before
  it on the screen.  `ShownIsCurrent` lists these reasons and allows no other;
  each of them is real, for TLC refutes the property without it.
* A login that is answered after its user went elsewhere still signs in and
  moves to the list; header and forms follow all the same (`RenderedSession`).
  Only another tab leaves an old header standing.
* The report's menu, used before a panel was first expanded, draws the graph
  with times that are never shifted (`ShiftedOnce`), and with hide all draws
  every series under a grey label (`GreyMeansHidden`).  In any other order boxes,
  colours, labels and both graphs agree.

### Finding

`ListCourses` caches an empty list.  The table test of
`logic-server/service/course_service_test.go:147` says that it should not
(`expectCache: false`), but asserts only where `expectCache` is true.
`catalog_empty` shows a reader that loads the empty table and caches the page.

### Bounds, and why they are enough

* `MaxFaults` bounds errors, lost answers, timeouts and crashes together in a
  behaviour.  Three cover the longest story about an order (a timeout, a lost
  answer and a crash); the catalog's hazards need one each.  The theorems hold
  for every `MaxFaults`.
* Three attempts on one pair are what the lease story needs: one whose lease
  expired, one that took the lock, one that asks meanwhile.  Pairs share only
  the breaker, so one pair is enough for safety; `orders_live` has the other
  two kinds of pair.
* A threshold of 2 (the code's is larger) gives both a failure that only counts
  and one that trips; 1 in the catalog makes one fault trip it.
* `db` is bounded by the creations: a creation runs once.  Readers run again
  and again.
* Two stamps and two courses give the uploads equal and different keys; at most
  two parts (the code's bound is 1000) a partial upload, one with an ETag missing
  at either place, and files below and above what is allowed.
* Three tokens with two calls always leave one to issue while a session and a
  call hold others.
* Three attempts are an attempt, its retry, and one on another form whose key
  may be made in the same millisecond.
* `Half` = 8 is wide enough for all pages of the instance and narrow enough for
  TLC; that wider numbers wrap to nothing bad is a theorem
  (`QueriesAreInRange`).  With one course on a page three courses make three
  pages; two requests can overtake one another.  Larger pages are covered by the
  theorems, too.
* Two courses with a video each are what a jump under a mounted page needs, two
  requests what it takes for one to overtake the other, three entries two detail
  pages with the list between them; the first falls off the end when more are
  pushed.  Two players in one history have the list and a detail page between
  them: the last clause of `ShownIsCurrent`, an error that a player keeps, needs
  a fourth entry.  The instance with `MaxHistory = 4` (1.2 million states) holds
  too but takes too long to be a run; the theorem covers any history.  The one
  account is an administrator's, who can do all that a student can; sessions of
  several accounts are left to the theorems.
  `OpenCourse`, `HandlePlay`, `Jump` and the buttons wait for a free request
  (`Room`): it bounds what is under way at once, and the theorems hold for any
  bound.  Answers need none, for the pages they move to send nothing.
* Three series are enough for a hidden one between two others; their names are
  sorted in another order than the data, so that places can be confused.
* Symmetry is used only where no property is a liveness property.

Deadlock is checked in every run but `form`, whose attempts are used up: it ends
when all are done.

### Fairness, and why the code justifies it

* `WF` of a handler's own steps: goroutines are scheduled, go-redis has socket
  timeouts, MySQL and OSS calls return.  In `RedisCircuitBreaker` it is also
  assumed that requests keep coming, since a breaker only moves when used.
* `WF(Expire)`: keys have a TTL.  `WF(CoolDown)`: time passes.
* `WF(TryAgain)` and `SF(Accept)` for listed pairs: the user keeps trying, and
  among the courses tried each comes up again and again.  This is an
  assumption about users, and only `EventuallyBought` needs it.
* `WF(Answer(n))` in `StudentPages`, for every request but a publication and an
  upload: axios gives a request of `api/request.ts` up after 30 s (line 6), so
  each has an answer or a failure.  A publication and an upload PUT their file by
  a bare `axios.put` without a timeout, so they may stay on their way for ever.
  Nothing is assumed of the user; `SpinnerEnds` allows a spinner for ever only to who keeps
  replacing pages while they load.
* No fairness of faults, timeouts, crashes, creations or of asking for a list.
* `VideoService`, `UserService`, `CourseForm`, `CourseListPage` and `ReportPage`
  state no fairness: an upload whose page is closed stays where it is.

## 4. What is proved

All proofs are in the `...Proofs` modules, for all values of the constants under
the `ASSUME`s of the modules: non-empty sets, numbers that are naturals, page
sizes below the width of the page number, fewer courses than it can count, series
with names that differ, and a `None` (or `Nothing`) that is none of the values it
stands beside (`NoTokenAssumption`: neither a token nor a session;
`NothingAssumption`: neither a drawing nor a range).  All the invariants named
here as strengthenings were checked by TLC on the runs' instances before they
were proved.  Together the theorems state every safety property of the runs.

The breaker of `RedisBreaker` is part of three specifications; each of their proof
modules has its own lemma `BreakerType`, that its methods return a breaker.
`BrowserProofs` has the proofs of two components, `CourseForm` and `ReportPage`,
which share no state: each theorem names the specification of one of them.

| Theorem | Says | Argument |
|---|---|---|
| `RedisCircuitBreakerProofs`: `TypeCorrect`, `NeverHalfOpenForNothing`, `CountersStayInStep` | `[]TypeOK` and the two invariants of run `breaker` | inductive invariant `Inv`: type, `Sound(breaker)` (probe, cooling and count agree with the state; preserved by every method, lemma `BreakerSound`), the gauge, and `ProbeOut`.  `ProbeOut` is the strengthening: a half-open breaker has a caller let through as a probe that has not reported; its report, or any other, takes the breaker out of half open; if it panics, `lost` holds until a report comes |
| `OrderServiceProofs`: `TypeCorrect` | `[]TypeOK` | per action |
| `NeverTwice` | `[]OneOrderPerPair` | inductive as it stands, through the guard of the unique index |
| `ToldTheTruth` | `[]AnswersTruthful` | `AnswerInv`: an idle attempt has been told nothing and has decided nothing (`IdleIsFresh`, or `Accept` would change what an old answer is about), and what a handler has decided is true before it is delivered (`DecisionsTruthful`); rows never go away, so truth persists |
| `LeaseIsExclusive` | `[]LeaseExclusive` | `LeaseInv`: a key names an attempt on its own pair that is not idle, `lockAcquired` is false until SetNX has answered, and the lease is held from the moment Redis sets the key, before the handler knows |
| `FaultFreeHolds` | `[]FaultFree` | `CalmInv`, of the time before the first fault: the breaker is new, no answer is an error and no deadline has passed (`Undisturbed`); the attempt that a lock names is one that has yet to come by its release (`LocksAttended`, which `FaultFree` does not say of a handler whose `lockAcquired` is false); who wrote a row has it in its answer until it is delivered (`RowsAcknowledged`) |
| `ImplementsPurchase` | `Spec => PurchaseSpec` | `RefInv`: types, `OneOrderPerPair` (so that `OwnerOf` is determined), `AnswerInv`, and `PathInv` (a handler past its decision has one, one past GetCourse asks for a listed pair, a finished one has told its client); `Insert` maps to `Buy`, `Deliver` to `Answer`, `Timeout` to `GiveUp`, `Crash` to `Collapse`, `TryAgain` to `Renew`, the rest stutters |
| `CourseCatalogProofs`: `TypeCorrect`, `OneQueryAtATime`, `NobodyWaitsInVain` | `[]TypeOK`, `[]OneLoadPerKey`, `[]WaitersHaveLeader` | `FlightInv`: the reader in a flight is its key's leader, a leader is in flight on its key, a waiting reader's key has a leader |
| `OnlyRacesLeaveStale`, `FreshAsAsked` | `[]StaleOnlyIfRaced`, `[]FreshAsItsLoad` | `CalmInv`, of the time before a race or a fault: a cached page lacks no more courses than there are creators that have inserted and not come by its key yet (`CachedInv`, a count: what `StaleOnlyIfRaced` says is the case of none, and it does not survive an insertion by itself); what is about to be cached is the table as it is; who joined a flight has its leader's `since` (`WaitInv`), and no page that a reader will return lacks what was acknowledged by then (`ReaderInv`) |
| `VideoServiceProofs`: `TypeCorrect`, `OnlyBuyersWatch` | `[]TypeOK`, `[]PaidForWhatIsPlayed` | `UploadInv` (past the check the path is the key's course, past the merge the object is there), `StoreInv` (an object lies under its sender's key, a row is of its key's course and has an object), `WatchInv` (what `GetVideoPlayURL` has found out stays true: rows and orders are never deleted) |
| `RowsArePlayable`, `ToldIsRecorded`, `OwnContent` | `[]RecordsPlayable`, `[]SuccessIsRecorded`, `[]OwnContentUnlessCollision` | `WholeInv` beside the former: who merges has sent all parts its file was cut into, and who has an object is past its submission, where their number is fixed, so every object is whole; a row bears its writer's key; success is told at the end only, after which the path no longer changes |
| `LeftoversAreExplained` | `[]LeftoversExplained` | `CleanInv`: for every upload that no fault has hit, what OSS has of it at each step (`Clean`); another upload's step or fault leaves it so (`OthersClean`).  `SizeInv` beside it: what is on its way has an accepted size, and no more ETags than parts, so a missing one means fewer than the file has |
| `UserServiceProofs`: `CodesSurvive` | an error comes out of `FromGRPCError` as it went into `ToGRPCError`, and without the details it still has its HTTP status | by cases |
| `TypeCorrect`, `NamesAreUnique`, `OnlyTheEntitledAreServed`, `SessionIsTheAccounts` | `[]TypeOK` and the three invariants of run `users` | `UserInv`: an idle call has been told nothing (`CallInv`, or `Submit` would change what an old answer is about), answers on their way are as true as those told, the claims of a live token, and of one that is on its way to a login, are those of a row (`TokenInv`); rows never go away, and a token is issued anew only where nobody holds it |
| `GoodSessionsLast` | `Spec => GoodSessionKept` | `RefusalInv` beside `UserInv`: an answer 20002 is a login's, an answer 10002 refuses a token that is dead, and such a token is not issued again while a call carries it; so a session with a live token is never ended by its own refusal |
| `CourseListPageProofs`: `QueriesAreInRange` | every integer a client sends becomes a page from 1 on, a size within its limits and an OFFSET that is not negative | `Narrow`: the conversion is into `-Half .. Half - 1`, and the identity there |
| `TypeCorrect`, `SpinnerIsHonest`, `PagerStays`, `ReadingMissesNothing` | `[]TypeOK` and the three invariants of run `list` | `ListInv`: what an answer for page p holds (`GoodAnswer`, from lemma `SliceGood`), that every page asked for begins with a course of the newest answer (`PagerGoesBy`, which keeps page numbers from wrapping: `AskedFits`), one request at a time unless `overlapped`, and that what the walk has seen is a final part of the list (`WalkedSoFar`); the products come from `PagesCover` |
| `StudentPagesProofs`: `TypeCorrect`, `ShowsWhatIsNamed`, `RendersTheSession`, `NeverWaitsForNothing` | `[]TypeOK` and the three invariants of run `pages` | `Inv`: types, a history within its bound, `RenderedSession`, and `Good(page, flight, Here)`, which says of a page, the requests and the location together that a request of the page is one its kind sends (`Own`), that who waits has a request (`Waits`), that a button has one (`AskedOnce`), and that what is shown is explained (`Explained`).  `Good` holds of a fresh page with its request (`FreshGood`), survives a jump under the page (`MovedGood`), a press of its button (`SubmitGood`) and every answer (`AnsweredGood`, `ReleasedGood`, and `OthersAnswerGood` for those of pages that are gone); `GoInv` and `LoadInv` then do all of navigation |
| `BrowserProofs`: `TypeCorrect`, `CoversAreOwn` | `[]TypeOK` of `CourseForm`, `[]CoverIsOwn` | `KeysInv` (who has a key made it itself, and an object was uploaded by an attempt that had its key) and `RowsInv` (a row is its attempt's, which is over) |
| `CopiesArePaidFor` | `[]CopiesCostFaults` | `CostInv`: of the page's attempts on one form at most one is open, which means on its way or told of a success, and the others that were made number no more than the faults; so a crash, which ends many attempts at once, ends one of each form.  Rows are counted by their attempts |
| `CoversHaveRows`, `RefusalsAreFinal` | `[]CoversAccountedFor`, `[]RefusedMakesNoCourse` | `AnswersInv`: an attempt with its PUT before it has been told nothing, one with its insertion before it at most of an internal error, and one that was refused has no row; with it `OrphansInv`: who has an object is inserting, or is over with a course or an error (`Accounted`) |
| `ReportTypeCorrect`, `BoxesAreCurves`, `GraphsAgree`, `TimesShiftOnce`, `LabelsTell` | `[]ReportTypeOK` and the four invariants of run `report` | `PageInv`: a panel that is not drawn has nothing listed, shifted or selected, and if it can be drawn the menu has not been used (the history variables would lie otherwise); one that is drawn agrees with its list (`Drawn`), and its shift is the one of the first drawing.  `FirstDrawn` is the first drawing, which copies the colours by place (`OwnPlace`: names differ, so places do), `Redrawn` every later one |

### Only model-checked

* Liveness: `ClosesWhenRedisIsBack`, `EventuallyBought`, `EveryAttemptEnds`,
  `EventuallyFresh`, `EveryReaderEnds`, `SpinnerEnds`.  Liveness under fairness is out of the
  prover's reach.
* The violation of `EmptyListNotCached`, which is a counterexample and needs no
  proof.

## 5. What is not modelled, and why

* `GetCourse` of logic-server: it reads only, and its errors are those of
  `GetCourse` in `OrderService`; to `StudentPages` it is an answer or a failure.
* Rate limiter: a bucket of `x/time/rate` with 10000 tokens; no bounded model
  fills it.
* Start-up and shutdown: waiting for MySQL and reading configuration is I/O.
  Their effect on the services is modelled: `cacheEnabled` is any value in
  `Init`, and a crash with restart is an action.
* Panics elsewhere than at the breaker: the recovery interceptors turn them into
  errors, which the models have anyway.
* Of the report: exporting a picture, the formatting of numbers and durations,
  the filters and axis limits that the generated pages leave unset, the empty
  page of custom graphs, and the summary (`dashboard.js`), which fills its tables
  once.  `curvedLines.js`, `hashtable.js`, `jquery.cookie.js` and the rest beside
  them are libraries.
* Logging, metrics other than the gauge, traces, generated protobuf code, load
  tests, API documentation.

## 6. Plan

Done, in order of importance: orders with the breaker and the refinement of
the purchase; the course list; videos; accounts and sessions; the course form
and the list page; the pages of a tab with their router and session; the report's
panels; the proofs above.

Next, the model: start-up and shutdown, what a graceful stop lets finish and
what it cuts off.

Next, the proofs: steps that no property of a run states yet, such as that rows,
orders and videos are never taken away (the proofs above use it action by action),
and an abstract specification of the upload beside `Purchase`.
