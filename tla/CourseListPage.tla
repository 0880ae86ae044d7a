---------------------------- MODULE CourseListPage ----------------------------
(***************************************************************************)
(* The page that shows the course list (pages/CourseList): a pager, one    *)
(* request per turn of a page, and answers that may arrive in any order.   *)
(* Meanwhile courses are created, and since the list is ordered by         *)
(* created_at DESC they push the others towards later pages.               *)
(*                                                                         *)
(* Courses are numbered as they are created, so n says which courses there *)
(* were at some moment.  What the server answers is what CourseCatalog     *)
(* lets a reader have: the rows as of some n, not later than now, and a    *)
(* total counted no later than the rows were read.                         *)
(***************************************************************************)
EXTENDS Paging

CONSTANTS
  Request,     \* requests that may be on their way at once
  Size,        \* courses on a page: 12
  MaxCourses,  \* bound on the courses that are created
  MaxFaults    \* bound on failed requests

ASSUME SizeAssumption == Size \in 1 .. MaxSize
ASSUME MaxCoursesAssumption == MaxCourses \in Nat /\ MaxCourses < Half
ASSUME ListMaxFaults == MaxFaults \in Nat

VARIABLES
  db,         \* number of courses in the table
  tied,       \* those created in the same second as the one before
  page,       \* the pager's page
  shown,      \* the courses on the screen
  total,      \* the total the pager goes by
  loading,    \* the spinner
  asked,      \* request -> the page it asks for, 0: not on its way
  answer,     \* request -> its answer, once the server has given it
  shownFor,   \* history: the page of the request that was answered last
  overlapped, \* history: a page was turned while another was loading
  newest,     \* history: how new an answer has been shown, until mixed
  mixed,      \* history: an answer was older than one before, or older in its
              \* total than in its rows
  walk,       \* history: the pages read in order from page 1 on, until mixed
  faults      \* number of failed requests so far

vars == <<db, tied, page, shown, total, loading, asked, answer, shownFor,
          overlapped, newest, mixed, walk, faults>>

None == [kind |-> "none"]
Failed == [kind |-> "failed"]
Found(n, rows, t) == [kind |-> "found", of |-> n, rows |-> rows, total |-> t]

NoWalk == [upto |-> 0, base |-> 0, seen |-> {}]

\* useState(1).
FirstPage == 1

Init ==
  /\ db \in 0 .. MaxCourses
  /\ tied = {}
  /\ page = FirstPage
  /\ shown = {}
  /\ total = 0
  /\ loading = TRUE
  /\ \E r \in Request :
       asked = [q \in Request |-> IF q = r THEN FirstPage ELSE 0]
  /\ answer = [r \in Request |-> None]
  /\ shownFor = 0
  /\ overlapped = FALSE
  /\ newest = 0
  /\ mixed = FALSE
  /\ walk = NoWalk
  /\ faults = 0

-----------------------------------------------------------------------------
(* The server.                                                             *)

Create ==
  /\ db < MaxCourses
  /\ db' = db + 1
  /\ tied' \in {tied, tied \union {db + 1}}
  /\ UNCHANGED <<page, shown, total, loading, asked, answer, shownFor,
                 overlapped, newest, mixed, walk, faults>>

SameSecond(c, d) == \A e \in 1 .. MaxCourses :
  (c < e /\ e <= d) \/ (d < e /\ e <= c) => e \in tied

\* ORDER BY created_at DESC puts the newest first; courses of one second come
\* in an order that may differ from query to query.
Orders(n) ==
  IF tied = {} THEN {[i \in 1 .. n |-> n + 1 - i]}
  ELSE {s \in [1 .. n -> 1 .. n] :
          \A i, j \in 1 .. n :
            i < j => s[i] # s[j] /\ (s[i] > s[j] \/ SameSecond(s[i], s[j]))}

\* Mutant: the query has no OFFSET.
SliceWithoutOffset(s, n, p) == {s[i] : i \in {i \in 1 .. n : i <= ServedSize(Size)}}

\* OFFSET and LIMIT.
Slice(s, n, p) ==
  LET skip == Offset(p, Size)
  IN  {s[i] : i \in {i \in 1 .. n : skip < i /\ i <= skip + ServedSize(Size)}}

Answer(r) ==
  /\ asked[r] # 0 /\ answer[r] = None
  /\ \/ \E n \in 0 .. db :
          \E t \in 0 .. n, s \in Orders(n) :
            answer' = [answer EXCEPT ![r] = Found(n, Slice(s, n, asked[r]), t)]
        /\ UNCHANGED faults
     \/ /\ faults < MaxFaults
        /\ faults' = faults + 1
        /\ answer' = [answer EXCEPT ![r] = Failed]
  /\ UNCHANGED <<db, tied, page, shown, total, loading, asked, shownFor,
                 overlapped, newest, mixed, walk>>

-----------------------------------------------------------------------------
(* The page.                                                               *)

Pages(t) == (t + Size - 1) \div Size

\* Without courses the page shows that there are none, and no pager.
PagerShown == shown # {} \/ loading

Ask(r, p) == asked' = [asked EXCEPT ![r] = p]

\* The pager offers the pages that the total makes, and asks for nothing if its
\* page is clicked again.
Turn(r, p) ==
  /\ PagerShown
  /\ asked[r] = 0
  /\ p \in 1 .. Pages(total) /\ p # page
  /\ page' = p
  /\ Ask(r, p)
  /\ overlapped' = (overlapped \/ loading)
  /\ loading' = TRUE
  /\ UNCHANGED <<db, tied, shown, total, answer, shownFor, newest, mixed, walk,
                 faults>>

\* The walk goes on with the page after the last one it has read.
Step(p, a) ==
  IF p = 1 THEN [upto |-> 1, base |-> a.of, seen |-> a.rows]
  ELSE IF p = walk.upto + 1
  THEN [walk EXCEPT !.upto = p, !.seen = @ \union a.rows]
  ELSE walk

\* setCourses, setTotal, setLoading(false), whichever request it answers.
Arrive(r) ==
  LET a == answer[r]
  IN  /\ a # None /\ a # Failed
      /\ shown' = a.rows
      /\ total' = a.total
      /\ loading' = FALSE
      /\ asked' = [asked EXCEPT ![r] = 0]
      /\ answer' = [answer EXCEPT ![r] = None]
      /\ shownFor' = asked[r]
      /\ mixed' = (mixed \/ a.of < newest \/ a.total # a.of)
      /\ newest' = IF mixed' THEN 0 ELSE a.of
      /\ walk' = IF mixed' THEN NoWalk ELSE Step(asked[r], a)
      /\ UNCHANGED <<db, tied, page, overlapped, faults>>

\* Mutant: the spinner is stopped by answers only.
ArriveFailedSpinning(r) ==
  /\ answer[r] = Failed
  /\ shown' = {}
  /\ asked' = [asked EXCEPT ![r] = 0]
  /\ answer' = [answer EXCEPT ![r] = None]
  /\ shownFor' = asked[r]
  /\ UNCHANGED <<db, tied, page, total, loading, overlapped, newest, mixed,
                 walk, faults>>

\* The courses go, the total stays.
ArriveFailed(r) ==
  /\ answer[r] = Failed
  /\ shown' = {}
  /\ loading' = FALSE
  /\ asked' = [asked EXCEPT ![r] = 0]
  /\ answer' = [answer EXCEPT ![r] = None]
  /\ shownFor' = asked[r]
  /\ UNCHANGED <<db, tied, page, total, overlapped, newest, mixed, walk,
                 faults>>

\* The user leaves the page and comes back: a new component asks for page 1,
\* what is still on its way goes to the old one.
Reopen(r) ==
  /\ page' = FirstPage
  /\ shown' = {}
  /\ total' = 0
  /\ loading' = TRUE
  /\ asked' = [q \in Request |-> IF q = r THEN FirstPage ELSE 0]
  /\ answer' = [q \in Request |-> None]
  /\ shownFor' = 0
  /\ overlapped' = FALSE
  /\ newest' = 0
  /\ mixed' = FALSE
  /\ walk' = NoWalk
  /\ UNCHANGED <<db, tied, faults>>

Next ==
  \/ Create
  \/ \E r \in Request :
       \/ Answer(r) \/ Arrive(r) \/ ArriveFailed(r) \/ Reopen(r)
       \/ \E p \in 1 .. Pages(total) : Turn(r, p)

Spec == Init /\ [][Next]_vars

-----------------------------------------------------------------------------
Courses == 1 .. MaxCourses

Answers ==
  {None, Failed} \union
  [kind : {"found"}, of : Nat, rows : SUBSET Courses, total : Nat]

\* The variables have their types.
TypeOK ==
  /\ db \in 0 .. MaxCourses
  /\ tied \subseteq Courses
  /\ page \in Nat \ {0}
  /\ shown \subseteq Courses
  /\ total \in 0 .. MaxCourses
  /\ loading \in BOOLEAN
  /\ asked \in [Request -> Nat]
  /\ answer \in [Request -> Answers]
  /\ shownFor \in Nat
  /\ overlapped \in BOOLEAN
  /\ newest \in 0 .. MaxCourses
  /\ mixed \in BOOLEAN
  /\ walk \in [upto : Nat, base : 0 .. MaxCourses, seen : SUBSET Courses]
  /\ faults \in 0 .. MaxFaults

\* Who reads the list from page 1 to the last one the pager offers misses none
\* of the courses there were at the beginning, however many are created while
\* reading, unless the answers are of mixed age (a stale cached page, a total
\* older than its rows) or two courses were created in the same second.
NothingMissed ==
  ~mixed /\ tied = {} /\ walk.upto > 0 /\ walk.upto >= Pages(total)
    => 1 .. walk.base \subseteq walk.seen

\* The pager is lost, and with it every way to another page, only where a
\* request failed, where the answers are of mixed age, or where there are no
\* courses at all.
PagerLostWithReason ==
  ~PagerShown => faults > 0 \/ mixed \/ newest = 0

\* As long as nobody turns a page while another is loading, the spinner turns
\* exactly while a request is on its way, and what is shown belongs to the
\* page that the pager shows.
SpinnerHonest ==
  ~overlapped =>
    /\ loading <=> \E r \in Request : asked[r] # 0
    /\ ~loading => shownFor = page
=============================================================================
