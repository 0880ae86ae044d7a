------------------------- MODULE CourseListPageProofs -------------------------
(***************************************************************************)
(* Proofs about Paging and CourseListPage, for every width of the number,  *)
(* every size of a page, every set of requests, and every number of        *)
(* courses and faults.                                                     *)
(***************************************************************************)
EXTENDS CourseListPage, TLAPS

-----------------------------------------------------------------------------
(* Paging. *)

LEMMA Narrow ==
  ASSUME NEW x \in Int
  PROVE  /\ Int32(x) \in -Half .. Half - 1
         /\ x \in -Half .. Half - 1 => Int32(x) = x
<1>1. 2 * Half \in Nat /\ 2 * Half > 0 /\ x + Half \in Int
  BY PagingAssumption
<1> DEFINE m == 2 * Half
           y == x + Half
<1>2. y % m \in 0 .. m - 1
  BY <1>1
<1>3. y \in 0 .. m - 1 => y % m = y
  BY <1>1
<1> QED
  BY <1>1, <1>2, <1>3, PagingAssumption DEF Int32

\* Whatever numbers a client puts into the query string, wrapped around or not,
\* the query has a page from 1 on, a size within its limits and an OFFSET that
\* is not negative; and a page or a size within the limits is served as it is.
THEOREM QueriesAreInRange ==
  ASSUME NEW q \in Int, NEW s \in Int
  PROVE  /\ ServedPage(q) \in 1 .. Half
         /\ ServedSize(s) \in 1 .. MaxSize
         /\ Offset(q, s) \in Nat
         /\ q \in 1 .. Half - 1 => ServedPage(q) = q
         /\ s \in 1 .. Half - 1 /\ s <= MaxSize => ServedSize(s) = s
<1>1. /\ ServedPage(q) \in 1 .. Half
      /\ q \in 1 .. Half - 1 => ServedPage(q) = q
  BY Narrow, PagingAssumption DEF ServedPage, NormalPage
<1>2. /\ ServedSize(s) \in 1 .. MaxSize
      /\ s \in 1 .. Half - 1 /\ s <= MaxSize => ServedSize(s) = s
  BY Narrow, PagingAssumption DEF ServedSize, NormalSize
<1>3. \A a, b \in Nat : a * b \in Nat
  OBVIOUS
<1>4. Offset(q, s) \in Nat
  <2>1. ServedPage(q) - 1 \in Nat /\ ServedSize(s) \in Nat
    BY <1>1, <1>2, PagingAssumption
  <2> QED
    BY <2>1, <1>3 DEF Offset
<1> QED
  BY <1>1, <1>2, <1>4

\* A request for a page of the usual size reads the rows of that page.
LEMMA PageSlice ==
  ASSUME NEW p \in 1 .. Half - 1
  PROVE  /\ ServedSize(Size) = Size
         /\ Offset(p, Size) = (p - 1) * Size
<1>1. Size \in 1 .. MaxSize
  BY SizeAssumption
<1>2. ServedSize(Size) = Size /\ ServedPage(p) = p
  BY <1>1, QueriesAreInRange, PagingAssumption
<1> QED
  BY <1>2 DEF Offset

-----------------------------------------------------------------------------
(* The pager. *)

\* The last page of t courses ends with the last course or after it, and every
\* page from the first to the last one begins with a course.
LEMMA PagesCover ==
  ASSUME NEW t \in Nat
  PROVE  /\ Pages(t) \in Nat
         /\ t <= Pages(t) * Size
         /\ \A p \in 1 .. Pages(t) : (p - 1) * Size < t
<1>1. Size \in Nat /\ Size > 0
  BY SizeAssumption, PagingAssumption
<1> DEFINE d == (t + Size - 1) \div Size
<1>2. /\ d \in Nat
      /\ d * Size <= t + Size - 1
      /\ t + Size - 1 < d * Size + Size
  BY <1>1
<1> HIDE DEF d
<1>3. \A p \in 1 .. d : (p - 1) * Size < t
  <2> TAKE p \in 1 .. d
  <2>1. p * Size <= d * Size
    BY <1>1, <1>2
  <2>2. (p - 1) * Size = p * Size - Size
    BY <1>1, <1>2
  <2>3. p * Size \in Nat /\ d * Size \in Nat
    BY <1>1, <1>2
  <2> QED
    BY <1>1, <1>2, <2>1, <2>2, <2>3
<1>4. d = Pages(t)
  BY DEF d, Pages
<1>5. t <= d * Size
  <2>1. d * Size \in Nat
    BY <1>1, <1>2
  <2> QED
    BY <1>1, <1>2, <2>1
<1> QED
  BY <1>2, <1>3, <1>4, <1>5

-----------------------------------------------------------------------------
(* The answers. *)

\* What is known of an answer for page p: it is not newer than the table, not
\* empty if the page begins with a course, and if no two courses share a
\* second, it has the courses whose turn it is.
GoodAnswer(a, p) ==
  /\ a.of \in 0 .. db
  /\ a.total \in 0 .. a.of
  /\ a.rows \subseteq 1 .. a.of
  /\ p \in 1 .. Half - 1 =>
       /\ (p - 1) * Size < a.of => a.rows # {}
       /\ tied = {} =>
            \A c \in 1 .. a.of :
              a.of - p * Size < c /\ c <= a.of - (p - 1) * Size => c \in a.rows

LEMMA SliceGood ==
  ASSUME db \in Nat, NEW n \in 0 .. db, NEW t \in 0 .. n, NEW s \in Orders(n),
         NEW p \in Nat
  PROVE  GoodAnswer(Found(n, Slice(s, n, p), t), p)
<1>1. s \in [1 .. n -> 1 .. n]
  <2>1. CASE tied = {}
    <3>1. s = [i \in 1 .. n |-> n + 1 - i]
      BY <2>1 DEF Orders
    <3> QED
      BY <3>1
  <2>2. CASE tied # {}
    BY <2>2 DEF Orders
  <2> QED
    BY <2>1, <2>2
<1>2. Slice(s, n, p) \subseteq 1 .. n
  BY <1>1 DEF Slice
<1>3. ASSUME p \in 1 .. Half - 1
      PROVE  /\ (p - 1) * Size < n => Slice(s, n, p) # {}
             /\ tied = {} =>
                  \A c \in 1 .. n :
                    n - p * Size < c /\ c <= n - (p - 1) * Size
                      => c \in Slice(s, n, p)
  <2> DEFINE skip == (p - 1) * Size
  <2>1. skip \in Nat /\ p * Size = skip + Size /\ Size \in Nat /\ Size > 0
    BY <1>3, SizeAssumption, PagingAssumption
  <2>2. \A i \in 1 .. n : skip < i /\ i <= skip + Size => s[i] \in Slice(s, n, p)
    BY <1>3, PageSlice DEF Slice
  <2> HIDE DEF skip
  <2>3. skip < n => Slice(s, n, p) # {}
    <3>1. skip < n => skip + 1 \in 1 .. n
      BY <2>1
    <3> QED
      BY <2>1, <2>2, <3>1
  <2>4. ASSUME tied = {}, NEW c \in 1 .. n, n - (skip + Size) < c, c <= n - skip
        PROVE  c \in Slice(s, n, p)
    <3>1. n + 1 - c \in 1 .. n /\ skip < n + 1 - c /\ n + 1 - c <= skip + Size
      BY <2>1, <2>4
    <3>2. s[n + 1 - c] = c
      BY <2>4, <3>1 DEF Orders
    <3> QED
      BY <2>2, <3>1, <3>2
  <2>5. tied = {} =>
          \A c \in 1 .. n :
            n - p * Size < c /\ c <= n - skip => c \in Slice(s, n, p)
    BY <2>1, <2>4
  <2> QED
    BY <2>3, <2>5 DEF skip
<1> QED
  BY <1>2, <1>3 DEF GoodAnswer, Found

-----------------------------------------------------------------------------
(* The inductive invariant. *)

AnswersGood ==
  \A r \in Request :
    answer[r] # None =>
      /\ asked[r] # 0
      /\ answer[r] = Failed => faults > 0
      /\ answer[r] # Failed => GoodAnswer(answer[r], asked[r])

\* While the answers are of one age and grow only newer, the total is that of
\* the newest one, and what is asked for are pages that begin with a course.
PagerGoesBy ==
  /\ newest <= db
  /\ ~mixed =>
       /\ total = newest
       /\ \A r \in Request :
            asked[r] \in {0, 1} \/ (asked[r] - 1) * Size < newest

OneAtATime ==
  ~overlapped =>
    \A r \in Request : asked[r] # 0 =>
      /\ asked[r] = page
      /\ \A q \in Request : asked[q] # 0 => q = r

\* What has been read up to now is a final part of the list, newest first.
WalkedSoFar ==
  ~mixed /\ tied = {} /\ walk.upto > 0 =>
    /\ walk.base <= newest
    /\ \A c \in 1 .. walk.base :
         newest - walk.upto * Size < c => c \in walk.seen

ListInv ==
  /\ TypeOK
  /\ AnswersGood
  /\ PagerGoesBy
  /\ OneAtATime
  /\ SpinnerHonest
  /\ PagerLostWithReason
  /\ WalkedSoFar

LEMMA InitInv == Init => ListInv
<1> SUFFICES ASSUME Init PROVE ListInv
  OBVIOUS
<1> USE DEF Init, FirstPage, NoWalk
<1>1. PICK r \in Request :
        asked = [q \in Request |-> IF q = r THEN 1 ELSE 0]
  OBVIOUS
<1>2. TypeOK
  <2>1. asked \in [Request -> Nat] /\ answer \in [Request -> Answers]
    BY <1>1 DEF Answers
  <2>2. walk \in [upto : Nat, base : 0 .. MaxCourses, seen : SUBSET Courses]
    BY MaxCoursesAssumption
  <2>3. tied \subseteq Courses /\ shown \subseteq Courses
    OBVIOUS
  <2>4. /\ db \in 0 .. MaxCourses /\ total \in 0 .. MaxCourses
        /\ newest \in 0 .. MaxCourses /\ faults \in 0 .. MaxFaults
        /\ page \in Nat \ {0} /\ shownFor \in Nat
    BY MaxCoursesAssumption, ListMaxFaults
  <2>5. loading \in BOOLEAN /\ overlapped \in BOOLEAN /\ mixed \in BOOLEAN
    BY Zenon
  <2> HIDE DEF Init
  <2> QED
    BY <2>1, <2>2, <2>3, <2>4, <2>5 DEF TypeOK
<1>3. AnswersGood /\ PagerGoesBy /\ WalkedSoFar
  BY <1>1 DEF AnswersGood, PagerGoesBy, WalkedSoFar
<1>4. OneAtATime
  BY <1>1 DEF OneAtATime
<1>5. SpinnerHonest /\ PagerLostWithReason
  BY <1>1 DEF SpinnerHonest, PagerLostWithReason, PagerShown
<1> QED
  BY <1>2, <1>3, <1>4, <1>5 DEF ListInv

\* A course more makes no answer worse.
LEMMA StillGood ==
  ASSUME NEW a, NEW p, db \in Nat, db' \in Nat, db <= db', tied' = {} => tied = {},
         GoodAnswer(a, p)
  PROVE  GoodAnswer(a, p)'
BY DEF GoodAnswer

LEMMA CreateInv == ListInv /\ Create => ListInv'
<1> SUFFICES ASSUME ListInv, Create PROVE ListInv'
  OBVIOUS
<1> USE DEF ListInv, Create
<1>1. db \in Nat /\ db' = db + 1 /\ db' \in 0 .. MaxCourses
  BY MaxCoursesAssumption DEF TypeOK
<1>2. tied' \subseteq Courses /\ (tied' = {} => tied = {})
  BY <1>1 DEF TypeOK, Courses
<1>3. TypeOK'
  BY <1>1, <1>2 DEF TypeOK
<1>4. AnswersGood'
  BY <1>1, <1>2, StillGood DEF AnswersGood
<1>5. PagerGoesBy'
  BY <1>1 DEF PagerGoesBy, TypeOK
<1>6. OneAtATime' /\ SpinnerHonest' /\ PagerLostWithReason'
  BY DEF OneAtATime, SpinnerHonest, PagerLostWithReason, PagerShown
<1>7. WalkedSoFar'
  BY <1>2 DEF WalkedSoFar
<1> QED
  BY <1>3, <1>4, <1>5, <1>6, <1>7

LEMMA AnswerInv ==
  ASSUME NEW r \in Request
  PROVE  ListInv /\ Answer(r) => ListInv'
<1> SUFFICES ASSUME ListInv, Answer(r) PROVE ListInv'
  OBVIOUS
<1> USE DEF ListInv
<1>1. /\ asked[r] \in Nat /\ asked[r] # 0 /\ answer[r] = None
      /\ db \in Nat /\ faults \in Nat
      /\ UNCHANGED <<db, tied, page, shown, total, loading, asked, shownFor,
                     overlapped, newest, mixed, walk>>
  BY MaxCoursesAssumption, ListMaxFaults DEF TypeOK, Answer
<1> DEFINE Given(a) ==
        /\ answer' = [answer EXCEPT ![r] = a]
        /\ faults' >= faults /\ faults' \in 0 .. MaxFaults
        /\ a \in Answers /\ a # None
        /\ a = Failed => faults' > 0
        /\ a # Failed => GoodAnswer(a, asked[r])
<1>2. \E a : Given(a)
  <2>1. CASE \E n \in 0 .. db :
               \E t \in 0 .. n, s \in Orders(n) :
                 /\ answer' =
                      [answer EXCEPT ![r] = Found(n, Slice(s, n, asked[r]), t)]
                 /\ UNCHANGED faults
    <3>0. PICK n \in 0 .. db :
            \E t \in 0 .. n, s \in Orders(n) :
              answer' = [answer EXCEPT ![r] = Found(n, Slice(s, n, asked[r]), t)]
      BY <2>1
    <3>1. PICK t \in 0 .. n, s \in Orders(n) :
            answer' = [answer EXCEPT ![r] = Found(n, Slice(s, n, asked[r]), t)]
      BY <3>0
    <3> DEFINE a == Found(n, Slice(s, n, asked[r]), t)
    <3>2. GoodAnswer(a, asked[r])
      BY <1>1, SliceGood
    <3>3. a \in Answers
      <4>1. a.rows \subseteq Courses
        BY <1>1, <3>2, MaxCoursesAssumption
        DEF GoodAnswer, Found, Courses, TypeOK
      <4> QED
        BY <1>1, <4>1 DEF Found, Answers
    <3>4. a # None
      BY DEF Found, None
    <3>5. a # Failed
      BY DEF Found, Failed
    <3>6. faults' = faults /\ faults \in 0 .. MaxFaults
      BY <2>1 DEF TypeOK
    <3>7. answer' = [answer EXCEPT ![r] = a]
      BY <3>1
    <3> HIDE DEF a
    <3>8. Given(a)
      BY <1>1, <3>2, <3>3, <3>4, <3>5, <3>6, <3>7, ListMaxFaults
    <3> HIDE DEF Given
    <3> QED
      BY <3>8
  <2>2. CASE /\ faults < MaxFaults
             /\ faults' = faults + 1
             /\ answer' = [answer EXCEPT ![r] = Failed]
    <3>1. Failed \in Answers /\ Failed # None
      BY DEF Answers, Failed, None
    <3>2. Given(Failed)
      BY <1>1, <2>2, <3>1, ListMaxFaults
    <3> HIDE DEF Given
    <3> QED
      BY <3>2
  <2> QED
    BY <2>1, <2>2 DEF Answer
<1>3. PICK a : Given(a)
  BY <1>2
<1>4. TypeOK'
  BY <1>1, <1>3 DEF TypeOK
<1>5. \A q \in Request : answer'[q] = IF q = r THEN a ELSE answer[q]
  BY <1>3 DEF TypeOK
<1>6. \A b, p : GoodAnswer(b, p)' <=> GoodAnswer(b, p)
  BY <1>1 DEF GoodAnswer
<1>7. AnswersGood'
  BY <1>1, <1>3, <1>5, <1>6, ListMaxFaults DEF AnswersGood, TypeOK
<1>8. PagerGoesBy' /\ OneAtATime' /\ SpinnerHonest' /\ WalkedSoFar'
  BY <1>1 DEF PagerGoesBy, OneAtATime, SpinnerHonest, WalkedSoFar
<1>9. PagerLostWithReason'
  BY <1>1, <1>3 DEF PagerLostWithReason, PagerShown
<1> QED
  BY <1>4, <1>7, <1>8, <1>9

LEMMA TurnInv ==
  ASSUME NEW r \in Request, NEW p \in 1 .. Pages(total)
  PROVE  ListInv /\ Turn(r, p) => ListInv'
<1> SUFFICES ASSUME ListInv, Turn(r, p) PROVE ListInv'
  OBVIOUS
<1> USE DEF ListInv
<1>1. total \in Nat /\ p \in Nat \ {0}
  BY PagesCover, MaxCoursesAssumption DEF TypeOK
<1>2. /\ page' = p
      /\ asked' = [asked EXCEPT ![r] = p]
      /\ asked[r] = 0
      /\ overlapped' = (overlapped \/ loading)
      /\ loading' = TRUE
      /\ UNCHANGED <<db, tied, shown, total, answer, shownFor, newest, mixed,
                     walk, faults>>
  BY DEF Turn, Ask
<1>3. \A q \in Request : asked'[q] = IF q = r THEN p ELSE asked[q]
  BY <1>2 DEF TypeOK
<1>4. TypeOK'
  BY <1>1, <1>2 DEF TypeOK
<1>5. AnswersGood'
  <2>1. \A b, q : GoodAnswer(b, q)' <=> GoodAnswer(b, q)
    BY <1>2 DEF GoodAnswer
  <2>2. answer[r] = None
    BY <1>2 DEF AnswersGood
  <2> QED
    BY <1>1, <1>2, <1>3, <2>1, <2>2 DEF AnswersGood
<1>6. PagerGoesBy'
  <2>1. (p - 1) * Size < total
    BY <1>1, PagesCover
  <2> QED
    BY <1>2, <1>3, <2>1 DEF PagerGoesBy
<1>7. ~overlapped' => \A q \in Request : asked[q] = 0
  BY <1>2 DEF SpinnerHonest
<1>8. OneAtATime'
  BY <1>1, <1>2, <1>3, <1>7 DEF OneAtATime
<1>9. SpinnerHonest'
  BY <1>1, <1>2, <1>3 DEF SpinnerHonest
<1>10. PagerLostWithReason' /\ WalkedSoFar'
  BY <1>2 DEF PagerLostWithReason, PagerShown, WalkedSoFar
<1> QED
  BY <1>4, <1>5, <1>6, <1>8, <1>9, <1>10

\* Nothing is on its way once the answer of the only request has arrived.
LEMMA SpinnerStops ==
  ASSUME ListInv, NEW r \in Request, asked[r] # 0,
         asked' = [asked EXCEPT ![r] = 0], loading' = FALSE,
         shownFor' = asked[r], UNCHANGED <<page, overlapped>>
  PROVE  OneAtATime' /\ SpinnerHonest'
<1> USE DEF ListInv
<1>1. \A q \in Request : asked'[q] = IF q = r THEN 0 ELSE asked[q]
  BY DEF TypeOK
<1>2. ~overlapped => page = asked[r] /\ \A q \in Request : asked'[q] = 0
  BY <1>1 DEF OneAtATime
<1> QED
  BY <1>1, <1>2 DEF OneAtATime, SpinnerHonest

\* The other answers stay as good as they were.
LEMMA OthersGood ==
  ASSUME ListInv, NEW r \in Request,
         asked' = [asked EXCEPT ![r] = 0], answer' = [answer EXCEPT ![r] = None],
         UNCHANGED <<db, tied, faults>>
  PROVE  AnswersGood'
<1>1. \A q \in Request : /\ asked'[q] = IF q = r THEN 0 ELSE asked[q]
                         /\ answer'[q] = IF q = r THEN None ELSE answer[q]
  BY DEF ListInv, TypeOK
<1>2. \A b, q : GoodAnswer(b, q)' <=> GoodAnswer(b, q)
  BY DEF GoodAnswer
<1> QED
  BY <1>1, <1>2 DEF ListInv, AnswersGood

LEMMA ArriveFailedInv ==
  ASSUME NEW r \in Request
  PROVE  ListInv /\ ArriveFailed(r) => ListInv'
<1> SUFFICES ASSUME ListInv, ArriveFailed(r) PROVE ListInv'
  OBVIOUS
<1> USE DEF ListInv, ArriveFailed
<1>1. Failed # None
  BY DEF Failed, None
<1>2. asked[r] # 0 /\ asked[r] \in Nat /\ faults > 0
  BY <1>1 DEF AnswersGood, TypeOK
<1>3. TypeOK'
  <2>1. None \in Answers
    BY DEF Answers
  <2> QED
    BY <1>2, <2>1 DEF TypeOK
<1>4. AnswersGood' /\ OneAtATime' /\ SpinnerHonest'
  BY <1>2, OthersGood, SpinnerStops
<1>5. PagerGoesBy'
  BY DEF PagerGoesBy, TypeOK
<1>6. PagerLostWithReason' /\ WalkedSoFar'
  BY <1>2 DEF PagerLostWithReason, WalkedSoFar
<1> QED
  BY <1>3, <1>4, <1>5, <1>6

LEMMA ReopenInv ==
  ASSUME NEW r \in Request
  PROVE  ListInv /\ Reopen(r) => ListInv'
<1> SUFFICES ASSUME ListInv, Reopen(r) PROVE ListInv'
  OBVIOUS
<1> USE DEF ListInv, Reopen, FirstPage, NoWalk
<1>1. db \in 0 .. MaxCourses /\ faults \in 0 .. MaxFaults /\ tied \subseteq Courses
  BY DEF TypeOK
<1>2. TypeOK'
  <2>1. asked' \in [Request -> Nat] /\ answer' \in [Request -> Answers]
    BY DEF Answers
  <2>2. walk' \in [upto : Nat, base : 0 .. MaxCourses, seen : SUBSET Courses]
    BY MaxCoursesAssumption
  <2>3. /\ total' \in 0 .. MaxCourses /\ newest' \in 0 .. MaxCourses
        /\ page' \in Nat \ {0} /\ shownFor' \in Nat /\ shown' \subseteq Courses
        /\ db' = db /\ faults' = faults /\ tied' = tied
    BY MaxCoursesAssumption
  <2>4. loading' \in BOOLEAN /\ overlapped' \in BOOLEAN /\ mixed' \in BOOLEAN
    BY Zenon
  <2> HIDE DEF Reopen
  <2> QED
    BY <1>1, <2>1, <2>2, <2>3, <2>4 DEF TypeOK
<1>3. AnswersGood' /\ PagerGoesBy' /\ WalkedSoFar'
  BY <1>1, MaxCoursesAssumption DEF AnswersGood, PagerGoesBy, WalkedSoFar
<1>4. OneAtATime'
  BY DEF OneAtATime
<1>5. SpinnerHonest' /\ PagerLostWithReason'
  BY DEF SpinnerHonest, PagerLostWithReason, PagerShown
<1> QED
  BY <1>2, <1>3, <1>4, <1>5

\* A page that may be asked for is not wrapped around on its way.
LEMMA AskedFits ==
  ASSUME NEW p \in Nat, p # 0, NEW n \in 0 .. MaxCourses,
         p = 1 \/ (p - 1) * Size < n
  PROVE  p \in 1 .. Half - 1
<1>1. CASE p = 1
  BY <1>1, PagingAssumption
<1>2. CASE (p - 1) * Size < n
  <2>1. Size \in Nat /\ Size >= 1 /\ p - 1 \in Nat
    BY SizeAssumption, PagingAssumption
  <2>2. p - 1 <= (p - 1) * Size
    BY <2>1
  <2>3. (p - 1) * Size \in Nat
    BY <2>1
  <2> QED
    BY <1>2, <2>1, <2>2, <2>3, MaxCoursesAssumption, PagingAssumption
<1> QED
  BY <1>1, <1>2

LEMMA ArriveInv ==
  ASSUME NEW r \in Request
  PROVE  ListInv /\ Arrive(r) => ListInv'
<1> SUFFICES ASSUME ListInv, Arrive(r) PROVE ListInv'
  OBVIOUS
<1> USE DEF ListInv
<1> DEFINE a == answer[r]
           p == asked[r]
<1>1. /\ a # None /\ a # Failed
      /\ shown' = a.rows /\ total' = a.total /\ loading' = FALSE
      /\ asked' = [asked EXCEPT ![r] = 0]
      /\ answer' = [answer EXCEPT ![r] = None]
      /\ shownFor' = p
      /\ mixed' = (mixed \/ a.of < newest \/ a.total # a.of)
      /\ newest' = IF mixed' THEN 0 ELSE a.of
      /\ walk' = IF mixed' THEN NoWalk ELSE Step(p, a)
      /\ UNCHANGED <<db, tied, page, overlapped, faults>>
  BY DEF Arrive
<1>2. p \in Nat /\ p # 0 /\ GoodAnswer(a, p)
  BY <1>1 DEF AnswersGood, TypeOK
<1> HIDE DEF a
<1>3. /\ a.of \in 0 .. db /\ a.total \in 0 .. a.of /\ a.rows \subseteq 1 .. a.of
      /\ db \in 0 .. MaxCourses
      /\ newest \in 0 .. MaxCourses
      /\ a.of \in 0 .. MaxCourses /\ a.total \in 0 .. MaxCourses
      /\ a.rows \subseteq Courses
  BY <1>2, MaxCoursesAssumption DEF GoodAnswer, TypeOK, Courses
<1>4. AnswersGood' /\ OneAtATime' /\ SpinnerHonest'
  BY <1>1, <1>2, OthersGood, SpinnerStops
<1>5. \A q \in Request : asked'[q] = IF q = r THEN 0 ELSE asked[q]
  BY <1>1 DEF TypeOK
<1>6. mixed' \in BOOLEAN
  BY <1>1, Zenon
<1>7. newest' \in 0 .. MaxCourses /\ newest' <= db
  <2>1. newest' = 0 \/ newest' = a.of
    BY <1>1, Zenon
  <2>2. 0 \in 0 .. MaxCourses /\ 0 <= db /\ a.of <= db
    BY <1>3, MaxCoursesAssumption
  <2> QED
    BY <1>3, <2>1, <2>2
<1>8. CASE mixed'
  <2>1. newest' = 0 /\ walk' = NoWalk
    BY <1>1, <1>8
  <2>2. walk' \in [upto : Nat, base : 0 .. MaxCourses, seen : SUBSET Courses]
    BY <2>1, MaxCoursesAssumption DEF NoWalk
  <2>3. TypeOK'
    <3>1. None \in Answers
      BY DEF Answers
    <3> QED
      BY <1>1, <1>2, <1>3, <1>6, <1>7, <2>2, <3>1 DEF TypeOK
  <2> QED
    BY <1>1, <1>4, <1>7, <1>8, <2>1, <2>3
    DEF PagerGoesBy, PagerLostWithReason, WalkedSoFar
<1>9. CASE ~mixed'
  <2>1. /\ ~mixed /\ newest <= a.of /\ a.total = a.of
        /\ newest' = a.of /\ walk' = Step(p, a)
    <3>1. /\ ~mixed /\ ~(a.of < newest) /\ a.total = a.of
          /\ newest' = a.of /\ walk' = Step(p, a)
      BY <1>1, <1>9, Zenon
    <3>2. newest <= a.of
      BY <1>3, <3>1
    <3> QED
      BY <3>1, <3>2
  <2>2. p = 1 \/ (p - 1) * Size < newest
    BY <1>2, <2>1 DEF PagerGoesBy
  <2>3. p \in 1 .. Half - 1
    BY <1>2, <1>3, <2>2, AskedFits
  <2>4. Size \in Nat /\ Size > 0
    BY SizeAssumption, PagingAssumption
  <2>5. walk \in [upto : Nat, base : 0 .. MaxCourses, seen : SUBSET Courses]
    BY DEF TypeOK
  <2>6. walk' \in [upto : Nat, base : 0 .. MaxCourses, seen : SUBSET Courses]
    BY <1>2, <1>3, <2>1, <2>5 DEF Step
  <2>7. TypeOK'
    <3>1. None \in Answers
      BY DEF Answers
    <3> QED
      BY <1>1, <1>2, <1>3, <1>6, <1>7, <2>6, <3>1 DEF TypeOK
  <2>8. PagerGoesBy'
    <3>1. \A q \in Request :
            asked[q] \in {0, 1} \/ (asked[q] - 1) * Size < newest
      BY <2>1 DEF PagerGoesBy
    <3>2. \A q \in Request : asked[q] \in Nat /\ (asked[q] - 1) * Size \in Int
      BY <2>4 DEF TypeOK
    <3>3. \A q \in Request :
            asked[q] \in {0, 1} \/ (asked[q] - 1) * Size < a.of
      BY <1>3, <2>1, <3>1, <3>2
    <3> QED
      BY <1>1, <1>5, <1>7, <2>1, <3>3 DEF PagerGoesBy
  <2>9. PagerLostWithReason'
    <3>1. CASE p = 1
      <4>1. (p - 1) * Size = 0
        BY <2>4, <3>1
      <4>2. a.rows = {} => a.of = 0
        BY <1>2, <1>3, <2>3, <4>1 DEF GoodAnswer
      <4> QED
        BY <1>1, <2>1, <4>2 DEF PagerLostWithReason, PagerShown
    <3>2. CASE (p - 1) * Size < newest
      <4>1. (p - 1) * Size \in Int
        BY <1>2, <2>4
      <4>2. (p - 1) * Size < a.of
        BY <1>3, <2>1, <3>2, <4>1
      <4>3. a.rows # {}
        BY <1>2, <2>3, <4>2 DEF GoodAnswer
      <4> QED
        BY <1>1, <4>3 DEF PagerLostWithReason, PagerShown
    <3> QED
      BY <2>2, <3>1, <3>2
  <2>10. WalkedSoFar'
    <3> SUFFICES ASSUME tied' = {}, walk'.upto > 0
                 PROVE  /\ walk'.base <= a.of
                        /\ \A c \in 1 .. walk'.base :
                             a.of - walk'.upto * Size < c => c \in walk'.seen
      BY <2>1 DEF WalkedSoFar
    <3>1. \A c \in 1 .. a.of :
            a.of - p * Size < c /\ c <= a.of - (p - 1) * Size => c \in a.rows
      BY <1>1, <1>2, <2>3 DEF GoodAnswer
    <3>2. CASE p = 1
      <4>1. walk' = [upto |-> 1, base |-> a.of, seen |-> a.rows]
        BY <2>1, <3>2 DEF Step
      <4>2. (p - 1) * Size = 0 /\ p * Size = Size
        BY <2>4, <3>2
      <4> QED
        BY <1>3, <2>4, <3>1, <4>1, <4>2
    <3>3. CASE p # 1 /\ p = walk.upto + 1
      <4>1. /\ walk'.upto = p /\ walk'.base = walk.base
            /\ walk'.seen = walk.seen \union a.rows
        BY <2>1, <2>5, <3>3 DEF Step
      <4>2. walk.upto \in Nat /\ walk.upto > 0 /\ p - 1 = walk.upto
        BY <1>2, <2>5, <3>3
      <4>3. /\ walk.base <= newest
            /\ \A c \in 1 .. walk.base :
                 newest - walk.upto * Size < c => c \in walk.seen
        BY <1>1, <2>1, <4>2 DEF WalkedSoFar
      <4>4. walk.base \in Nat /\ walk.upto * Size \in Nat
        BY <2>4, <2>5, <4>2
      <4>5. ASSUME NEW c \in 1 .. walk.base, a.of - p * Size < c
            PROVE  c \in walk.seen \union a.rows
        <5>1. CASE c <= a.of - walk.upto * Size
          BY <1>3, <2>1, <3>1, <4>2, <4>3, <4>4, <4>5, <5>1
        <5>2. CASE ~(c <= a.of - walk.upto * Size)
          BY <1>3, <2>1, <4>3, <4>4, <5>2
        <5> QED
          BY <5>1, <5>2
      <4> QED
        BY <1>3, <2>1, <4>1, <4>3, <4>4, <4>5
    <3>4. CASE p # 1 /\ p # walk.upto + 1
      <4>1. walk' = walk
        BY <2>1, <3>4 DEF Step
      <4>2. /\ walk.base <= newest
            /\ \A c \in 1 .. walk.base :
                 newest - walk.upto * Size < c => c \in walk.seen
        BY <1>1, <2>1, <4>1 DEF WalkedSoFar
      <4>3. walk.base \in Nat /\ walk.upto * Size \in Nat
        BY <2>4, <2>5
      <4> QED
        BY <1>3, <2>1, <4>1, <4>2, <4>3
    <3> QED
      BY <3>2, <3>3, <3>4
  <2> QED
    BY <1>4, <2>7, <2>8, <2>9, <2>10
<1> QED
  BY <1>8, <1>9

LEMMA StutterInv == ListInv /\ UNCHANGED vars => ListInv'
<1> SUFFICES ASSUME ListInv, UNCHANGED vars PROVE ListInv'
  OBVIOUS
<1> USE DEF ListInv, vars
<1>1. TypeOK' /\ PagerGoesBy' /\ OneAtATime'
  BY DEF TypeOK, PagerGoesBy, OneAtATime
<1>2. SpinnerHonest' /\ PagerLostWithReason' /\ WalkedSoFar'
  BY DEF SpinnerHonest, PagerLostWithReason, PagerShown, WalkedSoFar
<1>3. \A b, q : GoodAnswer(b, q)' <=> GoodAnswer(b, q)
  BY DEF GoodAnswer
<1>4. AnswersGood'
  BY <1>3 DEF AnswersGood
<1> QED
  BY <1>1, <1>2, <1>4

LEMMA Inductive == Spec => []ListInv
<1>1. ListInv /\ [Next]_vars => ListInv'
  <2> SUFFICES ASSUME ListInv, [Next]_vars PROVE ListInv'
    OBVIOUS
  <2>1. CASE Create
    BY <2>1, CreateInv
  <2>2. ASSUME NEW r \in Request, Answer(r) PROVE ListInv'
    BY <2>2, AnswerInv
  <2>3. ASSUME NEW r \in Request, Arrive(r) PROVE ListInv'
    BY <2>3, ArriveInv
  <2>4. ASSUME NEW r \in Request, ArriveFailed(r) PROVE ListInv'
    BY <2>4, ArriveFailedInv
  <2>5. ASSUME NEW r \in Request, Reopen(r) PROVE ListInv'
    BY <2>5, ReopenInv
  <2>6. ASSUME NEW r \in Request, NEW p \in 1 .. Pages(total), Turn(r, p)
        PROVE  ListInv'
    BY <2>6, TurnInv
  <2>7. CASE UNCHANGED vars
    BY <2>7, StutterInv
  <2> QED
    BY <2>1, <2>2, <2>3, <2>4, <2>5, <2>6, <2>7 DEF Next
<1> QED
  BY <1>1, InitInv, PTL DEF Spec

\* The spinner of pages/CourseList turns exactly while a request is on its way,
\* and what is shown is the pager's page, for as many requests as there are,
\* unless a page is turned while another is loading.
THEOREM SpinnerIsHonest == Spec => []SpinnerHonest
<1>1. ListInv => SpinnerHonest
  BY DEF ListInv
<1> QED
  BY <1>1, Inductive, PTL

\* Every variable of pages/CourseList and of the courses behind it keeps its type:
\* the page that is asked for is one that the pager can show.
THEOREM TypeCorrect == Spec => []TypeOK
<1>1. ListInv => TypeOK
  BY DEF ListInv
<1> QED
  BY <1>1, Inductive, PTL

\* The pager of pages/CourseList disappears only for a reason: a failed request,
\* answers of mixed age, or no courses.  No wrapped page number is among them.
THEOREM PagerStays == Spec => []PagerLostWithReason
<1>1. ListInv => PagerLostWithReason
  BY DEF ListInv
<1> QED
  BY <1>1, Inductive, PTL

\* Reading page after page misses no course, whatever a page's size and however
\* many courses are created meanwhile.
THEOREM ReadingMissesNothing == Spec => []NothingMissed
<1>1. ListInv => NothingMissed
  <2> SUFFICES ASSUME ListInv, ~mixed, tied = {}, walk.upto > 0,
                      walk.upto >= Pages(total), NEW c \in 1 .. walk.base
               PROVE  c \in walk.seen
    BY DEF NothingMissed
  <2> USE DEF ListInv
  <2>1. total = newest /\ newest \in Nat
    BY MaxCoursesAssumption DEF PagerGoesBy, TypeOK
  <2>2. /\ Size \in Nat /\ Size > 0 /\ walk.upto \in Nat
        /\ Pages(newest) \in Nat /\ newest <= Pages(newest) * Size
    BY <2>1, PagesCover, SizeAssumption, PagingAssumption DEF TypeOK
  <2>3. Pages(newest) * Size <= walk.upto * Size
    BY <2>1, <2>2
  <2>4. newest - walk.upto * Size < c
    <3>1. Pages(newest) * Size \in Nat /\ walk.upto * Size \in Nat
      BY <2>2
    <3>2. c \in Nat /\ c > 0
      BY DEF TypeOK
    <3> QED
      BY <2>1, <2>2, <2>3, <3>1, <3>2
  <2> QED
    BY <2>4 DEF WalkedSoFar
<1> QED
  BY <1>1, Inductive, PTL
=============================================================================
