------------------------------ MODULE CourseForm ------------------------------
(***************************************************************************)
(* Creating a course with a cover.  The form asks GetCoverUploadURL for an *)
(* object key and a signed URL, PUTs the cover to OSS and then asks        *)
(* CreateCourse to write the row that names the key.  A client may instead *)
(* post the file with the form: the gateway then takes the first two steps *)
(* (uploadCoverViaSignedURL) inside the one request.                       *)
(*                                                                         *)
(* An Attempt is one press of the button.  After an error the form still   *)
(* holds what was filled in, and the administrator presses again; nothing  *)
(* tells the server that the two attempts are for one course.              *)
(***************************************************************************)
EXTENDS Naturals, FiniteSets

CONSTANTS
  Attempt,     \* submissions
  Form,        \* what an administrator has filled in, the file included
  Stamp,       \* what tells two covers apart: millisecond and extension
  None,        \* no cover, no object
  MaxFaults    \* bound on faults, timeouts and crashes in a behaviour

ASSUME NoCoverAssumption == None \notin Stamp \union Attempt
ASSUME FormMaxFaults == MaxFaults \in Nat

VARIABLES
  pc,        \* where each attempt is
  form,      \* the form it submits
  posted,    \* the file is posted with the form, to the gateway
  stamp,     \* the moment its cover's key is made, with the extension
  cover,     \* the key it has for CreateCourse, or None
  objects,   \* OSS: key -> the attempt whose file it holds
  courses,   \* MySQL: rows of courses
  told,      \* what the administrator is told
  faults     \* number of faults so far

vars == <<pc, form, posted, stamp, cover, objects, courses, told, faults>>

\* Mutant: the key is the name of the file alone.
FixedKey(t) == CHOOSE s \in Stamp : TRUE

\* GenerateCoverKey(0, ext): covers/0_<millisecond><ext>, whoever asks.
CoverKey(t) == t

Init ==
  /\ pc = [a \in Attempt |-> "idle"]
  /\ form \in [Attempt -> Form]
  /\ posted \in [Attempt -> BOOLEAN]
  /\ stamp \in [Attempt -> Stamp]
  /\ cover = [a \in Attempt |-> None]
  /\ objects = [k \in Stamp |-> None]
  /\ courses = {}
  /\ told = [a \in Attempt |-> "none"]
  /\ faults = 0

-----------------------------------------------------------------------------
Goto(a, s) == pc' = [pc EXCEPT ![a] = s]

Fault ==
  /\ faults < MaxFaults
  /\ faults' = faults + 1

\* The administrator sees the outcome, unless the request was given up before.
Finish(a, outcome) ==
  /\ Goto(a, "done")
  /\ told' = [told EXCEPT ![a] = IF @ = "none" THEN outcome ELSE @]

\* What the page has already submitted of a's form.
Earlier(a) ==
  {b \in Attempt : form[b] = form[a] /\ ~posted[b] /\ pc[b] # "idle"}

\* Mutant: the button works while an attempt is on its way.
SubmitAnyTime(a) ==
  /\ pc[a] = "idle"
  /\ \E s \in {"sign", "insert"} : Goto(a, s)
  /\ UNCHANGED <<form, posted, stamp, cover, objects, courses, told, faults>>

\* onFinish, with or without a cover: the button is disabled while an attempt is
\* on its way, and the page is left after a success.  A client that posts the
\* file itself may send as often as it likes.
Submit(a) ==
  /\ pc[a] = "idle"
  /\ posted[a] \/ \A b \in Earlier(a) : told[b] \notin {"none", "ok"}
  /\ \E s \in {"sign", "insert"} : Goto(a, s)
  /\ UNCHANGED <<form, posted, stamp, cover, objects, courses, told, faults>>

\* GetCoverUploadURL.  (A file whose extension is not an image's is refused
\* before anything happens.)  The page may have stopped waiting.
Sign(a) ==
  /\ pc[a] = "sign"
  /\ Goto(a, IF told[a] = "none" THEN "put" ELSE "done")
  /\ UNCHANGED <<form, posted, stamp, cover, objects, courses, told, faults>>

\* bindCreateCourseRequest turns every error of the posted file's upload into
\* ErrInvalidParams.
UploadError(a, code) == IF posted[a] THEN "10001" ELSE code

SignFails(a) ==
  /\ pc[a] = "sign"
  /\ Fault
  /\ Finish(a, UploadError(a, "50002"))
  /\ UNCHANGED <<form, posted, stamp, cover, objects, courses>>

Stored(a) == [objects EXCEPT ![CoverKey(stamp[a])] = a]

\* Mutant: the key is not handed on to CreateCourse.
PutForgetsKey(a) ==
  /\ pc[a] = "put"
  /\ objects' = Stored(a)
  /\ Goto(a, "insert")
  /\ UNCHANGED <<form, posted, stamp, cover, courses, told, faults>>

\* The PUT, which replaces what the key held.
Put(a) ==
  /\ pc[a] = "put"
  /\ objects' = Stored(a)
  /\ cover' = [cover EXCEPT ![a] = CoverKey(stamp[a])]
  /\ Goto(a, "insert")
  /\ UNCHANGED <<form, posted, stamp, courses, told, faults>>

\* OSS fails, the URL's 300 seconds are over, or the answer is lost.
PutFails(a) ==
  /\ pc[a] = "put"
  /\ Fault
  /\ objects' \in {objects, Stored(a)}
  /\ Finish(a, UploadError(a, "failed"))
  /\ UNCHANGED <<form, posted, stamp, cover, courses>>

Row(a) == [form |-> form[a], cover |-> cover[a], by |-> a]

\* CreateCourse.  (What it does to the cached lists is in CourseCatalog.)
Insert(a) ==
  /\ pc[a] = "insert"
  /\ courses' = courses \union {Row(a)}
  /\ Finish(a, "ok")
  /\ UNCHANGED <<form, posted, stamp, cover, objects, faults>>

InsertFails(a) ==
  /\ pc[a] = "insert"
  /\ Fault
  /\ courses' \in {courses, courses \union {Row(a)}}
  /\ Finish(a, "50001")
  /\ UNCHANGED <<form, posted, stamp, cover, objects>>

-----------------------------------------------------------------------------
\* What logic-server is working on.
Handling(a) == pc[a] \in {"sign", "insert"}

\* Mutant: the deadline of a posted form is an error of its upload, always.
NoAnswerAsUpload(a) == UploadError(a, "50001")

\* An answer that does not come is an internal error.
NoAnswer(a) == IF pc[a] = "sign" THEN UploadError(a, "50001") ELSE "50001"

\* Deadline of the gateway: 5s for CreateCourse, the page's GetCoverUploadURL
\* too; 10s for a posted file.  The handler goes on.
Timeout(a) ==
  /\ Handling(a)
  /\ told[a] = "none"
  /\ Fault
  /\ told' = [told EXCEPT ![a] = NoAnswer(a)]
  /\ UNCHANGED <<pc, form, posted, stamp, cover, objects, courses>>

\* logic-server dies and is restarted.
Crash ==
  /\ Fault
  /\ pc' = [a \in Attempt |-> IF Handling(a) THEN "done" ELSE pc[a]]
  /\ told' = [a \in Attempt |->
                IF Handling(a) /\ told[a] = "none" THEN NoAnswer(a) ELSE told[a]]
  /\ UNCHANGED <<form, posted, stamp, cover, objects, courses>>

Next ==
  \/ \E a \in Attempt :
       \/ Submit(a) \/ Sign(a) \/ Put(a) \/ Insert(a)
       \/ SignFails(a) \/ PutFails(a) \/ InsertFails(a) \/ Timeout(a)
  \/ Crash

Spec == Init /\ [][Next]_vars

-----------------------------------------------------------------------------
Rows == [form : Form, cover : Stamp \union {None}, by : Attempt]

\* The variables have their types.
TypeOK ==
  /\ pc \in [Attempt -> {"idle", "sign", "put", "insert", "done"}]
  /\ form \in [Attempt -> Form]
  /\ posted \in [Attempt -> BOOLEAN]
  /\ stamp \in [Attempt -> Stamp]
  /\ cover \in [Attempt -> Stamp \union {None}]
  /\ objects \in [Stamp -> Attempt \union {None}]
  /\ courses \subseteq Rows
  /\ told \in [Attempt -> {"none", "ok", "failed", "10001", "50001", "50002"}]
  /\ faults \in 0 .. MaxFaults

\* A course's cover is in OSS and is the one of its form, unless an attempt on
\* another form made its key in the same millisecond: the key names no course.
CoverIsOwn ==
  \A c \in courses : c.cover # None =>
    /\ objects[c.cover] # None
    /\ \/ form[objects[c.cover]] = c.form
       \/ \E b \in Attempt : form[b] # c.form /\ stamp[b] = c.cover

\* CreateCourse has no idempotency, so a form may become several courses, but
\* every copy the page makes past the first costs a timeout, a lost answer or
\* another fault, and it tells of a success at most once.
CopiesCostFaults ==
  \A f \in Form :
    LET attempts == {a \in Attempt : form[a] = f /\ ~posted[a]}
    IN  /\ Cardinality({c \in courses : c.by \in attempts}) <= 1 + faults
        /\ Cardinality({a \in attempts : told[a] = "ok"}) <= 1

\* A success is told only if the course is there, with the cover that was asked
\* for.  A cover in OSS is on its way to a course or named by one, or whoever
\* uploaded it last has been shown an error: nobody is told that all is well
\* and leaves an orphan behind, however often the others fail.
CoversAccountedFor ==
  /\ \A a \in Attempt : told[a] = "ok" => Row(a) \in courses
  /\ \A k \in Stamp : objects[k] # None =>
       LET a == objects[k]
       IN  \/ pc[a] = "insert" /\ cover[a] = k
           \/ \E c \in courses : c.by = a /\ c.cover = k
           \/ told[a] \in {"failed", "10001", "50001"}

\* The answers that blame the parameters or OSS are final, although the steps
\* behind them may still run, or have run already: an attempt that was told so
\* never becomes a course, not even later, and may be repeated without a second
\* one.  Only an internal error (50001) leaves that open.
RefusedMakesNoCourse ==
  \A a \in Attempt :
    told[a] \in {"failed", "10001", "50002"} => \A c \in courses : c.by # a
=============================================================================
