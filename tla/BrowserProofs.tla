----------------------------- MODULE BrowserProofs -----------------------------
(***************************************************************************)
(* Proofs about the two pages that keep what they work on in the browser:  *)
(* CourseForm, for every set of attempts, forms and keys and every number  *)
(* of faults, and ReportPage, for every number of series with any names,   *)
(* every width of the axis and every offset of the local times.  The two   *)
(* have no state in common and no name: each half uses its own module.     *)
(***************************************************************************)
EXTENDS CourseForm, ReportPage, FiniteSetTheorems, FunctionTheorems, TLAPS

(***************************************************************************)
(* The course form.                                                        *)
(***************************************************************************)

\* What is given with an attempt stays.
given == <<form, posted, stamp>>

LEMMA FaultType ==
  ASSUME faults \in 0 .. MaxFaults, Fault
  PROVE  faults' \in 0 .. MaxFaults
BY FormMaxFaults DEF Fault

LEMMA FinishType ==
  ASSUME TypeOK, NEW a \in Attempt,
         NEW o \in {"ok", "failed", "10001", "50001", "50002"}, Finish(a, o)
  PROVE  /\ pc' \in [Attempt -> {"idle", "sign", "put", "insert", "done"}]
         /\ told' \in [Attempt -> {"none", "ok", "failed", "10001", "50001",
                                   "50002"}]
BY DEF TypeOK, Finish, Goto

LEMMA TypeInit == Init => TypeOK
BY FormMaxFaults DEF Init, TypeOK

LEMMA TypeStep == TypeOK /\ [Next]_vars => TypeOK'
<1> SUFFICES ASSUME TypeOK, [Next]_vars PROVE TypeOK'
  OBVIOUS
<1>1. ASSUME NEW a \in Attempt, Submit(a) \/ Sign(a) PROVE TypeOK'
  BY <1>1 DEF TypeOK, Submit, Sign, Goto
<1>2. ASSUME NEW a \in Attempt, Put(a) PROVE TypeOK'
  BY <1>2 DEF TypeOK, Put, Goto, Stored, CoverKey
<1>3. ASSUME NEW a \in Attempt PROVE Row(a) \in Rows
  BY DEF TypeOK, Row, Rows
<1>4. ASSUME NEW a \in Attempt, Insert(a) PROVE TypeOK'
  BY <1>3, <1>4, FinishType DEF TypeOK, Insert
<1>5. ASSUME NEW a \in Attempt, SignFails(a) PROVE TypeOK'
  BY <1>5, FinishType, FaultType DEF TypeOK, SignFails, UploadError
<1>6. ASSUME NEW a \in Attempt, PutFails(a) PROVE TypeOK'
  <2>1. objects' \in [Stamp -> Attempt \union {None}]
    BY <1>6 DEF PutFails, Stored, CoverKey, TypeOK
  <2> QED
    BY <1>6, <2>1, FinishType, FaultType DEF TypeOK, PutFails, UploadError
<1>7. ASSUME NEW a \in Attempt, InsertFails(a) PROVE TypeOK'
  BY <1>3, <1>7, FinishType, FaultType DEF TypeOK, InsertFails
<1>8. ASSUME NEW a \in Attempt, Timeout(a) PROVE TypeOK'
  BY <1>8, FaultType DEF TypeOK, Timeout, NoAnswer, UploadError
<1>9. CASE Crash
  BY <1>9, FaultType DEF TypeOK, Crash, NoAnswer, UploadError
<1>10. CASE UNCHANGED vars
  BY <1>10 DEF TypeOK, vars
<1> QED
  BY <1>1, <1>2, <1>4, <1>5, <1>6, <1>7, <1>8, <1>9, <1>10 DEF Next

LEMMA TypeInvariant == Spec => []TypeOK
BY TypeInit, TypeStep, PTL DEF Spec

\* Every variable of CourseForm keeps its type.
THEOREM TypeCorrect == Spec => []TypeOK
BY TypeInvariant

-----------------------------------------------------------------------------
(* Covers: whoever has a key has it from the moment of its own upload, and  *)
(* what an object holds was uploaded in that moment.                        *)

KeysInv ==
  /\ \A a \in Attempt : cover[a] # None =>
       cover[a] = stamp[a] /\ objects[stamp[a]] # None
  /\ \A k \in Stamp : objects[k] # None => stamp[objects[k]] = k

\* The file of an attempt is in OSS, or nothing has changed there.
LEMMA KeysKept ==
  ASSUME TypeOK, KeysInv, NEW a \in Attempt, UNCHANGED given,
         objects' \in {objects, Stored(a)},
         \/ cover' = cover
         \/ objects' = Stored(a) /\ cover' = [cover EXCEPT ![a] = CoverKey(stamp[a])]
  PROVE  KeysInv'
<1>1. /\ stamp' = stamp /\ stamp \in [Attempt -> Stamp]
      /\ a # None /\ stamp[a] \in Stamp
  BY NoCoverAssumption DEF TypeOK, given
<1>2. \A k \in Stamp :
        \/ objects'[k] = objects[k]
        \/ k = stamp[a] /\ objects'[k] = a
  BY DEF TypeOK, Stored, CoverKey
<1>3. \A b \in Attempt :
        \/ cover'[b] = cover[b]
        \/ b = a /\ cover'[b] = stamp[a] /\ objects'[stamp[a]] = a
  BY <1>1 DEF TypeOK, Stored, CoverKey
<1> QED
  BY <1>1, <1>2, <1>3 DEF KeysInv

LEMMA KeysStep == TypeOK /\ KeysInv /\ [Next]_vars => KeysInv'
<1> SUFFICES ASSUME TypeOK, KeysInv, [Next]_vars PROVE KeysInv'
  OBVIOUS
<1>1. ASSUME NEW a \in Attempt, Put(a) PROVE KeysInv'
  BY <1>1, KeysKept DEF Put, given
<1>2. ASSUME NEW a \in Attempt, PutFails(a) PROVE KeysInv'
  BY <1>2, KeysKept DEF PutFails, given
<1>3. CASE UNCHANGED <<stamp, cover, objects>>
  BY <1>3 DEF KeysInv
<1> QED
  BY <1>1, <1>2, <1>3
  DEF Next, Submit, Sign, Insert, SignFails, InsertFails, Timeout, Crash, vars

-----------------------------------------------------------------------------
(* Rows: each is the one of an attempt that is over, and a success is told  *)
(* of a row.                                                                *)

RowsInv ==
  /\ \A c \in courses : c = Row(c.by) /\ pc[c.by] = "done"
  /\ \A a \in Attempt : told[a] = "ok" => Row(a) \in courses
  /\ \A a \in Attempt : pc[a] = "idle" => told[a] = "none"

LEMMA RowsKept ==
  ASSUME TypeOK, RowsInv, UNCHANGED given, courses' = courses,
         \A a \in Attempt : pc[a] = "done" => pc'[a] = "done" /\ cover'[a] = cover[a],
         \A a \in Attempt : told'[a] = "ok" => told[a] = "ok",
         \A a \in Attempt : pc'[a] = "idle" => pc[a] = "idle" /\ told'[a] = told[a]
  PROVE  RowsInv'
<1>1. ASSUME NEW a \in Attempt, pc[a] = "done" PROVE Row(a)' = Row(a)
  BY <1>1 DEF Row, given
<1>2. \A c \in courses : c.by \in Attempt
  BY DEF TypeOK, Rows
<1>3. \A a \in Attempt : told[a] = "ok" => pc[a] = "done"
  BY DEF RowsInv, Row
<1> QED
  BY <1>1, <1>2, <1>3 DEF RowsInv

\* CreateCourse, whatever comes of it.
LEMMA RowAdded ==
  ASSUME TypeOK, RowsInv, NEW a \in Attempt, UNCHANGED <<given, cover>>,
         pc[a] = "insert", NEW o, Finish(a, o),
         \/ courses' = courses \union {Row(a)}
         \/ courses' = courses /\ o # "ok"
  PROVE  RowsInv'
<1>1. /\ pc'[a] = "done" /\ \A b \in Attempt \ {a} : pc'[b] = pc[b]
      /\ told'[a] = (IF told[a] = "none" THEN o ELSE told[a])
      /\ \A b \in Attempt \ {a} : told'[b] = told[b]
  BY DEF Finish, Goto, TypeOK
<1>2. \A b : Row(b)' = Row(b)
  BY DEF Row, given
<1>3. \A c \in courses : c.by \in Attempt
  BY DEF TypeOK, Rows
<1>4. Row(a).by = a
  BY DEF Row
<1>5. told'[a] = "ok" => Row(a) \in courses'
  BY <1>1 DEF RowsInv
<1> QED
  BY <1>1, <1>2, <1>3, <1>4, <1>5 DEF RowsInv

LEMMA RowsStep == TypeOK /\ RowsInv /\ [Next]_vars => RowsInv'
<1> SUFFICES ASSUME TypeOK, RowsInv, [Next]_vars PROVE RowsInv'
  OBVIOUS
<1>1. ASSUME NEW a \in Attempt, Submit(a) \/ Sign(a) \/ Put(a) PROVE RowsInv'
  BY <1>1, RowsKept DEF Submit, Sign, Put, Goto, given, TypeOK
<1>2. ASSUME NEW a \in Attempt, SignFails(a) \/ PutFails(a) PROVE RowsInv'
  BY <1>2, RowsKept
  DEF SignFails, PutFails, UploadError, Finish, Goto, given, TypeOK
<1>3. ASSUME NEW a \in Attempt, Insert(a) PROVE RowsInv'
  BY <1>3, RowAdded DEF Insert, given
<1>4. ASSUME NEW a \in Attempt, InsertFails(a) PROVE RowsInv'
  BY <1>4, RowAdded DEF InsertFails, given
<1>5. ASSUME NEW a \in Attempt, Timeout(a) PROVE RowsInv'
  BY <1>5, RowsKept DEF Timeout, Handling, NoAnswer, UploadError, given, TypeOK
<1>6. CASE Crash
  BY <1>6, RowsKept DEF Crash, Handling, NoAnswer, UploadError, given, TypeOK
<1>7. CASE UNCHANGED vars
  BY <1>7, RowsKept DEF vars, given
<1> QED
  BY <1>1, <1>2, <1>3, <1>4, <1>5, <1>6, <1>7 DEF Next

-----------------------------------------------------------------------------
(* Copies: of the page's attempts on one form at most one is open, that is  *)
(* on its way or told of a success, and each of the others has cost a fault. *)

Open(a) == ~posted[a] /\ pc[a] # "idle" /\ told[a] \in {"none", "ok"}

Failures(f) ==
  {a \in Attempt : /\ form[a] = f /\ ~posted[a] /\ pc[a] # "idle"
                   /\ told[a] \notin {"none", "ok"}}

CostInv ==
  /\ \A f \in Form : /\ IsFiniteSet(Failures(f))
                     /\ Cardinality(Failures(f)) <= faults
  /\ \A a, b \in Attempt : Open(a) /\ Open(b) /\ form[a] = form[b] => a = b

\* A fault is the end of at most one attempt on each form, even when it is a
\* crash, because no other is open.
LEMMA CostKept ==
  ASSUME TypeOK, CostInv, UNCHANGED given, faults' \in {faults, faults + 1},
         \A a \in Attempt : pc'[a] = "idle" <=> pc[a] = "idle",
         \A a \in Attempt :
           \/ told'[a] = told[a] \/ posted[a]
           \/ Open(a) /\ (told'[a] = "ok" \/ faults' = faults + 1)
  PROVE  CostInv'
<1>1. form' = form /\ posted' = posted /\ faults \in Nat
  BY FormMaxFaults DEF given, TypeOK
<1>2. \A a \in Attempt : Open(a)' => Open(a)
  BY <1>1 DEF Open
<1>3. ASSUME NEW f \in Form
      PROVE  IsFiniteSet(Failures(f)') /\ Cardinality(Failures(f)') <= faults'
  <2>1. /\ IsFiniteSet(Failures(f)) /\ Cardinality(Failures(f)) \in Nat
        /\ Cardinality(Failures(f)) <= faults
    BY FS_CardinalityType DEF CostInv
  <2>2. ASSUME NEW a \in Failures(f)'
        PROVE  a \in Failures(f) \/ (faults' = faults + 1 /\ Open(a) /\ form[a] = f)
    BY <1>1 DEF Failures, Open
  <2>3. CASE Failures(f)' \subseteq Failures(f)
    <3>1. IsFiniteSet(Failures(f)') /\ Cardinality(Failures(f)') <= Cardinality(Failures(f))
      BY <2>1, <2>3, FS_Subset
    <3> QED
      BY <1>1, <2>1, <3>1, FS_CardinalityType
  <2>4. ASSUME NEW x \in Failures(f)', x \notin Failures(f)
        PROVE  IsFiniteSet(Failures(f)') /\ Cardinality(Failures(f)') <= faults'
    <3>1. faults' = faults + 1 /\ Open(x) /\ form[x] = f /\ x \in Attempt
      BY <2>2, <2>4 DEF Failures
    <3>2. \A a \in Failures(f)' : a \in Attempt
      BY DEF Failures
    <3>3. Failures(f)' \subseteq Failures(f) \union {x}
      BY <2>2, <3>1, <3>2 DEF CostInv
    <3>4. /\ IsFiniteSet(Failures(f) \union {x})
          /\ Cardinality(Failures(f) \union {x}) = Cardinality(Failures(f)) + 1
      BY <2>1, <2>4, FS_AddElement
    <3>5. /\ IsFiniteSet(Failures(f)')
          /\ Cardinality(Failures(f)') <= Cardinality(Failures(f) \union {x})
      BY <3>3, <3>4, FS_Subset
    <3> QED
      BY <1>1, <2>1, <3>1, <3>4, <3>5, FS_CardinalityType
  <2> QED
    BY <2>3, <2>4
<1> QED
  BY <1>1, <1>2, <1>3 DEF CostInv

\* The button works when no attempt on the form is open.
LEMMA SubmitCost ==
  ASSUME TypeOK, RowsInv, CostInv, NEW a \in Attempt, Submit(a)
  PROVE  CostInv'
<1>1. /\ pc[a] = "idle" /\ told[a] = "none" /\ pc'[a] # "idle"
      /\ \A b \in Attempt \ {a} : pc'[b] = pc[b]
      /\ UNCHANGED <<form, posted, told, faults>>
  BY DEF Submit, Goto, TypeOK, RowsInv
<1>2. \A f \in Form : Failures(f)' = Failures(f)
  BY <1>1 DEF Failures
<1>3. posted[a] \/ \A b \in Attempt : form[b] = form[a] => ~Open(b)
  BY <1>1 DEF Submit, Earlier, Open
<1>4. \A b \in Attempt \ {a} : Open(b)' <=> Open(b)
  BY <1>1 DEF Open
<1>5. posted[a] => ~Open(a)'
  BY <1>1 DEF Open
<1> QED
  BY <1>1, <1>2, <1>3, <1>4, <1>5 DEF CostInv

LEMMA CostStep == TypeOK /\ RowsInv /\ CostInv /\ [Next]_vars => CostInv'
<1> SUFFICES ASSUME TypeOK, RowsInv, CostInv, [Next]_vars PROVE CostInv'
  OBVIOUS
<1>1. ASSUME NEW a \in Attempt, Submit(a) PROVE CostInv'
  BY <1>1, SubmitCost
<1>2. ASSUME NEW a \in Attempt, Sign(a) \/ Put(a) PROVE CostInv'
  BY <1>2, CostKept DEF Sign, Put, Goto, given, TypeOK
<1>3. ASSUME NEW a \in Attempt, NEW o, Finish(a, o), pc[a] # "idle",
             UNCHANGED given,
             faults' = faults + 1 \/ (faults' = faults /\ o = "ok")
      PROVE  CostInv'
  <2>1. /\ \A b \in Attempt : pc'[b] = "idle" <=> pc[b] = "idle"
        /\ \A b \in Attempt : told'[b] = told[b] \/ (b = a /\ told[b] = "none" /\ told'[b] = o)
    BY <1>3 DEF Finish, Goto, TypeOK
  <2> QED
    BY <1>3, <2>1, CostKept DEF Open
<1>4. ASSUME NEW a \in Attempt, Insert(a) PROVE CostInv'
  BY <1>3, <1>4 DEF Insert, given
<1>5. ASSUME NEW a \in Attempt, SignFails(a) \/ PutFails(a) \/ InsertFails(a)
      PROVE  CostInv'
  BY <1>3, <1>5 DEF SignFails, PutFails, InsertFails, Fault, given
<1>6. ASSUME NEW a \in Attempt, Timeout(a) PROVE CostInv'
  BY <1>6, CostKept DEF Timeout, Handling, Fault, Open, given, TypeOK
<1>7. CASE Crash
  BY <1>7, CostKept DEF Crash, Handling, Fault, Open, given, TypeOK
<1>8. CASE UNCHANGED vars
  BY <1>8, CostKept DEF vars, given
<1> QED
  BY <1>1, <1>2, <1>4, <1>5, <1>6, <1>7, <1>8 DEF Next

-----------------------------------------------------------------------------
(* Answers: an attempt that still has a PUT or an insertion before it was    *)
(* told at most of an internal error, and a refused one has no row.          *)

Refusals == {"failed", "10001", "50002"}

AnswersInv ==
  \A a \in Attempt :
    /\ pc[a] = "put" => told[a] = "none"
    /\ pc[a] = "insert" => told[a] \in {"none", "50001"}
    /\ told[a] \in Refusals => \A c \in courses : c.by # a

\* An attempt that is not inserting is told, or goes on.
LEMMA AnswersKept ==
  ASSUME TypeOK, RowsInv, AnswersInv, courses' = courses,
         \A a \in Attempt :
           /\ pc'[a] = "put" => told'[a] = "none"
           /\ pc'[a] = "insert" => told'[a] \in {"none", "50001"}
           /\ told'[a] \in Refusals => told[a] \in Refusals \/ pc[a] # "done"
  PROVE  AnswersInv'
<1>1. ASSUME NEW a \in Attempt, pc[a] # "done" PROVE \A c \in courses : c.by # a
  BY <1>1 DEF RowsInv
<1> QED
  BY <1>1 DEF AnswersInv

\* An attempt that is inserting is told of a success or of an internal error.
LEMMA AnswersAdded ==
  ASSUME TypeOK, AnswersInv, NEW a \in Attempt, pc[a] = "insert",
         NEW o \in {"ok", "50001"}, Finish(a, o),
         courses' \in {courses, courses \union {Row(a)}}
  PROVE  AnswersInv'
<1>1. /\ pc'[a] = "done" /\ \A b \in Attempt \ {a} : pc'[b] = pc[b]
      /\ told'[a] = (IF told[a] = "none" THEN o ELSE told[a])
      /\ \A b \in Attempt \ {a} : told'[b] = told[b]
  BY DEF Finish, Goto, TypeOK
<1>2. told'[a] \notin Refusals
  BY <1>1 DEF AnswersInv, Refusals
<1>3. Row(a).by = a
  BY DEF Row
<1> QED
  BY <1>1, <1>2, <1>3 DEF AnswersInv

LEMMA AnswersStep == TypeOK /\ RowsInv /\ AnswersInv /\ [Next]_vars => AnswersInv'
<1> SUFFICES ASSUME TypeOK, RowsInv, AnswersInv, [Next]_vars PROVE AnswersInv'
  OBVIOUS
<1>1. ASSUME NEW a \in Attempt, Submit(a) PROVE AnswersInv'
  BY <1>1, AnswersKept DEF Submit, Goto, TypeOK, RowsInv, AnswersInv
<1>2. ASSUME NEW a \in Attempt, Sign(a) \/ Put(a) PROVE AnswersInv'
  BY <1>2, AnswersKept DEF Sign, Put, Goto, TypeOK, AnswersInv
<1>3. ASSUME NEW a \in Attempt, SignFails(a) \/ PutFails(a) PROVE AnswersInv'
  BY <1>3, AnswersKept
  DEF SignFails, PutFails, Finish, Goto, TypeOK, AnswersInv
<1>4. ASSUME NEW a \in Attempt, Insert(a) \/ InsertFails(a) PROVE AnswersInv'
  BY <1>4, AnswersAdded DEF Insert, InsertFails
<1>5. ASSUME NEW a \in Attempt, Timeout(a) PROVE AnswersInv'
  BY <1>5, AnswersKept DEF Timeout, Handling, NoAnswer, TypeOK, AnswersInv
<1>6. CASE Crash
  BY <1>6, AnswersKept DEF Crash, Handling, TypeOK, AnswersInv
<1>7. CASE UNCHANGED vars
  BY <1>7 DEF vars, AnswersInv
<1> QED
  BY <1>1, <1>2, <1>3, <1>4, <1>5, <1>6, <1>7 DEF Next

-----------------------------------------------------------------------------
(* Orphans: whoever has a file in OSS is about to insert its course, or is   *)
(* over, with a course or with an error.                                     *)

Accounted(a, k) ==
  \/ pc[a] = "insert" /\ cover[a] = k
  \/ /\ pc[a] = "done"
     /\ \/ \E c \in courses : c.by = a /\ c.cover = k
        \/ told[a] \in {"failed", "10001", "50001"}

OrphansInv ==
  \A k \in Stamp : objects[k] # None => Accounted(objects[k], k)

\* An attempt that others leave alone stays accounted for, and so does one that
\* was over.
LEMMA StillAccounted ==
  ASSUME NEW a \in Attempt, NEW k, Accounted(a, k), courses \subseteq courses',
         pc'[a] = pc[a], cover'[a] = cover[a],
         told[a] # "none" => told'[a] = told[a]
  PROVE  Accounted(a, k)'
BY DEF Accounted

LEMMA OrphansStep ==
  TypeOK /\ AnswersInv /\ OrphansInv /\ [Next]_vars => OrphansInv'
<1> SUFFICES ASSUME TypeOK, AnswersInv, OrphansInv, [Next]_vars PROVE OrphansInv'
  OBVIOUS
<1>0. \A k \in Stamp : objects[k] # None =>
        objects[k] \in Attempt /\ Accounted(objects[k], k)
  BY DEF TypeOK, OrphansInv
<1>a. ASSUME \A k \in Stamp : \A b \in Attempt : objects'[k] = b => Accounted(b, k)'
      PROVE  OrphansInv'
  <2>1. objects' \in [Stamp -> Attempt \union {None}]
    BY TypeStep DEF TypeOK
  <2> QED
    BY <1>a, <2>1 DEF OrphansInv, Accounted
\* What a leaves of the others' is accounted for; what it has itself is to show.
<1>1. ASSUME NEW a \in Attempt, courses \subseteq courses',
             \A b \in Attempt \ {a} :
               pc'[b] = pc[b] /\ cover'[b] = cover[b] /\ told'[b] = told[b],
             \A k \in Stamp :
               \/ objects'[k] = objects[k]
               \/ objects'[k] = a,
             \A k \in Stamp : objects'[k] = a => Accounted(a, k)'
      PROVE  OrphansInv'
  <2> SUFFICES ASSUME NEW k \in Stamp, NEW b \in Attempt \ {a}, objects'[k] = b
               PROVE  Accounted(b, k)'
    BY <1>1, <1>a
  <2>1. objects[k] = b /\ b # None
    BY <1>1, NoCoverAssumption
  <2>2. Accounted(b, k)
    BY <1>0, <2>1
  <2> QED
    BY <1>1, <2>2, StillAccounted
<1>2. ASSUME NEW a \in Attempt, Submit(a) \/ Sign(a) \/ SignFails(a)
      PROVE  OrphansInv'
  <2>1. /\ pc[a] \in {"idle", "sign"} /\ UNCHANGED <<objects, courses, cover>>
        /\ \A b \in Attempt \ {a} : pc'[b] = pc[b] /\ told'[b] = told[b]
    BY <1>2 DEF Submit, Sign, SignFails, Finish, Goto, TypeOK
  <2>2. \A k \in Stamp : objects[k] # a
    BY <1>0, <2>1, NoCoverAssumption DEF Accounted
  <2> QED
    BY <1>1, <2>1, <2>2
<1>3. ASSUME NEW a \in Attempt, Put(a) PROVE OrphansInv'
  <2>1. /\ pc[a] = "put" /\ pc'[a] = "insert" /\ cover'[a] = stamp[a]
        /\ \A b \in Attempt \ {a} :
             pc'[b] = pc[b] /\ cover'[b] = cover[b] /\ told'[b] = told[b]
        /\ \A k \in Stamp : objects'[k] = IF k = stamp[a] THEN a ELSE objects[k]
        /\ courses' = courses
    BY <1>3 DEF Put, Goto, Stored, CoverKey, TypeOK
  <2>2. \A k \in Stamp : objects[k] # a
    BY <1>0, <2>1, NoCoverAssumption DEF Accounted
  <2>3. \A k \in Stamp : objects'[k] = a => Accounted(a, k)'
    BY <2>1, <2>2 DEF Accounted
  <2> QED
    BY <1>1, <2>1, <2>3
<1>4. ASSUME NEW a \in Attempt, PutFails(a) PROVE OrphansInv'
  <2>1. /\ pc'[a] = "done" /\ told'[a] \in {"failed", "10001"}
        /\ \A b \in Attempt \ {a} : pc'[b] = pc[b] /\ told'[b] = told[b]
        /\ UNCHANGED <<courses, cover>>
    BY <1>4 DEF PutFails, UploadError, Finish, Goto, TypeOK, AnswersInv
  <2>2. \A k \in Stamp : objects'[k] = objects[k] \/ objects'[k] = a
    BY <1>4 DEF PutFails, Stored, CoverKey, TypeOK
  <2>3. \A k \in Stamp : Accounted(a, k)'
    BY <2>1 DEF Accounted
  <2> QED
    BY <1>1, <2>1, <2>2, <2>3
<1>5. ASSUME NEW a \in Attempt, Insert(a) PROVE OrphansInv'
  <2>1. /\ pc[a] = "insert" /\ pc'[a] = "done" /\ UNCHANGED <<objects, cover>>
        /\ \A b \in Attempt \ {a} : pc'[b] = pc[b] /\ told'[b] = told[b]
        /\ courses' = courses \union {Row(a)}
        /\ Row(a).by = a /\ Row(a).cover = cover[a]
    BY <1>5 DEF Insert, Finish, Goto, Row, TypeOK
  <2>2. \A k \in Stamp : objects[k] = a => cover[a] = k
    BY <1>0, <2>1, NoCoverAssumption DEF Accounted
  <2>3. \A k \in Stamp : objects[k] = a => Accounted(a, k)'
    BY <2>1, <2>2 DEF Accounted
  <2> QED
    BY <1>1, <2>1, <2>3
<1>6. ASSUME NEW a \in Attempt, InsertFails(a) PROVE OrphansInv'
  <2>1. /\ pc'[a] = "done" /\ told'[a] = "50001" /\ UNCHANGED <<objects, cover>>
        /\ \A b \in Attempt \ {a} : pc'[b] = pc[b] /\ told'[b] = told[b]
        /\ courses \subseteq courses'
    BY <1>6 DEF InsertFails, Finish, Goto, TypeOK, AnswersInv
  <2> QED
    BY <1>1, <2>1 DEF Accounted
<1>7. ASSUME NEW a \in Attempt, Timeout(a) PROVE OrphansInv'
  <2>1. /\ told[a] = "none" /\ UNCHANGED <<pc, objects, courses, cover>>
        /\ \A b \in Attempt \ {a} : told'[b] = told[b]
    BY <1>7 DEF Timeout, TypeOK
  <2>2. \A k \in Stamp : objects[k] = a => Accounted(a, k)'
    BY <1>0, <2>1, StillAccounted, NoCoverAssumption
  <2> QED
    BY <1>1, <2>1, <2>2
<1>8. CASE Crash
  <2> SUFFICES ASSUME NEW k \in Stamp, NEW b \in Attempt, objects'[k] = b
               PROVE  Accounted(b, k)'
    BY <1>a
  <2>1. UNCHANGED <<objects, courses, cover>>
    BY <1>8 DEF Crash
  <2>2. Accounted(b, k)
    BY <1>0, <2>1, NoCoverAssumption
  <2>3. CASE Handling(b)
    <3>1. pc[b] = "insert"
      BY <2>2, <2>3 DEF Handling, Accounted
    <3>2. pc'[b] = "done" /\ told'[b] = "50001"
      BY <1>8, <2>2, <2>3, <3>1 DEF Crash, NoAnswer, AnswersInv, TypeOK
    <3> QED
      BY <2>1, <2>2, <3>1, <3>2 DEF Accounted
  <2>4. CASE ~Handling(b)
    <3>1. pc'[b] = pc[b] /\ told'[b] = told[b] /\ cover'[b] = cover[b]
      BY <1>8, <2>2, <2>4 DEF Crash
    <3> QED
      BY <2>1, <2>2, <3>1 DEF Accounted
  <2> QED
    BY <2>3, <2>4
<1>9. CASE UNCHANGED vars
  BY <1>9 DEF OrphansInv, Accounted, vars
<1> QED
  BY <1>2, <1>3, <1>4, <1>5, <1>6, <1>7, <1>8, <1>9 DEF Next

-----------------------------------------------------------------------------
FormInv ==
  TypeOK /\ KeysInv /\ RowsInv /\ CostInv /\ AnswersInv /\ OrphansInv

LEMMA FormInvariant == Spec => []FormInv
<1>1. ASSUME Init PROVE FormInv
  <2>1. TypeOK
    BY <1>1, TypeInit
  <2>2. KeysInv /\ RowsInv /\ AnswersInv /\ OrphansInv
    BY <1>1 DEF Init, KeysInv, RowsInv, AnswersInv, Refusals, OrphansInv
  <2>3. \A f \in Form : Failures(f) = {}
    BY <1>1 DEF Init, Failures
  <2>4. CostInv
    BY <1>1, <2>3, FS_EmptySet DEF Init, CostInv, Open
  <2> QED
    BY <2>1, <2>2, <2>4 DEF FormInv
<1>2. FormInv /\ [Next]_vars => FormInv'
  BY TypeStep, KeysStep, RowsStep, CostStep, AnswersStep, OrphansStep DEF FormInv
<1> QED
  BY <1>1, <1>2, PTL DEF Spec

\* A course's cover is there, and is its own unless another form's upload made
\* its key in the same millisecond.
THEOREM CoversAreOwn == Spec => []CoverIsOwn
<1>1. FormInv => CoverIsOwn
  <2> SUFFICES ASSUME FormInv, NEW c \in courses, c.cover # None
               PROVE  /\ objects[c.cover] # None
                      /\ \/ form[objects[c.cover]] = c.form
                         \/ \E b \in Attempt : form[b] # c.form /\ stamp[b] = c.cover
    BY DEF CoverIsOwn
  <2>1. c.by \in Attempt /\ c.cover = cover[c.by]
    <3>1. c = Row(c.by) /\ c.by \in Attempt
      BY DEF FormInv, RowsInv, TypeOK, Rows
    <3> QED
      BY <3>1 DEF Row
  <2>2. c.cover \in Stamp /\ objects[c.cover] # None
    BY <2>1 DEF FormInv, KeysInv, TypeOK
  <2>3. objects[c.cover] \in Attempt /\ stamp[objects[c.cover]] = c.cover
    BY <2>2 DEF FormInv, KeysInv, TypeOK
  <2> QED
    BY <2>2, <2>3
<1> QED
  BY <1>1, FormInvariant, PTL

LEMMA AtMostOne ==
  ASSUME NEW S, \A x, y \in S : x = y
  PROVE  IsFiniteSet(S) /\ Cardinality(S) \in {0, 1}
<1>1. CASE S = {}
  BY <1>1, FS_EmptySet
<1>2. ASSUME NEW x \in S PROVE IsFiniteSet(S) /\ Cardinality(S) \in {0, 1}
  <2>1. S = {x}
    OBVIOUS
  <2> QED
    BY <2>1, FS_Singleton
<1> QED
  BY <1>1, <1>2

LEMMA Together ==
  ASSUME NEW S, NEW T, IsFiniteSet(S), IsFiniteSet(T), S \intersect T = {},
         NEW U, U = S \union T
  PROVE  IsFiniteSet(U) /\ Cardinality(U) = Cardinality(S) + Cardinality(T)
<1>1. /\ IsFiniteSet(S \union T)
      /\ Cardinality(S \union T) =
           Cardinality(S) + Cardinality(T) - Cardinality(S \intersect T)
  BY FS_Union
<1>2. Cardinality(S \intersect T) = 0
  BY FS_EmptySet
<1>3. Cardinality(S) \in Nat /\ Cardinality(T) \in Nat
  BY FS_CardinalityType
<1> QED
  BY <1>1, <1>2, <1>3

\* Every copy of a course that the page makes past the first has cost a fault, and
\* it tells of one success at most.
THEOREM CopiesArePaidFor == Spec => []CopiesCostFaults
<1>1. ASSUME FormInv, NEW f \in Form,
             NEW attempts, attempts = {a \in Attempt : form[a] = f /\ ~posted[a]}
      PROVE  /\ Cardinality({c \in courses : c.by \in attempts}) <= 1 + faults
             /\ Cardinality({a \in attempts : told[a] = "ok"}) <= 1
  <2> DEFINE Copies == {c \in courses : c.by \in attempts}
             Tried == {a \in attempts : pc[a] # "idle"}
             Told == {a \in attempts : told[a] = "ok"}
             OpenOnes == {a \in attempts : Open(a)}
  <2>0. faults \in Nat
    BY <1>1, FormMaxFaults DEF FormInv, TypeOK
  <2>1. IsFiniteSet(OpenOnes) /\ Cardinality(OpenOnes) \in {0, 1}
    <3>1. \A x, y \in OpenOnes : x = y
      BY <1>1 DEF FormInv, CostInv
    <3> QED
      BY <3>1, AtMostOne
  <2>2. /\ IsFiniteSet(Failures(f)) /\ Cardinality(Failures(f)) <= faults
        /\ Cardinality(Failures(f)) \in Nat
    BY <1>1, FS_CardinalityType DEF FormInv, CostInv
  <2>3. Tried = Failures(f) \union OpenOnes /\ Failures(f) \intersect OpenOnes = {}
    BY <1>1 DEF Failures, Open
  <2>4. IsFiniteSet(Tried) /\ Cardinality(Tried) <= 1 + faults
    <3> HIDE DEF Tried, OpenOnes
    <3>1. /\ IsFiniteSet(Tried)
          /\ Cardinality(Tried) = Cardinality(Failures(f)) + Cardinality(OpenOnes)
      BY <2>1, <2>2, <2>3, Together
    <3> QED
      BY <2>0, <2>1, <2>2, <3>1
  <2>5. [c \in Copies |-> c.by] \in Injection(Copies, Tried)
    <3>1. ASSUME NEW c \in Copies
          PROVE  c.by \in Tried /\ c = Row(c.by)
      <4>1. c = Row(c.by) /\ pc[c.by] = "done" /\ c.by \in Attempt
        BY <1>1 DEF FormInv, RowsInv, TypeOK, Rows
      <4> QED
        BY <4>1
    <3> DEFINE by == [c \in Copies |-> c.by]
    <3>2. by \in [Copies -> Tried]
      BY <3>1
    <3>3. ASSUME NEW c \in Copies, NEW d \in Copies, by[c] = by[d] PROVE c = d
      BY <3>1, <3>3
    <3> HIDE DEF by, Copies, Tried
    <3>4. by \in Injection(Copies, Tried)
      BY <3>2, <3>3, Fun_IsInj
    <3> QED
      BY <3>4 DEF by
  <2>6. Cardinality(Copies) <= 1 + faults
    <3>1. IsFiniteSet(Copies) /\ Cardinality(Copies) <= Cardinality(Tried)
      BY <2>4, <2>5, FS_Injection
    <3> HIDE DEF Copies, Tried
    <3>2. Cardinality(Copies) \in Nat /\ Cardinality(Tried) \in Nat
      BY <2>4, <3>1, FS_CardinalityType
    <3> QED
      BY <2>0, <2>4, <3>1, <3>2
  <2>7. Cardinality(Told) <= 1
    <3>1. Told \subseteq OpenOnes
      BY <1>1 DEF FormInv, RowsInv, Open
    <3> HIDE DEF Told, OpenOnes
    <3>2. /\ IsFiniteSet(Told) /\ Cardinality(Told) \in Nat
          /\ Cardinality(Told) <= Cardinality(OpenOnes)
      BY <2>1, <3>1, FS_Subset, FS_CardinalityType
    <3> QED
      BY <2>1, <3>2
  <2> QED
    BY <2>6, <2>7
<1>2. FormInv => CopiesCostFaults
  BY <1>1 DEF CopiesCostFaults
<1> QED
  BY <1>2, FormInvariant, PTL

\* A success is told of a row that is there, and a cover that no course has or
\* will have was uploaded by somebody who was shown an error.
THEOREM CoversHaveRows == Spec => []CoversAccountedFor
<1>1. FormInv => CoversAccountedFor
  BY DEF FormInv, RowsInv, OrphansInv, Accounted, CoversAccountedFor
<1> QED
  BY <1>1, FormInvariant, PTL

\* Whoever was told that the upload failed, or that the parameters were wrong, has
\* no course and will never have one from that attempt.
THEOREM RefusalsAreFinal == Spec => []RefusedMakesNoCourse
<1>1. FormInv => RefusedMakesNoCourse
  BY DEF FormInv, AnswersInv, Refusals, RefusedMakesNoCourse
<1> QED
  BY <1>1, FormInvariant, PTL

(***************************************************************************)
(* The report's panels.                                                    *)
(***************************************************************************)

\* Names differ, so places do.
LEMMA EarlierPlace ==
  ASSUME NEW S \in SUBSET (1 .. MaxSeries), NEW s \in S, NEW t \in S,
         Rank[s] < Rank[t]
  PROVE  Place(s, S) # Place(t, S)
<1> DEFINE Upto(x) == {y \in S : Rank[y] <= Rank[x]}
<1>1. \A x \in S : Rank[x] \in Int
  BY SeriesAssumption, RankAssumption
<1>2. IsFiniteSet(1 .. MaxSeries)
  BY SeriesAssumption, FS_Interval
<1>3. IsFiniteSet(S)
  BY <1>2, FS_Subset
<1>4. IsFiniteSet(Upto(t))
  BY <1>3, FS_Subset
<1>5. Upto(s) \subseteq Upto(t) /\ Upto(s) # Upto(t)
  <2>1. ASSUME NEW y \in Upto(s) PROVE y \in Upto(t)
    <3>1. y \in S /\ Rank[y] <= Rank[s]
      OBVIOUS
    <3>2. Rank[y] \in Int /\ Rank[s] \in Int /\ Rank[t] \in Int
      BY <1>1, <3>1
    <3>3. Rank[y] <= Rank[t]
      BY <3>1, <3>2
    <3> QED
      BY <3>1, <3>3
  <2>2. t \in Upto(t) /\ t \notin Upto(s)
    BY <1>1
  <2> QED
    BY <2>1, <2>2
<1>6. Cardinality(Upto(s)) # Cardinality(Upto(t))
  BY <1>4, <1>5, FS_Subset
<1> QED
  BY <1>6 DEF Place

LEMMA OwnPlace ==
  ASSUME NEW S \in SUBSET (1 .. MaxSeries), NEW s \in S, NEW t \in S,
         Place(s, S) = Place(t, S)
  PROVE  s = t
<1>1. Rank[s] \in Int /\ Rank[t] \in Int
  BY SeriesAssumption, RankAssumption
<1>2. Rank[s] = Rank[t]
  BY <1>1, EarlierPlace
<1> QED
  BY <1>2, RankAssumption

\* Every series in the colour of its own.
Own == [s \in series |-> s]

\* What the record holds.
Fields == {"shift", "listed", "boxes", "grey", "faded", "swatch", "plot",
           "overview", "origin", "zoom", "selection"}

\* Nothing is drawn and nothing listed.
Undrawn(u) ==
  /\ DOMAIN u = Fields
  /\ u.shift = 0 /\ u.listed = 0 /\ u.plot = Nothing
  /\ u.boxes = {} /\ u.grey = {} /\ u.faded = {}
  /\ u.zoom = Full /\ u.selection = Nothing /\ u.origin = 0

\* The list is filled once and agrees with the boxes.
Listed(u) ==
  /\ DOMAIN u = Fields
  /\ u.listed = 1 /\ u.boxes \subseteq series
  /\ u.faded = series \ u.boxes
  /\ u.swatch = Own

\* Graph and overview agree with the list, and with each other.
Drawn(u) ==
  /\ Listed(u)
  /\ u.plot = [s \in u.boxes |-> s]
  /\ panel.overview => /\ u.overview.data = u.plot
                       /\ panel.lines = "hidden" => u.overview.points
  /\ u.origin = u.shift
  /\ \/ u.selection = Nothing /\ u.zoom = Full
     \/ u.selection \in Ranges /\ u.zoom = u.selection

\* The panel has no data, and looks before it draws.
Undrawable == panel.guard /\ series = {}

(***************************************************************************)
(* Between steps the panel is either not drawn, and then nothing has been  *)
(* listed, shifted or selected, or drawn, and then the list, the graph and *)
(* the overview agree and the times are the ones the first drawing chose.  *)
(* What happened before the first drawing matters only to a panel that can *)
(* be drawn: one that has no data and looks for it is never drawn at all.  *)
(***************************************************************************)
PageInv ==
  /\ panel \in Panel
  /\ \E n \in 0 .. MaxSeries : series = 1 .. n
  /\ <<open, loaded, early, blind>> \in BOOLEAN \X BOOLEAN \X BOOLEAN \X BOOLEAN
  /\ IsGraph(ui) =>
       /\ loaded /\ ~Undrawable /\ Drawn(ui)
       /\ ui.grey = (IF blind THEN ui.boxes ELSE series \ ui.boxes)
       /\ ui.shift = (IF panel.time /\ ~early THEN Offset ELSE 0)
  /\ ~IsGraph(ui) =>
       /\ Undrawn(ui)
       /\ early \/ blind => Undrawable

LEMMA PanelType ==
  ASSUME NEW p \in Panel
  PROVE  p.ready \in BOOLEAN /\ p.time \in BOOLEAN
<1> DEFINE Kind == [time : BOOLEAN, guard : BOOLEAN, overview : BOOLEAN,
                    lines : {"shown", "default", "hidden"}, marked : BOOLEAN, ready : BOOLEAN]
<1>1. Plain \in Kind
  BY DEF Plain
<1> HIDE DEF Kind
<1>2. \A k \in Kind : /\ [k EXCEPT !.time = TRUE] \in Kind
                      /\ [k EXCEPT !.overview = FALSE, !.lines = "default"] \in Kind
                      /\ [k EXCEPT !.lines = "hidden"] \in Kind
                      /\ [k EXCEPT !.guard = TRUE] \in Kind
                      /\ [k EXCEPT !.ready = TRUE] \in Kind
                      /\ [k EXCEPT !.guard = TRUE, !.ready = TRUE] \in Kind
                      /\ [k EXCEPT !.marked = FALSE] \in Kind
                      /\ [k EXCEPT !.guard = TRUE, !.lines = "default", !.ready = TRUE] \in Kind
  BY DEF Kind
<1>3. Timed \in Kind /\ Bars \in Kind /\ Dots \in Kind
  BY <1>1, <1>2 DEF Timed, Bars, Dots
<1>4. p \in Kind
  BY <1>1, <1>2, <1>3
     DEF Panel, responseTimePercentiles, responseTimeDistribution,
         syntheticResponseTimeDistribution, timeVsThreads,
         activeThreadsOverTime, bytesThroughputOverTime,
         responseTimesOverTime, latenciesOverTime, connectTimeOverTime,
         responseTimePercentilesOverTime, responseTimeVsRequest,
         latenciesVsRequest, hitsPerSecond, codesPerSecond,
         transactionsPerSecond, totalTPS
<1> QED
  BY <1>4 DEF Kind

LEMMA SeriesType ==
  ASSUME NEW n \in 0 .. MaxSeries, series = 1 .. n
  PROVE  series \subseteq 1 .. MaxSeries
BY SeriesAssumption

\* A drawing, of no series too, is not the absence of one.
LEMMA DrawnIsGraph ==
  ASSUME series \subseteq 1 .. MaxSeries, NEW u, Drawn(u)
  PROVE  IsGraph(u)
<1>1. u.plot \in [u.boxes -> 1 .. MaxSeries] /\ u.boxes \in SUBSET (1 .. MaxSeries)
  BY DEF Drawn, Listed
<1> QED
  BY <1>1, NothingAssumption DEF IsGraph

\* Drawing a listed panel.
LEMMA Redrawn ==
  ASSUME NEW u, Listed(u), NEW v, v = CreateGraph(u)
  PROVE  Drawn(v) /\ v.boxes = u.boxes /\ v.grey = u.grey /\ v.shift = u.shift
<1>1. PrepareData(u) = [s \in u.boxes |-> s]
  BY DEF PrepareData, Colour
<1>2. /\ Overview(u).data = [s \in u.boxes |-> s]
      /\ panel.lines = "hidden" => Overview(u).points
  BY <1>1 DEF Overview
<1>3. /\ DOMAIN v = Fields
      /\ v.listed = u.listed /\ v.boxes = u.boxes /\ v.faded = u.faded
      /\ v.swatch = u.swatch /\ v.grey = u.grey /\ v.shift = u.shift
      /\ v.plot = PrepareData(u) /\ v.origin = u.shift
      /\ v.zoom = Full /\ v.selection = Nothing
  BY DEF CreateGraph, Listed, Fields
<1>4. panel.overview => v.overview = Overview(u)
  BY DEF CreateGraph, Listed, Fields
<1> QED
  BY <1>1, <1>2, <1>3, <1>4 DEF Drawn, Listed

\* The first drawing.
LEMMA FirstDrawn ==
  ASSUME NEW u, DOMAIN u = Fields, u.listed = 0, u.faded = {},
         series \subseteq 1 .. MaxSeries,
         NEW w, w = CopySwatches(CreateGraph(CreateLegend(u)))
  PROVE  Drawn(w) /\ w.boxes = series /\ w.grey = u.grey /\ w.shift = u.shift
<1> DEFINE l == CreateLegend(u)
           v == CreateGraph(l)
<1>1. /\ DOMAIN l = Fields
      /\ l.listed = 1 /\ l.boxes = series /\ l.grey = u.grey /\ l.faded = {}
      /\ l.shift = u.shift
  BY DEF CreateLegend, Fields
<1> HIDE DEF l
<1>2. PrepareData(l) = Own
  BY <1>1 DEF PrepareData, Colour, Own
<1>3. /\ Overview(l).data = Own
      /\ panel.lines = "hidden" => Overview(l).points
  BY <1>2 DEF Overview
<1>4. /\ DOMAIN v = Fields
      /\ v.listed = 1 /\ v.boxes = series /\ v.grey = u.grey /\ v.faded = {}
      /\ v.shift = u.shift /\ v.plot = Own /\ v.origin = u.shift
      /\ v.zoom = Full /\ v.selection = Nothing
  BY <1>1, <1>2 DEF CreateGraph, Fields
<1>5. panel.overview => v.overview = Overview(l)
  BY <1>1 DEF CreateGraph, Fields
<1> HIDE DEF v
<1>6. ASSUME NEW s \in series
      PROVE  v.plot[CHOOSE t \in DOMAIN v.plot :
                      Place(t, DOMAIN v.plot) = Place(s, series)] = s
  <2>1. DOMAIN v.plot = series
    BY <1>4 DEF Own
  <2>2. \A t \in series : Place(t, series) = Place(s, series) <=> t = s
    BY OwnPlace
  <2>3. (CHOOSE t \in series : Place(t, series) = Place(s, series)) = s
    BY <2>2
  <2> QED
    BY <1>4, <2>1, <2>3 DEF Own
<1>7. w = CopySwatches(v)
  BY DEF l, v
<1>8. [s \in series |-> v.plot[CHOOSE t \in DOMAIN v.plot :
                                  Place(t, DOMAIN v.plot) = Place(s, series)]] = Own
  BY <1>6, Zenon DEF Own
<1>9. /\ DOMAIN w = Fields /\ w.swatch = Own
      /\ w.listed = 1 /\ w.boxes = series /\ w.grey = u.grey /\ w.faded = {}
      /\ w.shift = u.shift /\ w.plot = Own /\ w.origin = u.shift
      /\ w.zoom = Full /\ w.selection = Nothing /\ w.overview = v.overview
  BY <1>4, <1>7, <1>8 DEF Fields, CopySwatches
<1> QED
  BY <1>3, <1>5, <1>9 DEF Drawn, Listed, Own

\* What refreshing does to a panel that is not drawn: nothing when it has no
\* data and looks, or else the first drawing.
LEMMA FirstRefresh ==
  ASSUME series \subseteq 1 .. MaxSeries,
         NEW u, DOMAIN u = Fields, u.listed = 0, u.faded = {}, u.shift = 0,
         u.plot = Nothing, NEW fix \in BOOLEAN, NEW w, w = Refresh(u, fix)
  PROVE  /\ Undrawable => w = u
         /\ ~Undrawable => /\ Drawn(w) /\ w.boxes = series /\ w.grey = u.grey
                           /\ w.shift = (IF fix /\ panel.time THEN Offset ELSE 0)
<1>1. CASE Undrawable
  BY <1>1 DEF Refresh, Undrawable
<1>2. CASE ~Undrawable
  <2> DEFINE v == IF fix /\ panel.time THEN FixTimeStamps(u) ELSE u
  <2>1. /\ DOMAIN v = Fields
        /\ v.listed = 0 /\ v.faded = {} /\ v.grey = u.grey /\ v.plot = Nothing
        /\ v.shift = (IF fix /\ panel.time THEN Offset ELSE 0)
    BY OffsetAssumption DEF FixTimeStamps, Fields
  <2>2. w = IF IsGraph(v) THEN CreateGraph(v)
            ELSE CopySwatches(CreateGraph(CreateLegend(v)))
    BY <1>2, Zenon DEF Refresh, Undrawable
  <2> HIDE DEF v
  <2>3. w = CopySwatches(CreateGraph(CreateLegend(v)))
    BY <2>1, <2>2 DEF IsGraph
  <2> QED
    BY <1>2, <2>1, <2>3, FirstDrawn
<1> QED
  BY <1>1, <1>2

\* What it does to one that is.
LEMMA NextRefresh ==
  ASSUME NEW u, Listed(u), IsGraph(u), ~Undrawable,
         NEW w, w = Refresh(u, FALSE)
  PROVE  Drawn(w) /\ w.boxes = u.boxes /\ w.grey = u.grey /\ w.shift = u.shift
<1>1. w = CreateGraph(u)
  BY Zenon DEF Refresh, Undrawable
<1> QED
  BY <1>1, Redrawn

LEMMA DrawnNext ==
  ASSUME UNCHANGED <<panel, series>>, Drawn(ui')
  PROVE  Drawn(ui)'
BY DEF Drawn, Listed, Own

\* A step that ends in a drawn panel.
LEMMA ToDrawn ==
  ASSUME PageInv, UNCHANGED <<panel, series>>,
         <<open, loaded, early, blind>>' \in BOOLEAN \X BOOLEAN \X BOOLEAN \X BOOLEAN,
         loaded', ~Undrawable, Drawn(ui'),
         ui'.grey = (IF blind' THEN ui'.boxes ELSE series \ ui'.boxes),
         ui'.shift = (IF panel.time /\ ~early' THEN Offset ELSE 0)
  PROVE  PageInv'
<1>1. PICK n \in 0 .. MaxSeries : series = 1 .. n
  BY DEF PageInv
<1>2. series \subseteq 1 .. MaxSeries
  BY <1>1, SeriesType
<1>3. IsGraph(ui')
  BY <1>2, DrawnIsGraph
<1>4. IsGraph(ui)' /\ Drawn(ui)' /\ ~Undrawable'
  BY <1>3, DrawnNext DEF IsGraph, Undrawable
<1>5. panel' \in Panel' /\ \E k \in 0 .. MaxSeries : series' = 1 .. k
  BY DEF PageInv, Panel
<1> QED
  BY <1>4, <1>5 DEF PageInv

\* A step that ends in one that is not.
LEMMA ToBare ==
  ASSUME PageInv, UNCHANGED <<panel, series>>,
         <<open, loaded, early, blind>>' \in BOOLEAN \X BOOLEAN \X BOOLEAN \X BOOLEAN,
         Undrawn(ui'), early' \/ blind' => Undrawable
  PROVE  PageInv'
<1>1. panel' \in Panel' /\ \E k \in 0 .. MaxSeries : series' = 1 .. k
  BY DEF PageInv, Panel
<1>2. Undrawn(ui)' /\ ~IsGraph(ui)' /\ Undrawable' = Undrawable
  BY DEF Undrawn, IsGraph, Undrawable
<1> QED
  BY <1>1, <1>2 DEF PageInv

LEMMA InitInv == ReportInit => PageInv
<1> SUFFICES ASSUME ReportInit PROVE PageInv
  OBVIOUS
<1>1. Undrawn(ui) /\ ~IsGraph(ui)
  BY DEF ReportInit, Blank, Undrawn, IsGraph, Fields
<1>2. panel.ready \in BOOLEAN
  BY PanelType DEF ReportInit
<1> QED
  BY <1>1, <1>2 DEF ReportInit, PageInv

\* What the steps find.
LEMMA PageBasics ==
  ASSUME PageInv
  PROVE  /\ series \subseteq 1 .. MaxSeries
         /\ panel.ready \in BOOLEAN /\ panel.time \in BOOLEAN
         /\ open \in BOOLEAN /\ loaded \in BOOLEAN
         /\ early \in BOOLEAN /\ blind \in BOOLEAN
         /\ IsGraph(ui) => Drawn(ui) /\ Listed(ui)
         /\ ~IsGraph(ui) => Undrawn(ui)
<1>1. series \subseteq 1 .. MaxSeries
  BY SeriesType DEF PageInv
<1>2. panel.ready \in BOOLEAN /\ panel.time \in BOOLEAN
  BY PanelType DEF PageInv
<1>3. Drawn(ui) => Listed(ui)
  BY DEF Drawn
<1> QED
  BY <1>1, <1>2, <1>3 DEF PageInv

\* The first drawing, with whatever the menu left.
LEMMA FirstDrawing ==
  ASSUME PageInv, ~IsGraph(ui), UNCHANGED <<panel, series, early, blind>>,
         open' \in BOOLEAN, loaded', loaded' \in BOOLEAN,
         ui' = Refresh(ui, TRUE)
  PROVE  PageInv'
<1>1. Undrawn(ui) /\ series \subseteq 1 .. MaxSeries /\ panel.time \in BOOLEAN
  BY PageBasics
<1>2. early \in BOOLEAN /\ blind \in BOOLEAN
  BY PageBasics
<1>3. /\ Undrawable => ui' = ui
      /\ ~Undrawable => /\ Drawn(ui') /\ ui'.boxes = series /\ ui'.grey = ui.grey
                        /\ ui'.shift = (IF panel.time THEN Offset ELSE 0)
  BY <1>1, FirstRefresh DEF Undrawn
<1>4. CASE Undrawable
  BY <1>1, <1>2, <1>3, <1>4, ToBare
<1>5. CASE ~Undrawable
  <2>1. ~early /\ ~blind
    BY <1>5 DEF PageInv
  <2>2. ui'.grey = series \ ui'.boxes
    BY <1>1, <1>3, <1>5 DEF Undrawn
  <2> QED
    BY <1>2, <1>3, <1>5, <2>1, <2>2, ToDrawn
<1> QED
  BY <1>4, <1>5

LEMMA ReadyInv == ASSUME PageInv, Ready PROVE PageInv'
<1>1. ~IsGraph(ui) /\ Undrawn(ui)
  BY PageBasics DEF PageInv, Ready
<1>2. open \in BOOLEAN /\ early \in BOOLEAN /\ blind \in BOOLEAN
  BY PageBasics
<1>3. CASE panel.ready
  BY <1>1, <1>2, <1>3, FirstDrawing DEF Ready
<1>4. CASE ~panel.ready
  <2>1. ui' = ui /\ (early \/ blind => Undrawable)
    BY <1>1, <1>4 DEF Ready, PageInv
  <2> QED
    BY <1>1, <1>2, <2>1, ToBare DEF Ready
<1> QED
  BY <1>3, <1>4

\* Steps that leave the panel's elements alone.
LEMMA Untouched ==
  ASSUME PageInv, UNCHANGED <<panel, series, ui, early, blind>>,
         loaded' = loaded, open' \in BOOLEAN
  PROVE  PageInv'
<1>1. loaded \in BOOLEAN /\ early \in BOOLEAN /\ blind \in BOOLEAN
  BY PageBasics
<1>2. CASE IsGraph(ui)
  <2>1. /\ loaded /\ ~Undrawable /\ Drawn(ui)
        /\ ui.grey = (IF blind THEN ui.boxes ELSE series \ ui.boxes)
        /\ ui.shift = (IF panel.time /\ ~early THEN Offset ELSE 0)
    BY <1>2 DEF PageInv
  <2> QED
    BY <1>1, <2>1, ToDrawn
<1>3. CASE ~IsGraph(ui)
  <2>1. Undrawn(ui) /\ (early \/ blind => Undrawable)
    BY <1>3 DEF PageInv
  <2> QED
    BY <1>1, <2>1, ToBare
<1> QED
  BY <1>2, <1>3

LEMMA ExpandInv == ASSUME PageInv, Expand PROVE PageInv'
<1>1. loaded \in BOOLEAN
  BY PageBasics
<1>2. CASE panel.ready \/ IsGraph(ui)
  BY <1>1, <1>2, Untouched DEF Expand, Shown
<1>3. CASE ~(panel.ready \/ IsGraph(ui))
  BY <1>1, <1>3, FirstDrawing DEF Expand, Shown
<1> QED
  BY <1>2, <1>3

\* The menu, before it redraws: its boxes and colours.
Boxed(u, checked) ==
  LET there == IF u.listed > 0 THEN series ELSE {}
  IN [u EXCEPT !.boxes = IF checked THEN there ELSE {},
               !.faded = IF checked THEN {} ELSE there]

LEMMA Labelled ==
  ASSUME NEW v, DOMAIN v = Fields, NEW set, NEW w, w = [v EXCEPT !.grey = set]
  PROVE  /\ DOMAIN w = Fields /\ w.grey = set
         /\ w.shift = v.shift /\ w.listed = v.listed /\ w.boxes = v.boxes
         /\ w.faded = v.faded /\ w.swatch = v.swatch /\ w.plot = v.plot
         /\ w.overview = v.overview /\ w.origin = v.origin
         /\ w.zoom = v.zoom /\ w.selection = v.selection
BY DEF Fields

LEMMA ToggleAllInv ==
  ASSUME PageInv, NEW checked \in BOOLEAN, ToggleAll(checked)
  PROVE  PageInv'
<1> DEFINE b == Boxed(ui, checked)
           v == Refresh(b, FALSE)
<1>1. /\ loaded /\ loaded' = loaded /\ open' = open /\ ui' = Toggled(ui, checked)
      /\ UNCHANGED <<panel, series>>
  BY DEF ToggleAll
<1>2. early' = (early \/ ~IsGraph(ui))
  BY Zenon DEF ToggleAll
<1>3. blind' = (~checked /\ ui.listed = 0)
  BY Zenon DEF ToggleAll
<1>4. /\ series \subseteq 1 .. MaxSeries /\ panel.time \in BOOLEAN
      /\ open \in BOOLEAN /\ loaded \in BOOLEAN /\ early \in BOOLEAN /\ blind \in BOOLEAN
  BY PageBasics
<1>5. early' \in BOOLEAN /\ blind' \in BOOLEAN
  BY <1>2, <1>3, Zenon
<1>6. DOMAIN ui = Fields
  BY PageBasics DEF Undrawn, Listed
<1>7. /\ DOMAIN b = Fields
      /\ b.boxes = (IF checked THEN IF ui.listed > 0 THEN series ELSE {} ELSE {})
      /\ b.faded = (IF checked THEN {} ELSE IF ui.listed > 0 THEN series ELSE {})
      /\ b.shift = ui.shift /\ b.listed = ui.listed /\ b.grey = ui.grey
      /\ b.swatch = ui.swatch /\ b.plot = ui.plot /\ b.origin = ui.origin
      /\ b.zoom = ui.zoom /\ b.selection = ui.selection
  BY <1>6 DEF Boxed, Fields
<1>v. ui' = [v EXCEPT !.grey = IF checked THEN {}
                              ELSE IF v.listed > 0 THEN series ELSE {}]
  BY <1>1, Zenon DEF Toggled, Boxed
<1> HIDE DEF b
<1>8. CASE IsGraph(ui)
  <2>1. /\ ~Undrawable /\ Listed(ui)
        /\ ui.shift = (IF panel.time /\ ~early THEN Offset ELSE 0)
    BY <1>8, PageBasics DEF PageInv
  <2>2. Listed(b) /\ IsGraph(b)
    BY <1>7, <1>8, <2>1 DEF Listed, IsGraph
  <2>3. Drawn(v) /\ v.boxes = b.boxes /\ v.shift = b.shift
    BY <2>1, <2>2, NextRefresh
  <2>4. DOMAIN v = Fields /\ v.listed = 1
    BY <2>3 DEF Drawn, Listed
  <2> HIDE DEF v
  <2>5. /\ DOMAIN ui' = Fields
        /\ ui'.grey = (IF checked THEN {} ELSE series)
        /\ ui'.shift = v.shift /\ ui'.listed = v.listed /\ ui'.boxes = v.boxes
        /\ ui'.faded = v.faded /\ ui'.swatch = v.swatch /\ ui'.plot = v.plot
        /\ ui'.overview = v.overview /\ ui'.origin = v.origin
        /\ ui'.zoom = v.zoom /\ ui'.selection = v.selection
    BY <1>v, <2>4, Labelled
  <2>6. Drawn(ui')
    BY <2>3, <2>5 DEF Drawn, Listed
  <2>7. ui'.grey = series \ ui'.boxes
    BY <1>7, <2>1, <2>3, <2>5 DEF Listed
  <2>8. ~blind' /\ early' = early
    <3>1. ui.listed # 0
      BY <2>1 DEF Listed
    <3> QED
      BY <1>2, <1>3, <1>4, <1>8, <3>1, Zenon
  <2>9. ui'.shift = (IF panel.time /\ ~early' THEN Offset ELSE 0)
    BY <1>7, <2>1, <2>3, <2>5, <2>8
  <2> QED
    BY <1>1, <1>4, <1>5, <2>1, <2>6, <2>7, <2>8, <2>9, ToDrawn
<1>9. CASE ~IsGraph(ui)
  <2>1. Undrawn(ui)
    BY <1>9, PageBasics
  <2>2. /\ DOMAIN b = Fields /\ b.listed = 0 /\ b.faded = {} /\ b.boxes = {}
        /\ b.shift = 0 /\ b.plot = Nothing /\ b.grey = {} /\ b.origin = 0
        /\ b.zoom = Full /\ b.selection = Nothing
    BY <1>7, <2>1 DEF Undrawn
  <2>3. /\ Undrawable => v = b
        /\ ~Undrawable => /\ Drawn(v) /\ v.boxes = series /\ v.shift = 0
    BY <1>4, <2>2, FirstRefresh
  <2>4. DOMAIN v = Fields
    BY <2>2, <2>3 DEF Drawn, Listed
  <2> HIDE DEF v
  <2>5. /\ DOMAIN ui' = Fields
        /\ ui'.grey = (IF checked THEN {} ELSE IF v.listed > 0 THEN series ELSE {})
        /\ ui'.shift = v.shift /\ ui'.listed = v.listed /\ ui'.boxes = v.boxes
        /\ ui'.faded = v.faded /\ ui'.swatch = v.swatch /\ ui'.plot = v.plot
        /\ ui'.overview = v.overview /\ ui'.origin = v.origin
        /\ ui'.zoom = v.zoom /\ ui'.selection = v.selection
    BY <1>v, <2>4, Labelled
  <2>6. CASE Undrawable
    <3>1. Undrawn(ui')
      BY <2>2, <2>3, <2>5, <2>6 DEF Undrawn
    <3> QED
      BY <1>1, <1>4, <1>5, <2>6, <3>1, ToBare
  <2>7. CASE ~Undrawable
    <3>1. Drawn(ui') /\ ui'.boxes = series /\ ui'.shift = 0
      BY <2>3, <2>5, <2>7 DEF Drawn, Listed
    <3>2. ui'.grey = (IF checked THEN {} ELSE series)
      BY <2>3, <2>5, <2>7 DEF Drawn, Listed
    <3>3. early' /\ blind' = ~checked
      BY <1>2, <1>3, <1>9, <2>1, Zenon DEF Undrawn
    <3>4. ui'.grey = (IF blind' THEN ui'.boxes ELSE series \ ui'.boxes)
      BY <3>1, <3>2, <3>3
    <3> QED
      BY <1>1, <1>4, <1>5, <2>7, <3>1, <3>3, <3>4, ToDrawn
  <2> QED
    BY <2>6, <2>7
<1> QED
  BY <1>8, <1>9

\* Checking a box and marking a label are two sides of one thing.
LEMMA Flipped ==
  ASSUME NEW S, NEW s \in S, NEW T \in SUBSET S
  PROVE  Flip(s, T) \subseteq S /\ Flip(s, S \ T) = S \ Flip(s, T)
BY DEF Flip

LEMMA ClickInv ==
  ASSUME PageInv, NEW s \in series, Click(s)
  PROVE  PageInv'
<1> DEFINE c == [ui EXCEPT !.grey = Flip(s, @), !.faded = Flip(s, @),
                           !.boxes = Flip(s, @)]
<1>1. /\ loaded /\ loaded' = loaded /\ open' = open /\ ui.listed > 0
      /\ UNCHANGED <<panel, series, early, blind>>
      /\ ui' = CreateGraph(c)
  BY Zenon DEF Click
<1>2. IsGraph(ui)
  BY <1>1, PageBasics DEF Undrawn
<1>3. /\ ~Undrawable /\ Listed(ui) /\ Drawn(ui)
      /\ ui.grey = (IF blind THEN ui.boxes ELSE series \ ui.boxes)
      /\ ui.shift = (IF panel.time /\ ~early THEN Offset ELSE 0)
  BY <1>2, PageBasics DEF PageInv
<1>4. /\ open \in BOOLEAN /\ loaded \in BOOLEAN /\ early \in BOOLEAN /\ blind \in BOOLEAN
  BY PageBasics
<1>5. /\ DOMAIN c = Fields
      /\ c.boxes = Flip(s, ui.boxes) /\ c.faded = Flip(s, ui.faded)
      /\ c.grey = Flip(s, ui.grey) /\ c.listed = ui.listed
      /\ c.swatch = ui.swatch /\ c.shift = ui.shift
  BY <1>3 DEF Listed, Fields
<1> HIDE DEF c
<1>6. ui.boxes \in SUBSET series /\ ui.faded = series \ ui.boxes
  BY <1>3 DEF Listed
<1>7. /\ c.boxes \subseteq series /\ c.faded = series \ c.boxes
      /\ Flip(s, series \ ui.boxes) = series \ c.boxes
  BY <1>5, <1>6, Flipped
<1>8. Listed(c)
  BY <1>3, <1>5, <1>7 DEF Listed
<1>9. Drawn(ui') /\ ui'.boxes = c.boxes /\ ui'.grey = c.grey /\ ui'.shift = c.shift
  BY <1>1, <1>8, Redrawn
<1>10. ui'.grey = (IF blind THEN ui'.boxes ELSE series \ ui'.boxes)
  BY <1>3, <1>5, <1>7, <1>9
<1> QED
  BY <1>1, <1>3, <1>4, <1>5, <1>9, <1>10, ToDrawn

\* What zooming leaves: the graph as it is, and a range both show.
LEMMA Zoomed ==
  ASSUME PageInv, IsGraph(ui), UNCHANGED <<panel, series, open, loaded, early, blind>>,
         NEW z, NEW t, ui' = [ui EXCEPT !.zoom = z, !.selection = t],
         \/ t = Nothing /\ z = Full
         \/ t \in Ranges /\ z = t
  PROVE  PageInv'
<1>1. /\ loaded /\ ~Undrawable /\ Listed(ui) /\ Drawn(ui)
      /\ ui.grey = (IF blind THEN ui.boxes ELSE series \ ui.boxes)
      /\ ui.shift = (IF panel.time /\ ~early THEN Offset ELSE 0)
  BY PageBasics DEF PageInv
<1>2. /\ open \in BOOLEAN /\ loaded \in BOOLEAN /\ early \in BOOLEAN /\ blind \in BOOLEAN
  BY PageBasics
<1>3. /\ DOMAIN ui' = Fields /\ ui'.grey = ui.grey
      /\ ui'.shift = ui.shift /\ ui'.listed = ui.listed /\ ui'.boxes = ui.boxes
      /\ ui'.faded = ui.faded /\ ui'.swatch = ui.swatch /\ ui'.plot = ui.plot
      /\ ui'.overview = ui.overview /\ ui'.origin = ui.origin
      /\ ui'.zoom = z /\ ui'.selection = t
  BY <1>1 DEF Listed, Fields
<1>4. Drawn(ui')
  BY <1>1, <1>3 DEF Drawn, Listed
<1> QED
  BY <1>1, <1>2, <1>3, <1>4, ToDrawn

LEMMA Clamped ==
  ASSUME NEW r \in Ranges, r.from < Width
  PROVE  Clamp(r) \in Ranges
BY WidthAssumption DEF Clamp, Ranges, FromTo

LEMMA SelectInGraphInv ==
  ASSUME PageInv, NEW r \in Ranges, SelectInGraph(r)
  PROVE  PageInv'
<1>1. /\ IsGraph(ui) /\ UNCHANGED <<panel, series, open, loaded, early, blind>>
      /\ ui' = [ui EXCEPT !.zoom = Clamp(r), !.selection = Clamp(r)]
  BY DEF SelectInGraph, Zoomable, PlotSelected
<1>2. Clamp(r) \in Ranges
  BY Clamped DEF SelectInGraph
<1> QED
  BY <1>1, <1>2, Zoomed

LEMMA SelectInOverviewInv ==
  ASSUME PageInv, NEW r \in Ranges, SelectInOverview(r)
  PROVE  PageInv'
<1> DEFINE v == [ui EXCEPT !.selection = r]
<1>1. /\ IsGraph(ui) /\ UNCHANGED <<panel, series, open, loaded, early, blind>>
      /\ ui' = [v EXCEPT !.zoom = Clamp(r), !.selection = Clamp(r)]
  BY DEF SelectInOverview, Zoomable, PlotSelected
<1>2. ui' = [ui EXCEPT !.zoom = Clamp(r), !.selection = Clamp(r)]
  BY <1>1
<1>3. Clamp(r) \in Ranges
  BY Clamped DEF SelectInOverview
<1> QED
  BY <1>1, <1>2, <1>3, Zoomed

LEMMA UnselectInv == ASSUME PageInv, Unselect PROVE PageInv'
<1>1. /\ IsGraph(ui) /\ UNCHANGED <<panel, series, open, loaded, early, blind>>
      /\ ui' = [ui EXCEPT !.zoom = Full, !.selection = Nothing]
  BY DEF Unselect, Zoomable
<1> QED
  BY <1>1, Zoomed

LEMMA PageNext == PageInv /\ [ReportNext]_reportVars => PageInv'
<1> SUFFICES ASSUME PageInv, [ReportNext]_reportVars PROVE PageInv'
  OBVIOUS
<1>1. CASE Ready
  BY <1>1, ReadyInv
<1>2. CASE Expand
  BY <1>2, ExpandInv
<1>3. CASE Collapse
  BY <1>3, Untouched DEF Collapse
<1>4. CASE \E checked \in BOOLEAN : ToggleAll(checked)
  BY <1>4, ToggleAllInv
<1>5. CASE \E s \in series : Click(s)
  BY <1>5, ClickInv
<1>6. CASE \E r \in Ranges : SelectInGraph(r) \/ SelectInOverview(r)
  BY <1>6, SelectInGraphInv, SelectInOverviewInv
<1>7. CASE Unselect
  BY <1>7, UnselectInv
<1>8. CASE UNCHANGED reportVars
  BY <1>8, PageBasics, Untouched DEF reportVars
<1> QED
  BY <1>1, <1>2, <1>3, <1>4, <1>5, <1>6, <1>7, <1>8 DEF ReportNext

LEMMA PageSafe == ReportSpec => []PageInv
<1> QED
  BY InitInv, PageNext, PTL DEF ReportSpec

\* The panel's elements keep their types: no more is grey, hidden or checked
\* than there are series, and what is shown is a range of the axis.
THEOREM ReportTypeCorrect == ReportSpec => []ReportTypeOK
<1>1. PageInv => ReportTypeOK
  <2> SUFFICES ASSUME PageInv PROVE ReportTypeOK
    OBVIOUS
  <2>1. /\ ui.shift \in {0, Offset} /\ ui.origin \in {0, Offset}
        /\ ui.listed \in 0 .. 1
        /\ ui.boxes \subseteq series /\ ui.grey \subseteq series
        /\ ui.faded \subseteq series
        /\ ui.zoom \in Ranges /\ ui.selection \in Ranges \cup {Nothing}
    <3>1. CASE IsGraph(ui)
      <4>1. /\ Drawn(ui) /\ Listed(ui)
            /\ ui.shift = (IF panel.time /\ ~early THEN Offset ELSE 0)
            /\ ui.grey = (IF blind THEN ui.boxes ELSE series \ ui.boxes)
        BY <3>1, PageBasics DEF PageInv
      <4>2. Full \in Ranges
        BY WidthAssumption DEF Full, FromTo, Ranges
      <4> QED
        BY <4>1, <4>2 DEF Drawn, Listed
    <3>2. CASE ~IsGraph(ui)
      BY <3>2, PageBasics, WidthAssumption DEF Undrawn, Full, FromTo, Ranges
    <3> QED
      BY <3>1, <3>2
  <2> QED
    BY <2>1, PageBasics DEF ReportTypeOK, PageInv
<1> QED
  BY <1>1, PageSafe, PTL

\* The graph shows what is checked, in the colours of the list, whichever
\* boxes, labels and menus were used in whatever order.
THEOREM BoxesAreCurves == ReportSpec => []DrawnIsChecked
<1>1. PageInv => DrawnIsChecked
  BY PageBasics DEF DrawnIsChecked, Drawn, Listed, Undrawn, Own
<1> QED
  BY <1>1, PageSafe, PTL

\* Graph and overview show the same series and the same range.
THEOREM GraphsAgree == ReportSpec => []OverviewAgrees
<1>1. PageInv => OverviewAgrees
  <2> SUFFICES ASSUME PageInv, IsGraph(ui), panel.overview PROVE OverviewAgrees
    BY DEF OverviewAgrees
  <2>1. Drawn(ui)
    BY PageBasics
  <2>2. Nothing \notin Ranges
    BY NothingAssumption DEF Ranges
  <2> QED
    BY <2>1, <2>2 DEF OverviewAgrees, Drawn
<1> QED
  BY <1>1, PageSafe, PTL

\* Times are shifted by the offset once and never again, however often the
\* panel is redrawn, or never, when the menu drew it first.
THEOREM TimesShiftOnce == ReportSpec => []ShiftedOnce
<1>1. PageInv => ShiftedOnce
  <2> SUFFICES ASSUME PageInv, IsGraph(ui) PROVE ShiftedOnce
    BY DEF ShiftedOnce
  <2>1. ui.origin = ui.shift
    BY PageBasics DEF Drawn
  <2>2. ui.shift = (IF panel.time /\ ~early THEN Offset ELSE 0)
    BY DEF PageInv
  <2> QED
    BY <2>1, <2>2 DEF ShiftedOnce
<1> QED
  BY <1>1, PageSafe, PTL

\* The grey labels are those of the hidden series, and after the menu found no
\* boxes those of the shown ones.
THEOREM LabelsTell == ReportSpec => []GreyMeansHidden
<1>1. PageInv => GreyMeansHidden
  <2> SUFFICES ASSUME PageInv PROVE GreyMeansHidden
    OBVIOUS
  <2>1. CASE IsGraph(ui)
    <3>1. ui.listed = 1 /\ ui.grey = (IF blind THEN ui.boxes ELSE series \ ui.boxes)
      BY <2>1, PageBasics DEF PageInv, Listed
    <3> QED
      BY <3>1 DEF GreyMeansHidden
  <2>2. CASE ~IsGraph(ui)
    BY <2>2, PageBasics DEF GreyMeansHidden, Undrawn
  <2> QED
    BY <2>1, <2>2
<1> QED
  BY <1>1, PageSafe, PTL
=============================================================================
