-------------------------- MODULE VideoServiceProofs --------------------------
(***************************************************************************)
(* Proofs about VideoService, for every set of uploads, students, courses  *)
(* and stamps, every bound on the parts and every number of faults.        *)
(***************************************************************************)
EXTENDS VideoService, TLAPS

\* Past the check of CompleteMultipartUpload the path is the key's course, and
\* past the merge the object is there.
UploadInv ==
  \A u \in Upload :
    /\ pc[u] \in {"merge", "record"} => path[u] = course[u]
    /\ pc[u] = "record" => objects[KeyOf(u)] # None

\* An object was sent under its own key, and a row is of its key's course.
StoreInv ==
  /\ \A k \in Keys : objects[k] # None => KeyOf(objects[k].by) = k
  /\ \A v \in videos : objects[v.key] # None /\ v.course = v.key.course

\* What GetVideoPlayURL has found out stays true while it goes on: rows and
\* orders are never deleted.
WatchInv ==
  /\ \A w \in User :
       /\ asking[w] \in {"found", "entitled"} => video[w] \in videos
       /\ asking[w] = "entitled" => Purchased(w, video[w].course)
  /\ \A l \in links :
       objects[l.key] # None /\ Purchased(l.user, l.key.course)

PlayInv == UploadInv /\ StoreInv /\ WatchInv

\* What is on its way is of a size that was accepted, and no more ETags are
\* known than parts were PUT.
SizeInv ==
  \A u \in Upload :
    /\ pc[u] \notin {"idle", "done"} => count[u] <= MaxParts
    /\ etags[u] <= sent[u]

LEMMA KeyType ==
  ASSUME TypeOK, NEW u \in Upload
  PROVE  KeyOf(u) \in Keys /\ KeyOf(u).course = course[u]
BY DEF TypeOK, KeyOf, VideoKey, Keys

LEMMA FaultType ==
  ASSUME TypeOK, NEW us \in SUBSET Upload, FaultOf(us)
  PROVE  faults' \in 0 .. MaxFaults /\ disturbed' \subseteq Upload
BY VideoMaxFaults DEF TypeOK, FaultOf

LEMMA FinishType ==
  ASSUME TypeOK, NEW u \in Upload, NEW o \in Outcomes, Finish(u, o)
  PROVE  pc' \in [Upload -> Steps] /\ told' \in [Upload -> Outcomes]
BY DEF TypeOK, Finish, Goto, Steps

LEMMA MergedType ==
  ASSUME TypeOK, NEW u \in Upload, Merged(u)
  PROVE  /\ session' \in [Upload -> {"none", "open", "merged"}]
         /\ objects' \in [Keys -> [by : Upload, parts : 0 .. MaxParts] \union {None}]
BY DEF TypeOK, Merged

LEMMA RowType ==
  ASSUME TypeOK, NEW u \in Upload
  PROVE  Row(u) \in Rows
BY KeyType DEF TypeOK, Row, Rows

LEMMA TypeStep == TypeOK /\ SizeInv /\ WatchInv /\ [Next]_vars => TypeOK'
<1> SUFFICES ASSUME TypeOK, SizeInv, WatchInv, [Next]_vars PROVE TypeOK'
  OBVIOUS
<1> USE DEF TypeOK, given, progress, calm
<1>1. ASSUME NEW u \in Upload, Submit(u) \/ Initiate(u) PROVE TypeOK'
  <2>1. ASSUME Submit(u) PROVE TypeOK'
    <3>1. PICK n \in 0 .. MaxParts + 1 :
            /\ count' = [count EXCEPT ![u] = n]
            /\ \/ Goto(u, "initiate") /\ UNCHANGED told
               \/ Finish(u, "10001")
      BY <2>1 DEF Submit
    <3>2. pc' \in [Upload -> Steps] /\ told' \in [Upload -> Outcomes]
      BY <3>1, FinishType DEF Goto, Steps, Outcomes
    <3> QED
      BY <2>1, <3>1, <3>2 DEF Submit, playing
  <2>2. ASSUME Initiate(u) PROVE TypeOK'
    BY <2>2 DEF Initiate, Goto, Steps, playing
  <2> QED
    BY <1>1, <2>1, <2>2
<1>2. ASSUME NEW u \in Upload, PutPart(u) PROVE TypeOK'
  <2>1. /\ pc[u] = "put" /\ sent[u] < count[u] /\ count[u] <= MaxParts
        /\ etags[u] <= sent[u]
    BY <1>2 DEF PutPart, SizeInv
  <2>2. sent[u] + 1 \in 0 .. MaxParts /\ etags[u] + 1 \in 0 .. MaxParts
    BY <2>1, PartsAssumption
  <2> QED
    BY <1>2, <2>2 DEF PutPart, playing
<1>3. ASSUME NEW u \in Upload, NEW c \in Course, Complete(u, c)
      PROVE  TypeOK'
  <2>1. pc' \in [Upload -> Steps] /\ told' \in [Upload -> Outcomes]
    BY <1>3 DEF Complete, Finish, Goto, Steps, Outcomes
  <2> QED
    BY <1>3, <2>1 DEF Complete, playing
<1>4. ASSUME NEW u \in Upload, Merge(u) PROVE TypeOK'
  BY <1>4, MergedType DEF Merge, Goto, Steps, playing
<1>5. ASSUME NEW u \in Upload, Record(u) PROVE TypeOK'
  BY <1>5, RowType, FinishType DEF Record, Outcomes, playing
<1>6. ASSUME NEW u \in Upload, RecordFails(u) PROVE TypeOK'
  BY <1>6, RowType, FinishType, FaultType DEF RecordFails, Outcomes, playing
<1>7. ASSUME NEW u \in Upload, MergeFails(u) PROVE TypeOK'
  <2>1. /\ session' \in [Upload -> {"none", "open", "merged"}]
        /\ objects' \in [Keys -> [by : Upload, parts : 0 .. MaxParts] \union {None}]
    BY <1>7, MergedType DEF MergeFails
  <2> QED
    BY <1>7, <2>1, FinishType, FaultType DEF MergeFails, Outcomes, playing
<1>8. ASSUME NEW u \in Upload, InitiateFails(u) \/ PutFails(u) PROVE TypeOK'
  BY <1>8, FinishType, FaultType
     DEF InitiateFails, PutFails, Outcomes, playing
<1>9. ASSUME NEW u \in Upload, Timeout(u) PROVE TypeOK'
  BY <1>9, FaultType DEF Timeout, Outcomes, playing
<1>10. ASSUME NEW w \in User, Watch(w) PROVE TypeOK'
  <2> USE DEF upload
  <2>1. ASSUME NEW c \in Course, Buy(w, c) PROVE TypeOK'
    BY <2>1 DEF Buy
  <2>2. ASSUME NEW v \in videos, Play(w, v) PROVE TypeOK'
    BY <2>2 DEF Play
  <2>3. CASE CheckPurchase(w)
    BY <2>3 DEF CheckPurchase
  <2>4. CASE Sign(w)
    <3>1. video[w].key \in Keys
      BY <2>4 DEF Sign, WatchInv, Rows
    <3> QED
      BY <2>4, <3>1 DEF Sign
  <2> QED
    BY <1>10, <2>1, <2>2, <2>3, <2>4 DEF Watch
<1>11. CASE \E l \in links : LinkExpires(l)
  BY <1>11 DEF LinkExpires, upload
<1>12. CASE Crash
  BY <1>12, FaultType DEF Crash, Steps, Outcomes
<1>13. CASE UNCHANGED vars
  BY <1>13 DEF vars
<1> QED
  BY <1>1, <1>2, <1>3, <1>4, <1>5, <1>6, <1>7, <1>8, <1>9, <1>10, <1>11,
     <1>12, <1>13 DEF Next, Advance, Disturb

LEMMA SizeStep == TypeOK /\ SizeInv /\ [Next]_vars => SizeInv'
<1> SUFFICES ASSUME TypeOK, SizeInv, [Next]_vars PROVE SizeInv'
  OBVIOUS
<1> USE DEF given, progress, calm
<1>1. ASSUME NEW u \in Upload, Submit(u) PROVE SizeInv'
  <2>1. PICK n \in 0 .. MaxParts + 1 :
          /\ count' = [count EXCEPT ![u] = n]
          /\ \/ Goto(u, "initiate") /\ n \in 1 .. MaxParts
             \/ Goto(u, "done")
    BY <1>1 DEF Submit, ValidPartCount, Finish
  <2> QED
    BY <1>1, <2>1, PartsAssumption DEF Submit, Goto, SizeInv, TypeOK
<1>2. ASSUME NEW u \in Upload, PutPart(u) PROVE SizeInv'
  BY <1>2, PartsAssumption DEF PutPart, SizeInv, TypeOK
<1>3. ASSUME UNCHANGED <<given, progress>>,
             \A u \in Upload : pc'[u] \notin {"idle", "done"} =>
                                pc[u] \notin {"idle", "done"}
      PROVE  SizeInv'
  BY <1>3 DEF SizeInv
<1>4. ASSUME NEW u \in Upload, Initiate(u) \/ Merge(u) \/ Record(u)
      PROVE  SizeInv'
  BY <1>3, <1>4 DEF Initiate, Merge, Record, Finish, Goto, TypeOK
<1>5. ASSUME NEW u \in Upload, NEW c \in Course, Complete(u, c)
      PROVE  SizeInv'
  BY <1>3, <1>5 DEF Complete, Finish, Goto, TypeOK
<1>6. ASSUME NEW u \in Upload, Disturb(u) PROVE SizeInv'
  BY <1>3, <1>6
     DEF Disturb, InitiateFails, PutFails, MergeFails, RecordFails, Timeout,
         Finish, Goto, TypeOK
<1>7. CASE Crash
  BY <1>3, <1>7 DEF Crash, TypeOK
<1>8. CASE UNCHANGED upload
  BY <1>3, <1>8 DEF upload
<1>9. CASE UNCHANGED vars
  BY <1>3, <1>9 DEF vars
<1> QED
  BY <1>1, <1>2, <1>4, <1>5, <1>6, <1>7, <1>8, <1>9
     DEF Next, Advance, Watch, Buy, Play, CheckPurchase, Sign, LinkExpires

-----------------------------------------------------------------------------
\* Steps that leave the rows, the objects and the students alone, and that take
\* no upload past a check it has not passed.
LEMMA QuietStore ==
  ASSUME TypeOK, PlayInv, UNCHANGED <<course, stamp, objects, videos, playing>>,
         \A u \in Upload :
           /\ pc'[u] \in {"merge", "record"} =>
                path'[u] = path[u] /\ pc[u] \in {"merge", "record"}
           /\ pc'[u] = "record" => pc[u] = "record"
  PROVE  PlayInv'
BY DEF PlayInv, UploadInv, StoreInv, WatchInv, KeyOf, VideoKey, Purchased,
       playing

\* A merge puts an object under its upload's key, and takes none away.
LEMMA MergeKeeps ==
  ASSUME TypeOK, PlayInv, NEW u \in Upload, pc[u] = "merge", Merged(u),
         UNCHANGED <<course, stamp, path, videos, playing>>,
         NEW s \in {"record", "done"}, Goto(u, s)
  PROVE  PlayInv'
<1> DEFINE new == [by |-> u, parts |-> sent[u]]
<1>1. KeyOf(u) \in Keys /\ objects' = [objects EXCEPT ![KeyOf(u)] = new]
  BY KeyType DEF Merged
<1>2. new # None
  BY NoObjectAssumption DEF TypeOK
<1>3. \A k \in Keys : objects'[k] = IF k = KeyOf(u) THEN new ELSE objects[k]
  BY <1>1 DEF TypeOK
<1>4. \A t \in Upload : KeyOf(t)' = KeyOf(t) /\ KeyOf(t) \in Keys
  BY KeyType DEF KeyOf, VideoKey
<1>5. \A t \in Upload : pc'[t] = IF t = u THEN s ELSE pc[t]
  BY DEF Goto, TypeOK
<1> HIDE DEF new
<1>6. UploadInv'
  BY <1>2, <1>3, <1>4, <1>5 DEF PlayInv, UploadInv
<1>7. StoreInv'
  <2>1. \A k \in Keys : objects'[k] # None => KeyOf(objects'[k].by) = k
    <3>1. new.by = u
      BY DEF new
    <3>2. \A k \in Keys : objects[k] # None => objects[k].by \in Upload
      BY DEF TypeOK
    <3> QED
      BY <1>3, <1>4, <3>1, <3>2 DEF PlayInv, StoreInv
  <2>2. \A v \in videos : v.key \in Keys
    BY DEF TypeOK, Rows
  <2> QED
    BY <1>2, <1>3, <2>1, <2>2 DEF PlayInv, StoreInv, KeyOf, VideoKey
<1>8. WatchInv'
  <2>1. \A l \in links : l.key \in Keys
    BY DEF TypeOK
  <2> QED
    BY <1>2, <1>3, <2>1 DEF PlayInv, WatchInv, Purchased, playing
<1> QED
  BY <1>6, <1>7, <1>8 DEF PlayInv

\* A row is written after its object, for the course of its key.
LEMMA RecordKeeps ==
  ASSUME TypeOK, PlayInv, NEW u \in Upload, pc[u] = "record",
         videos' \in {videos, videos \union {Row(u)}},
         UNCHANGED <<course, stamp, path, objects, playing>>, Goto(u, "done")
  PROVE  PlayInv'
<1>1. /\ Row(u).key = KeyOf(u) /\ KeyOf(u) \in Keys
      /\ Row(u).course = KeyOf(u).course
      /\ objects[KeyOf(u)] # None
  BY KeyType DEF Row, PlayInv, UploadInv
<1>2. \A t \in Upload : KeyOf(t)' = KeyOf(t)
  BY DEF KeyOf, VideoKey
<1>3. \A t \in Upload : pc'[t] = IF t = u THEN "done" ELSE pc[t]
  BY DEF Goto, TypeOK
<1>4. UploadInv'
  BY <1>2, <1>3 DEF PlayInv, UploadInv
<1>5. StoreInv'
  BY <1>1, <1>2 DEF PlayInv, StoreInv, TypeOK, KeyOf, VideoKey
<1>6. WatchInv'
  BY DEF PlayInv, WatchInv, Purchased, playing
<1> QED
  BY <1>4, <1>5, <1>6 DEF PlayInv

\* A student's step.
LEMMA WatchKeeps ==
  ASSUME TypeOK, PlayInv, NEW w \in User, Watch(w)
  PROVE  PlayInv'
<1>1. UploadInv' /\ StoreInv'
  <2>1. UNCHANGED upload
    BY DEF Watch, Buy, Play, CheckPurchase, Sign
  <2> QED
    BY <2>1 DEF upload, given, PlayInv, UploadInv, StoreInv, KeyOf, VideoKey
<1>2. WatchInv'
  <2> USE DEF TypeOK, PlayInv, WatchInv, upload
  <2>1. ASSUME NEW c \in Course, Buy(w, c) PROVE WatchInv'
    BY <2>1 DEF Buy, Purchased
  <2>2. ASSUME NEW v \in videos, Play(w, v) PROVE WatchInv'
    BY <2>2 DEF Play, Purchased
  <2>3. CASE CheckPurchase(w)
    BY <2>3 DEF CheckPurchase, Purchased
  <2>4. CASE Sign(w)
    <3> DEFINE link == [user |-> w, key |-> video[w].key]
    <3>1. /\ links' = links \union {link} /\ videos' = videos
          /\ objects' = objects /\ bought' = bought /\ video' = video
          /\ asking' = [asking EXCEPT ![w] = "idle"]
      BY <2>4 DEF Sign
    <3>2. video[w] \in videos /\ Purchased(w, video[w].course)
      BY <2>4 DEF Sign
    <3>3. /\ objects[link.key] # None
          /\ Purchased(link.user, link.key.course)
      BY <3>2 DEF StoreInv
    <3> QED
      BY <3>1, <3>3 DEF Purchased
  <2> QED
    BY <2>1, <2>2, <2>3, <2>4 DEF Watch
<1> QED
  BY <1>1, <1>2 DEF PlayInv

LEMMA PlayStep == TypeOK /\ PlayInv /\ [Next]_vars => PlayInv'
<1> SUFFICES ASSUME TypeOK, PlayInv, [Next]_vars PROVE PlayInv'
  OBVIOUS
<1> USE DEF given, progress, calm
<1>1. ASSUME NEW u \in Upload, Submit(u) \/ Initiate(u) PROVE PlayInv'
  BY <1>1, QuietStore DEF Submit, Initiate, Finish, Goto, TypeOK
<1>2. ASSUME NEW u \in Upload, PutPart(u) PROVE PlayInv'
  BY <1>2, QuietStore DEF PutPart
<1>3. ASSUME NEW u \in Upload, NEW c \in Course, Complete(u, c)
      PROVE  PlayInv'
  <2>1. KeyOf(u).course = course[u]
    BY KeyType
  <2>2. /\ path' = [path EXCEPT ![u] = c] /\ pc[u] = "put"
        /\ UNCHANGED <<course, stamp, objects, videos, playing>>
        /\ \/ Goto(u, "merge") /\ c = course[u]
           \/ Goto(u, "done")
    BY <1>3, <2>1 DEF Complete, Finish
  <2>3. UploadInv'
    BY <2>2 DEF PlayInv, UploadInv, Goto, TypeOK, KeyOf, VideoKey
  <2> QED
    BY <2>2, <2>3
       DEF PlayInv, StoreInv, WatchInv, KeyOf, VideoKey, Purchased, playing
<1>4. ASSUME NEW u \in Upload, Merge(u) PROVE PlayInv'
  BY <1>4, MergeKeeps DEF Merge
<1>5. ASSUME NEW u \in Upload, Record(u) \/ RecordFails(u) PROVE PlayInv'
  BY <1>5, RecordKeeps DEF Record, RecordFails, Finish
<1>6. ASSUME NEW u \in Upload, InitiateFails(u) \/ PutFails(u) \/ Timeout(u)
      PROVE  PlayInv'
  BY <1>6, QuietStore
     DEF InitiateFails, PutFails, Timeout, Finish, Goto, TypeOK
<1>7. ASSUME NEW u \in Upload, MergeFails(u) PROVE PlayInv'
  <2>1. CASE Merged(u)
    BY <1>7, <2>1, MergeKeeps DEF MergeFails, Finish
  <2>2. CASE UNCHANGED <<session, objects>>
    BY <1>7, <2>2, QuietStore DEF MergeFails, Finish, Goto, TypeOK
  <2> QED
    BY <1>7, <2>1, <2>2 DEF MergeFails
<1>8. ASSUME NEW w \in User, Watch(w) PROVE PlayInv'
  BY <1>8, WatchKeeps
<1>9. CASE \E l \in links : LinkExpires(l)
  BY <1>9
     DEF LinkExpires, PlayInv, UploadInv, StoreInv, WatchInv, KeyOf, VideoKey,
         Purchased, upload
<1>10. CASE Crash
  BY <1>10
     DEF Crash, PlayInv, UploadInv, StoreInv, WatchInv, KeyOf, VideoKey,
         Purchased, Handling
<1>11. CASE UNCHANGED vars
  BY <1>11, QuietStore DEF vars, playing
<1> QED
  BY <1>1, <1>2, <1>3, <1>4, <1>5, <1>6, <1>7, <1>8, <1>9, <1>10, <1>11
     DEF Next, Advance, Disturb

LEMMA PlayInvariant == Spec => [](TypeOK /\ SizeInv /\ PlayInv)
<1>1. Init => TypeOK
  BY VideoMaxFaults, PartsAssumption DEF Init, TypeOK, Steps, Outcomes
<1>2. Init => SizeInv /\ PlayInv
  BY DEF Init, SizeInv, PlayInv, UploadInv, StoreInv, WatchInv
<1>3. TypeOK /\ SizeInv /\ PlayInv /\ [Next]_vars => TypeOK'
  BY TypeStep DEF PlayInv
<1> QED
  BY <1>1, <1>2, <1>3, SizeStep, PlayStep, PTL DEF Spec

\* Every variable keeps its type.
THEOREM TypeCorrect == Spec => []TypeOK
BY PlayInvariant, PTL

\* Nobody ever holds a link to what was uploaded for a course it has not bought.
THEOREM OnlyBuyersWatch == Spec => []PaidForWhatIsPlayed
<1>1. TypeOK /\ PlayInv => PaidForWhatIsPlayed
  <2> SUFFICES ASSUME TypeOK, PlayInv, NEW l \in links
               PROVE  /\ objects[l.key] # None
                      /\ [user |-> l.user,
                          course |-> course[objects[l.key].by]] \in bought
    BY DEF PaidForWhatIsPlayed
  <2>1. l.key \in Keys /\ objects[l.key] # None
    BY DEF TypeOK, PlayInv, WatchInv
  <2>2. objects[l.key].by \in Upload /\ KeyOf(objects[l.key].by) = l.key
    BY <2>1 DEF TypeOK, PlayInv, StoreInv
  <2>3. course[objects[l.key].by] = l.key.course
    BY <2>2, KeyType
  <2> QED
    BY <2>1, <2>3 DEF PlayInv, WatchInv, Purchased
<1> QED
  BY <1>1, PlayInvariant, PTL

-----------------------------------------------------------------------------
\* Only a whole file is merged, and what is kept or told of an upload is its own.
WholeInv ==
  /\ \A u \in Upload :
       /\ pc[u] \in {"merge", "record"} => sent[u] = count[u]
       /\ told[u] = "ok" => pc[u] = "done" /\ Row(u) \in videos
  /\ \A k \in Keys : objects[k] # None =>
       LET u == objects[k].by
       IN  objects[k].parts = count[u] /\ pc[u] # "idle"
  /\ \A v \in videos : v.key = KeyOf(v.by)

\* Steps of the students, and those that leave an upload's own state alone.
LEMMA QuietWhole ==
  ASSUME TypeOK, WholeInv, UNCHANGED <<given, path, sent, objects, videos>>,
         \A u \in Upload :
           /\ pc'[u] \in {"merge", "record"} => pc[u] \in {"merge", "record"}
           /\ told'[u] = "ok" => told[u] = "ok"
           /\ pc[u] = "done" => pc'[u] = "done"
           /\ pc'[u] = "idle" => pc[u] = "idle"
  PROVE  WholeInv'
<1>1. \A k \in Keys : objects[k] # None => objects[k].by \in Upload
  BY DEF TypeOK
<1> QED
  BY <1>1 DEF WholeInv, Row, KeyOf, VideoKey, given

\* The merge of a whole file.
LEMMA MergedWhole ==
  ASSUME TypeOK, WholeInv, NEW u \in Upload, pc[u] = "merge", Merged(u),
         UNCHANGED <<given, path, sent, videos>>,
         NEW s \in {"record", "done"}, Goto(u, s),
         \A t \in Upload : told'[t] = "ok" => told[t] = "ok"
  PROVE  WholeInv'
<1>1. \A t \in Upload : pc'[t] = IF t = u THEN s ELSE pc[t]
  BY DEF Goto, TypeOK
<1>2. \A k \in Keys : objects'[k] = IF k = KeyOf(u)
                                     THEN [by |-> u, parts |-> sent[u]] ELSE objects[k]
  BY KeyType DEF Merged, TypeOK
<1>3. sent[u] = count[u]
  BY DEF WholeInv
<1>4. ASSUME NEW k \in Keys, objects'[k] # None
      PROVE  objects'[k].parts = count'[objects'[k].by] /\ pc'[objects'[k].by] # "idle"
  <2>1. CASE k = KeyOf(u)
    BY <1>1, <1>2, <1>3, <2>1 DEF given
  <2>2. CASE k # KeyOf(u)
    <3>1. objects'[k] = objects[k] /\ objects[k].by \in Upload
      BY <1>2, <1>4, <2>2 DEF TypeOK
    <3> QED
      BY <1>1, <1>4, <3>1 DEF WholeInv, given
  <2> QED
    BY <2>1, <2>2
<1>5. \A t \in Upload : KeyOf(t)' = KeyOf(t) /\ Row(t)' = Row(t)
  BY DEF Row, KeyOf, VideoKey, given
<1>6. \A t \in Upload : pc'[t] \in {"merge", "record"} => sent'[t] = count'[t]
  BY <1>1, <1>3 DEF WholeInv, given
<1>7. \A t \in Upload : told'[t] = "ok" => pc'[t] = "done" /\ Row(t)' \in videos'
  BY <1>1, <1>5 DEF WholeInv
<1>8. \A v \in videos' : v.key = KeyOf(v.by)'
  BY DEF WholeInv, KeyOf, VideoKey, given
<1> QED
  BY <1>4, <1>6, <1>7, <1>8 DEF WholeInv

\* The row of an upload names its key, and is there before the page is told.
LEMMA RecordedWhole ==
  ASSUME TypeOK, WholeInv, NEW u \in Upload, pc[u] = "record",
         videos \subseteq videos', videos' \subseteq videos \union {Row(u)},
         UNCHANGED <<given, path, sent, objects>>, Goto(u, "done"),
         \A t \in Upload :
           told'[t] = "ok" => told[t] = "ok" \/ (t = u /\ Row(u) \in videos')
  PROVE  WholeInv'
<1>1. \A t \in Upload : pc'[t] = IF t = u THEN "done" ELSE pc[t]
  BY DEF Goto, TypeOK
<1>2. \A t \in Upload : KeyOf(t)' = KeyOf(t) /\ Row(t)' = Row(t)
  BY DEF Row, KeyOf, VideoKey, given
<1>3. \A v \in videos' : v.key = KeyOf(v.by)'
  <2>1. Row(u).by = u /\ Row(u).key = KeyOf(u)
    BY DEF Row
  <2> QED
    BY <2>1 DEF WholeInv, KeyOf, VideoKey, given
<1>4. \A k \in Keys : objects[k] # None => objects[k].by \in Upload
  BY DEF TypeOK
<1> QED
  BY <1>1, <1>2, <1>3, <1>4 DEF WholeInv, given

LEMMA WholeStep == TypeOK /\ WholeInv /\ [Next]_vars => WholeInv'
<1> SUFFICES ASSUME TypeOK, WholeInv, [Next]_vars PROVE WholeInv'
  OBVIOUS
<1> USE DEF given, progress, calm
<1>1. ASSUME NEW u \in Upload, Submit(u) PROVE WholeInv'
  <2>1. /\ pc[u] = "idle" /\ told[u] # "ok"
        /\ Goto(u, "initiate") \/ Goto(u, "done")
        /\ UNCHANGED <<course, stamp, path, sent, objects, videos>>
    BY <1>1 DEF Submit, Finish, WholeInv
  <2>2. /\ \A t \in Upload \ {u} : pc'[t] = pc[t] /\ count'[t] = count[t]
        /\ \A t \in Upload : told'[t] = "ok" => told[t] = "ok"
    BY <1>1 DEF Submit, Finish, Goto, TypeOK
  <2>3. /\ pc'[u] \in {"initiate", "done"}
        /\ \A t : KeyOf(t)' = KeyOf(t) /\ Row(t)' = Row(t)
    BY <2>1 DEF Goto, TypeOK, Row, KeyOf, VideoKey
  <2>4. \A k \in Keys : objects[k] # None => objects[k].by \in Upload \ {u}
    BY <2>1 DEF TypeOK, WholeInv
  <2> QED
    BY <2>1, <2>2, <2>3, <2>4 DEF WholeInv
<1>2. ASSUME NEW u \in Upload, Initiate(u) PROVE WholeInv'
  BY <1>2, QuietWhole DEF Initiate, Goto, TypeOK
<1>13. ASSUME NEW u \in Upload, PutPart(u) PROVE WholeInv'
  BY <1>13 DEF PutPart, WholeInv, Row, KeyOf, VideoKey, TypeOK
<1>3. ASSUME NEW u \in Upload, NEW c \in Course, Complete(u, c)
      PROVE  WholeInv'
  <2>1. /\ path' = [path EXCEPT ![u] = c] /\ pc[u] = "put" /\ sent[u] = count[u]
        /\ UNCHANGED <<given, sent, objects, videos>>
        /\ Goto(u, "merge") \/ Goto(u, "done")
        /\ \A t \in Upload : told'[t] = "ok" => told[t] = "ok"
    BY <1>3 DEF Complete, Finish, TypeOK
  <2>2. told[u] # "ok"
    BY <2>1 DEF WholeInv
  <2>3. \A t \in Upload : /\ KeyOf(t)' = KeyOf(t)
                          /\ t # u => Row(t)' = Row(t) /\ pc'[t] = pc[t]
    BY <2>1 DEF Row, KeyOf, VideoKey, Goto, TypeOK
  <2>4. /\ pc'[u] \in {"merge", "done"} /\ told'[u] # "ok"
        /\ \A k \in Keys : objects[k] # None => objects[k].by \in Upload
    BY <2>1, <2>2 DEF Goto, TypeOK
  <2> QED
    BY <2>1, <2>2, <2>3, <2>4 DEF WholeInv, KeyOf, VideoKey
<1>4. ASSUME NEW u \in Upload, Merge(u) PROVE WholeInv'
  BY <1>4, MergedWhole DEF Merge
<1>5. ASSUME NEW u \in Upload, Record(u) PROVE WholeInv'
  BY <1>5, RecordedWhole DEF Record, Finish, TypeOK
<1>6. ASSUME NEW u \in Upload, RecordFails(u) PROVE WholeInv'
  BY <1>6, RecordedWhole DEF RecordFails, Finish, TypeOK
<1>7. ASSUME NEW u \in Upload, InitiateFails(u) \/ PutFails(u) \/ Timeout(u)
      PROVE  WholeInv'
  BY <1>7, QuietWhole
     DEF InitiateFails, PutFails, Timeout, Finish, Goto, TypeOK
<1>8. ASSUME NEW u \in Upload, MergeFails(u) PROVE WholeInv'
  <2>1. \A t \in Upload : told'[t] = "ok" => told[t] = "ok"
    BY <1>8 DEF MergeFails, Finish, TypeOK
  <2>2. CASE Merged(u)
    BY <1>8, <2>1, <2>2, MergedWhole DEF MergeFails, Finish
  <2>3. CASE UNCHANGED <<session, objects>>
    BY <1>8, <2>3, QuietWhole DEF MergeFails, Finish, Goto, TypeOK
  <2> QED
    BY <1>8, <2>2, <2>3 DEF MergeFails
<1>9. ASSUME NEW w \in User, Watch(w) PROVE WholeInv'
  BY <1>9, QuietWhole DEF Watch, Buy, Play, CheckPurchase, Sign, upload
<1>10. CASE \E l \in links : LinkExpires(l)
  BY <1>10, QuietWhole DEF LinkExpires, upload
<1>11. CASE Crash
  BY <1>11, QuietWhole DEF Crash, Handling
<1>12. CASE UNCHANGED vars
  BY <1>12, QuietWhole DEF vars
<1> QED
  BY <1>1, <1>2, <1>3, <1>4, <1>5, <1>6, <1>7, <1>8, <1>9, <1>10, <1>11, <1>12,
     <1>13
     DEF Next, Advance, Disturb

LEMMA WholeInvariant == Spec => []WholeInv
<1>1. Init => WholeInv
  BY DEF Init, WholeInv
<1> QED
  BY <1>1, WholeStep, TypeCorrect, PTL DEF Spec

\* The object of a listed video is always there, with all its parts.
THEOREM RowsArePlayable == Spec => []RecordsPlayable
<1>1. TypeOK /\ PlayInv /\ WholeInv => RecordsPlayable
  BY DEF TypeOK, Rows, PlayInv, StoreInv, WholeInv, RecordsPlayable
<1> QED
  BY <1>1, PlayInvariant, WholeInvariant, PTL

\* The page says that an upload succeeded only if its row is there.
THEOREM ToldIsRecorded == Spec => []SuccessIsRecorded
<1>1. WholeInv => SuccessIsRecorded
  BY DEF WholeInv, SuccessIsRecorded
<1> QED
  BY <1>1, WholeInvariant, PTL

\* Only an upload whose key is the same can replace what another has sent.
THEOREM OwnContent == Spec => []OwnContentUnlessCollision
<1>1. TypeOK /\ PlayInv /\ WholeInv => OwnContentUnlessCollision
  <2> SUFFICES ASSUME TypeOK, PlayInv, WholeInv, NEW v \in videos,
                      objects[v.key].by # v.by
               PROVE  \E u \in Upload \ {v.by} :
                        course[u] = course[v.by] /\ stamp[u] = stamp[v.by]
    BY DEF OwnContentUnlessCollision
  <2> DEFINE u == objects[v.key].by
  <2>1. v.key \in Keys /\ v.by \in Upload /\ objects[v.key] # None
    BY DEF TypeOK, Rows, PlayInv, StoreInv
  <2>2. u \in Upload /\ KeyOf(u) = v.key /\ KeyOf(v.by) = v.key
    BY <2>1 DEF TypeOK, PlayInv, StoreInv, WholeInv
  <2>3. course[u] = course[v.by] /\ stamp[u] = stamp[v.by]
    BY <2>2 DEF KeyOf, VideoKey
  <2> QED
    BY <2>2, <2>3
<1> QED
  BY <1>1, PlayInvariant, WholeInvariant, PTL

-----------------------------------------------------------------------------
\* Where an upload is, and what OSS and the administrator know of it, as long as
\* no fault has hit it.
Clean(u) ==
  /\ pc[u] # "done" => told[u] = "none"
  /\ pc[u] \in {"idle", "initiate"} => session[u] = "none"
  /\ pc[u] \in {"put", "merge"} => session[u] = "open"
  /\ pc[u] = "record" => session[u] = "merged"
  /\ pc[u] = "done" =>
       \/ told[u] = "ok" /\ session[u] = "merged"
       \/ told[u] = "10001" /\ session[u] = "none" /\ count[u] \notin 1 .. MaxParts
       \/ /\ told[u] = "10001" /\ session[u] = "open"
          /\ path[u] # course[u] \/ etags[u] < count[u]

CleanInv == \A u \in Upload \ disturbed : Clean(u)

\* A step, or a fault, of one upload leaves the others as clean as they were.
LEMMA OthersClean ==
  ASSUME CleanInv, NEW u \in Upload, disturbed \subseteq disturbed',
         u \in disturbed' \/ Clean(u)',
         \A t \in Upload \ {u} :
           /\ pc'[t] = pc[t] /\ told'[t] = told[t] /\ session'[t] = session[t]
           /\ path'[t] = path[t] /\ course'[t] = course[t]
           /\ count'[t] = count[t] /\ etags'[t] = etags[t]
  PROVE  CleanInv'
BY DEF CleanInv, Clean

LEMMA CleanStep == TypeOK /\ SizeInv /\ CleanInv /\ [Next]_vars => CleanInv'
<1> SUFFICES ASSUME TypeOK, SizeInv, CleanInv, [Next]_vars PROVE CleanInv'
  OBVIOUS
<1> USE DEF given, progress, calm
<1>1. ASSUME NEW u \in Upload, Submit(u) PROVE CleanInv'
  <2>1. PICK n \in 0 .. MaxParts + 1 :
          /\ count' = [count EXCEPT ![u] = n]
          /\ \/ Goto(u, "initiate") /\ UNCHANGED told
             \/ n \notin 1 .. MaxParts /\ Finish(u, "10001")
    BY <1>1 DEF Submit, ValidPartCount
  <2>2. /\ pc[u] = "idle" /\ count'[u] = n
        /\ UNCHANGED <<course, path, etags, session, disturbed>>
    BY <1>1, <2>1 DEF Submit, TypeOK
  <2>3. u \in disturbed' \/ Clean(u)'
    BY <2>1, <2>2 DEF CleanInv, Clean, Finish, Goto, TypeOK
  <2> QED
    BY <2>1, <2>2, <2>3, OthersClean DEF Finish, Goto, TypeOK
<1>2. ASSUME NEW u \in Upload, Initiate(u) PROVE CleanInv'
  <2>1. u \in disturbed' \/ Clean(u)'
    BY <1>2 DEF Initiate, Goto, CleanInv, Clean, TypeOK
  <2> QED
    BY <1>2, <2>1, OthersClean DEF Initiate, Goto, TypeOK
<1>3. ASSUME NEW u \in Upload, PutPart(u) PROVE CleanInv'
  <2>1. u \in disturbed' \/ Clean(u)'
    BY <1>3 DEF PutPart, CleanInv, Clean, TypeOK
  <2> QED
    BY <1>3, <2>1, OthersClean DEF PutPart, TypeOK
<1>4. ASSUME NEW u \in Upload, NEW c \in Course, Complete(u, c)
      PROVE  CleanInv'
  <2>1. /\ pc[u] = "put" /\ path'[u] = c /\ sent[u] = count[u]
        /\ \/ Goto(u, "merge") /\ UNCHANGED told
           \/ /\ Finish(u, "10001")
              /\ c # course[u] \/ etags[u] # sent[u]
        /\ UNCHANGED <<given, progress, session, disturbed>>
    BY <1>4, KeyType DEF Complete, TypeOK
  <2>2. etags[u] # sent[u] => etags[u] < count[u]
    BY <2>1 DEF SizeInv, TypeOK
  <2>3. u \in disturbed' \/ Clean(u)'
    BY <2>1, <2>2 DEF CleanInv, Clean, Finish, Goto, TypeOK
  <2> QED
    BY <1>4, <2>1, <2>3, OthersClean DEF Complete, Finish, Goto, TypeOK
<1>5. ASSUME NEW u \in Upload, Merge(u) PROVE CleanInv'
  <2>1. u \in disturbed' \/ Clean(u)'
    BY <1>5 DEF Merge, Merged, Goto, CleanInv, Clean, TypeOK
  <2> QED
    BY <1>5, <2>1, OthersClean DEF Merge, Merged, Goto, TypeOK
<1>6. ASSUME NEW u \in Upload, Record(u) PROVE CleanInv'
  <2>1. u \in disturbed' \/ Clean(u)'
    BY <1>6 DEF Record, Finish, Goto, CleanInv, Clean, TypeOK
  <2> QED
    BY <1>6, <2>1, OthersClean DEF Record, Finish, Goto, TypeOK
<1>7. ASSUME NEW u \in Upload, Disturb(u) PROVE CleanInv'
  <2>1. FaultOf({u})
    BY <1>7
       DEF Disturb, InitiateFails, PutFails, MergeFails, RecordFails, Timeout
  <2>2. disturbed' = disturbed \union {u}
    BY <2>1 DEF FaultOf
  <2> QED
    BY <1>7, <2>2, OthersClean
       DEF Disturb, InitiateFails, PutFails, MergeFails, RecordFails, Timeout,
           Merged, Finish, Goto, TypeOK
<1>8. CASE Crash
  <2>1. ASSUME NEW t \in Upload \ disturbed'
        PROVE  t \notin disturbed /\ pc'[t] = pc[t] /\ told'[t] = told[t]
    BY <1>8, <2>1 DEF Crash, FaultOf
  <2>2. UNCHANGED <<course, count, path, etags, session>>
    BY <1>8 DEF Crash
  <2> QED
    BY <2>1, <2>2 DEF CleanInv, Clean
<1>9. CASE UNCHANGED <<upload, calm>>
  BY <1>9 DEF upload, CleanInv, Clean
<1>10. CASE UNCHANGED vars
  BY <1>10 DEF vars, CleanInv, Clean
<1> QED
  BY <1>1, <1>2, <1>3, <1>4, <1>5, <1>6, <1>7, <1>8, <1>9, <1>10
     DEF Next, Advance, Watch, Buy, Play, CheckPurchase, Sign, LinkExpires

\* Unless a fault has hit the upload itself, no object is without its row, and
\* an error is a refusal: of a file of the wrong size, before OSS has heard of
\* it, or of another course or a missing ETag, when the upload stays open.
THEOREM LeftoversAreExplained == Spec => []LeftoversExplained
<1>1. Init => CleanInv
  BY DEF Init, CleanInv, Clean
<1>2. ASSUME TypeOK, WholeInv, CleanInv PROVE LeftoversExplained
  <2> SUFFICES ASSUME NEW u \in Upload \ disturbed
               PROVE  /\ session[u] = "merged" =>
                           pc[u] = "record" \/ Row(u) \in videos
                      /\ pc[u] = "done" =>
                           \/ told[u] = "ok" /\ session[u] = "merged"
                           \/ /\ told[u] = "10001" /\ session[u] = "none"
                              /\ count[u] \notin 1 .. MaxParts
                           \/ /\ told[u] = "10001" /\ session[u] = "open"
                              /\ path[u] # course[u] \/ etags[u] < count[u]
    BY DEF LeftoversExplained
  <2>1. Clean(u) /\ pc[u] \in Steps
    BY <1>2 DEF CleanInv, TypeOK
  <2>2. told[u] = "ok" => Row(u) \in videos
    BY <1>2 DEF WholeInv
  <2> QED
    BY <2>1, <2>2 DEF Clean, Steps
<1> QED
  BY <1>1, <1>2, CleanStep, PlayInvariant, WholeInvariant, PTL DEF Spec

=============================================================================
