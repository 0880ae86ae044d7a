----------------------------- MODULE VideoService -----------------------------
(***************************************************************************)
(* Uploading a video and playing it.  The administrator's page cuts the    *)
(* file into parts, asks VideoServiceServer.InitMultipartUpload for an     *)
(* object key, an upload id and signed URLs, PUTs the parts to OSS one     *)
(* after the other, and asks CompleteMultipartUpload to merge them and to  *)
(* write the video's row.  GetVideoPlayURL finds the row, checks that the  *)
(* user bought the row's course and signs a URL for the row's object.      *)
(*                                                                         *)
(* Nothing ties the steps of an upload together: OSS, MySQL and the page   *)
(* each keep a part of its state, and any of them may fail on its own.     *)
(***************************************************************************)
EXTENDS Naturals

CONSTANTS
  Upload,      \* submissions of the upload form
  User,        \* students
  Course,
  Stamp,       \* what tells two keys of a course apart: millisecond and name
  MaxParts,    \* parts of the largest file (InitMultipartUpload takes 1000)
  None,        \* no object
  MaxFaults    \* bound on faults, timeouts and crashes in a behaviour

ASSUME PartsAssumption == MaxParts \in Nat \ {0}
ASSUME VideoMaxFaults == MaxFaults \in Nat
ASSUME NoObjectAssumption == None \notin [by : Upload, parts : 0 .. MaxParts]

VARIABLES
  pc,        \* where each upload is, in the page or in the handler
  course,    \* the course it is initialised for
  stamp,     \* the moment and name its key is made of
  count,     \* parts the page has cut the file into
  path,      \* the course in the path of its CompleteUpload request
  sent,      \* parts the page has PUT
  etags,     \* those of them whose ETag it could read
  session,   \* OSS: its multipart upload
  objects,   \* OSS: key -> the merged object
  videos,    \* MySQL: rows of course_videos
  told,      \* what the administrator is told
  bought,    \* MySQL: rows of orders, written by OrderService
  asking,    \* where each student's GetVideoPlayURL is
  video,     \* the row it has read
  links,     \* signed URLs handed out
  faults,    \* number of faults so far
  disturbed  \* history: the uploads that one of them has hit

vars == <<pc, course, stamp, count, path, sent, etags, session, objects, videos,
          told, bought, asking, video, links, faults, disturbed>>

given == <<course, stamp, count>>
progress == <<sent, etags>>
upload == <<pc, given, path, progress, session, objects, videos, told>>
playing == <<bought, asking, video, links>>
calm == <<faults, disturbed>>

\* Mutant: nothing but the course goes into the key.
OneKeyPerCourse(c, s) == [course |-> c, stamp |-> CHOOSE t \in Stamp : TRUE]

\* GenerateVideoKey: videos/<course>/<millisecond>_<name>.
VideoKey(c, s) == [course |-> c, stamp |-> s]

KeyOf(u) == VideoKey(course[u], stamp[u])

Keys == [course : Course, stamp : Stamp]

\* A row, with the upload that wrote it (which the table does not record).
Rows == [course : Course, key : Keys, by : Upload]

Init ==
  /\ pc = [u \in Upload |-> "idle"]
  /\ course \in [Upload -> Course]
  /\ stamp \in [Upload -> Stamp]
  /\ count = [u \in Upload |-> 0]
  /\ path = course
  /\ sent = [u \in Upload |-> 0]
  /\ etags = [u \in Upload |-> 0]
  /\ session = [u \in Upload |-> "none"]
  /\ objects = [k \in Keys |-> None]
  /\ videos = {}
  /\ told = [u \in Upload |-> "none"]
  /\ bought = {}
  /\ asking = [w \in User |-> "idle"]
  /\ video \in [User -> {None}]
  /\ links = {}
  /\ faults = 0
  /\ disturbed = {}

-----------------------------------------------------------------------------
Goto(u, s) == pc' = [pc EXCEPT ![u] = s]

\* A fault that hits the uploads us.
FaultOf(us) ==
  /\ faults < MaxFaults
  /\ faults' = faults + 1
  /\ disturbed' = disturbed \union us

\* The page shows the outcome, unless it has given up on the request before.
Finish(u, outcome) ==
  /\ Goto(u, "done")
  /\ told' = [told EXCEPT ![u] = IF @ = "none" THEN outcome ELSE @]

-----------------------------------------------------------------------------
(* InitMultipartUpload. *)

ValidPartCount(n) == n \in 1 .. MaxParts

\* The form is submitted, with a file of any size: the page does not bound it.
\* A file that is empty or has too many parts is refused before anything
\* happens.  (So is an empty title or name, which the form does not send.)
Submit(u) ==
  /\ pc[u] = "idle"
  /\ \E n \in 0 .. MaxParts + 1 :
       /\ count' = [count EXCEPT ![u] = n]
       /\ IF ValidPartCount(n)
          THEN Goto(u, "initiate") /\ UNCHANGED told
          ELSE Finish(u, "10001")
  /\ UNCHANGED <<course, stamp, path, progress, session, objects, videos,
                 playing, calm>>

\* OSS opens a multipart upload and every part gets a signed URL.  A page that
\* is no longer there leaves the multipart upload open.
Initiate(u) ==
  /\ pc[u] = "initiate"
  /\ session' = [session EXCEPT ![u] = "open"]
  /\ Goto(u, IF told[u] = "none" THEN "put" ELSE "done")
  /\ UNCHANGED <<given, path, progress, objects, videos, told, playing, calm>>

\* OSS fails, or its answer is lost, or a URL cannot be signed: ErrOSS.  What
\* has been opened is not aborted.
InitiateFails(u) ==
  /\ pc[u] = "initiate"
  /\ FaultOf({u})
  /\ session' \in {session, [session EXCEPT ![u] = "open"]}
  /\ Finish(u, "50002")
  /\ UNCHANGED <<given, path, progress, objects, videos, playing>>

-----------------------------------------------------------------------------
(* The page: the parts in order, then CompleteUpload. *)

\* The ETag is empty if OSS does not expose the header to the page.
PutPart(u) ==
  /\ pc[u] = "put"
  /\ sent[u] < count[u]
  /\ sent' = [sent EXCEPT ![u] = @ + 1]
  /\ etags' \in {etags, [etags EXCEPT ![u] = @ + 1]}
  /\ UNCHANGED <<pc, given, path, session, objects, videos, told,
                 playing, calm>>

\* A PUT fails (the URLs live 3600s), or the page is closed: the rest of the
\* file and the multipart upload are left behind.
PutFails(u) ==
  /\ pc[u] = "put"
  /\ FaultOf({u})
  /\ Finish(u, "failed")
  /\ UNCHANGED <<given, path, progress, session, objects, videos, playing>>

\* Mutant: the key's prefix is not compared with the course.
CompleteUnchecked(u, c) ==
  /\ pc[u] = "put"
  /\ sent[u] = count[u]
  /\ path' = [path EXCEPT ![u] = c]
  /\ IF etags[u] = sent[u]
     THEN Goto(u, "merge") /\ UNCHANGED told
     ELSE Finish(u, "10001")
  /\ UNCHANGED <<given, progress, session, objects, videos, playing, calm>>

\* CompleteMultipartUpload for the course in the path: the page sends the
\* course it initialised with, another client may send any.  The key must be of
\* that course and every part must have its ETag; a refusal leaves the
\* multipart upload open.
Complete(u, c) ==
  /\ pc[u] = "put"
  /\ sent[u] = count[u]
  /\ path' = [path EXCEPT ![u] = c]
  /\ IF KeyOf(u).course = c /\ etags[u] = sent[u]
     THEN Goto(u, "merge") /\ UNCHANGED told
     ELSE Finish(u, "10001")
  /\ UNCHANGED <<given, progress, session, objects, videos, playing, calm>>

-----------------------------------------------------------------------------
(* CompleteMultipartUpload, past its checks. *)

\* OSS merges the parts into the object, replacing what the key held.
Merged(u) ==
  /\ session' = [session EXCEPT ![u] = "merged"]
  /\ objects' = [objects EXCEPT ![KeyOf(u)] = [by |-> u, parts |-> sent[u]]]

Merge(u) ==
  /\ pc[u] = "merge"
  /\ Merged(u)
  /\ Goto(u, "record")
  /\ UNCHANGED <<given, path, progress, videos, told, playing, calm>>

\* Mutant: an error of OSS is only logged.
MergeErrorIgnored(u) ==
  /\ pc[u] = "merge"
  /\ FaultOf({u})
  /\ Goto(u, "record")
  /\ UNCHANGED <<given, path, progress, session, objects, videos, told,
                 playing>>

\* OSS fails, or merges and its answer is lost: ErrOSS, and no row.
MergeFails(u) ==
  /\ pc[u] = "merge"
  /\ FaultOf({u})
  /\ Merged(u) \/ UNCHANGED <<session, objects>>
  /\ Finish(u, "50002")
  /\ UNCHANGED <<given, path, progress, videos, playing>>

Row(u) == [course |-> path[u], key |-> KeyOf(u), by |-> u]

\* Mutant: idx_course_id is a unique index.
RecordOnePerCourse(u) ==
  /\ pc[u] = "record"
  /\ IF \E v \in videos : v.course = path[u]
     THEN UNCHANGED videos /\ Finish(u, "50001")
     ELSE videos' = videos \union {Row(u)} /\ Finish(u, "ok")
  /\ UNCHANGED <<given, path, progress, session, objects, playing, calm>>

Record(u) ==
  /\ pc[u] = "record"
  /\ videos' = videos \union {Row(u)}
  /\ Finish(u, "ok")
  /\ UNCHANGED <<given, path, progress, session, objects, playing, calm>>

\* Mutant: an error of the database is only logged.
RecordErrorIgnored(u) ==
  /\ pc[u] = "record"
  /\ FaultOf({u})
  /\ Finish(u, "ok")
  /\ UNCHANGED <<given, path, progress, session, objects, videos, playing>>

\* MySQL fails, or commits and its answer is lost: ErrInternal.  The object
\* stays in OSS.
RecordFails(u) ==
  /\ pc[u] = "record"
  /\ FaultOf({u})
  /\ videos' \in {videos, videos \union {Row(u)}}
  /\ Finish(u, "50001")
  /\ UNCHANGED <<given, path, progress, session, objects, playing>>

-----------------------------------------------------------------------------
(* GetVideoPlayURL.  An error on the way returns and changes nothing.      *)

\* CreateOrder commits a row.
Buy(w, c) ==
  /\ bought' = bought \union {[user |-> w, course |-> c]}
  /\ UNCHANGED <<upload, asking, video, links, calm>>

Play(w, v) ==
  /\ asking[w] = "idle"
  /\ v \in videos
  /\ asking' = [asking EXCEPT ![w] = "found"]
  /\ video' = [video EXCEPT ![w] = v]
  /\ UNCHANGED <<upload, bought, links, calm>>

\* Mutant: a student who has bought any course may watch.
AnyPurchase(w, c) == \E b \in bought : b.user = w

Purchased(w, c) == [user |-> w, course |-> c] \in bought

CheckPurchase(w) ==
  /\ asking[w] = "found"
  /\ asking' = [asking EXCEPT ![w] = IF Purchased(w, video[w].course)
                                     THEN "entitled" ELSE "idle"]
  /\ UNCHANGED <<upload, bought, video, links, calm>>

Sign(w) ==
  /\ asking[w] = "entitled"
  /\ links' = links \union {[user |-> w, key |-> video[w].key]}
  /\ asking' = [asking EXCEPT ![w] = "idle"]
  /\ UNCHANGED <<upload, bought, video, calm>>

\* 3600 seconds after it was signed.
LinkExpires(l) ==
  /\ links' = links \ {l}
  /\ UNCHANGED <<upload, bought, asking, video, calm>>

-----------------------------------------------------------------------------
(* The environment. *)

Handling(u) == pc[u] \in {"initiate", "merge", "record"}

\* The gateway's deadline (10s to initialise, 30s to complete): the page shows
\* an error, the handler, whose calls take no context, goes on.
Timeout(u) ==
  /\ Handling(u)
  /\ told[u] = "none"
  /\ FaultOf({u})
  /\ told' = [told EXCEPT ![u] = "50001"]
  /\ UNCHANGED <<pc, given, path, progress, session, objects, videos,
                 playing>>

\* logic-server dies and is restarted.
Crash ==
  /\ FaultOf({u \in Upload : Handling(u)})
  /\ pc' = [u \in Upload |-> IF Handling(u) THEN "done" ELSE pc[u]]
  /\ told' = [u \in Upload |->
                IF Handling(u) /\ told[u] = "none" THEN "50001" ELSE told[u]]
  /\ asking' = [w \in User |-> "idle"]
  /\ UNCHANGED <<given, path, progress, session, objects, videos, bought,
                 video, links>>

-----------------------------------------------------------------------------
Advance(u) ==
  \/ Submit(u) \/ Initiate(u) \/ PutPart(u)
  \/ \E c \in Course : Complete(u, c)
  \/ Merge(u) \/ Record(u)

Disturb(u) ==
  InitiateFails(u) \/ PutFails(u) \/ MergeFails(u) \/ RecordFails(u) \/ Timeout(u)

Watch(w) ==
  \/ \E c \in Course : Buy(w, c)
  \/ \E v \in videos : Play(w, v)
  \/ CheckPurchase(w)
  \/ Sign(w)

Next ==
  \/ \E u \in Upload : Advance(u) \/ Disturb(u)
  \/ \E w \in User : Watch(w)
  \/ \E l \in links : LinkExpires(l)
  \/ Crash

Spec == Init /\ [][Next]_vars

-----------------------------------------------------------------------------
Steps == {"idle", "initiate", "put", "merge", "record", "done"}

Outcomes == {"none", "ok", "failed", "10001", "50001", "50002"}

\* The variables have their types.
TypeOK ==
  /\ pc \in [Upload -> Steps]
  /\ course \in [Upload -> Course]
  /\ stamp \in [Upload -> Stamp]
  /\ count \in [Upload -> 0 .. MaxParts + 1]
  /\ path \in [Upload -> Course]
  /\ sent \in [Upload -> 0 .. MaxParts]
  /\ etags \in [Upload -> 0 .. MaxParts]
  /\ session \in [Upload -> {"none", "open", "merged"}]
  /\ objects \in [Keys -> [by : Upload, parts : 0 .. MaxParts] \union {None}]
  /\ videos \subseteq Rows
  /\ told \in [Upload -> Outcomes]
  /\ bought \subseteq [user : User, course : Course]
  /\ asking \in [User -> {"idle", "found", "entitled"}]
  /\ video \in [User -> Rows \union {None}]
  /\ links \subseteq [user : User, key : Keys]
  /\ faults \in 0 .. MaxFaults
  /\ disturbed \subseteq Upload

\* A row never points at nothing: whichever step of CompleteMultipartUpload
\* fails, is cut off by a deadline or dies, the object of a listed video is in
\* OSS, with all the parts its upload was initialised for.
RecordsPlayable ==
  \A v \in videos :
    LET object == objects[v.key]
    IN  object # None /\ object.parts = count[object.by]

\* A row's object holds what its own upload sent, unless another upload for the
\* same course, of a file of the same name, began in the same millisecond.
OwnContentUnlessCollision ==
  \A v \in videos :
    \/ objects[v.key].by = v.by
    \/ \E u \in Upload \ {v.by} :
         course[u] = course[v.by] /\ stamp[u] = stamp[v.by]

\* A playable link lets its holder see only what was uploaded for a course the
\* holder has bought: the check of the key's prefix in CompleteMultipartUpload
\* and the check of the purchase in GetVideoPlayURL close the gap together.
PaidForWhatIsPlayed ==
  \A l \in links :
    LET content == objects[l.key]
    IN  /\ content # None
        /\ [user |-> l.user, course |-> course[content.by]] \in bought

\* The page says the upload succeeded only if the video is there.
SuccessIsRecorded == \A u \in Upload : told[u] = "ok" => Row(u) \in videos

\* What an upload leaves behind, and what its administrator is told, is
\* explained by its own history, whatever happens to the other uploads at the
\* same time.  Unless a fault has hit it, it has no object without a row, and it
\* ends with success, or refused before OSS has heard of it because of the size
\* of its file, or refused on completion (another course, or an ETag the page
\* could not read), when its multipart upload stays open and nobody ends it.
LeftoversExplained ==
  \A u \in Upload \ disturbed :
    /\ session[u] = "merged" => pc[u] = "record" \/ Row(u) \in videos
    /\ pc[u] = "done" =>
         \/ told[u] = "ok" /\ session[u] = "merged"
         \/ /\ told[u] = "10001" /\ session[u] = "none"
            /\ count[u] \notin 1 .. MaxParts
         \/ /\ told[u] = "10001" /\ session[u] = "open"
            /\ path[u] # course[u] \/ etags[u] < count[u]

=============================================================================
