----------------------------- MODULE StudentPages -----------------------------
(***************************************************************************)
(* One tab of the browser: the router and its pages (App.tsx), the header  *)
(* around them (components/Layout), the requests the pages send            *)
(* (api/request.ts), and the session in localStorage (utils/token.ts) that *)
(* other tabs change too.                                                  *)
(*                                                                         *)
(* A page lives as long as the router keeps its component mounted: it is   *)
(* replaced when the kind of the location changes, and kept, with all its  *)
(* state, when the history jumps between two locations of one kind.  A     *)
(* request outlives the page that sent it, and its answer still runs.  A   *)
(* full load of the document (a reload, a 401, or a jump over one) ends    *)
(* both.                                                                   *)
(*                                                                         *)
(* What the list page loads is in CourseListPage, the steps of a           *)
(* publication in CourseForm and those of an upload in VideoService: here  *)
(* each is one request with one answer.                                    *)
(***************************************************************************)
EXTENDS Integers, Sequences

CONSTANTS
  Course, Video,  \* what the tables hold
  CourseOf,       \* video -> the course it belongs to
  Account, Admin, \* users, and those of role 1
  Nobody,         \* localStorage holds no session
  None,           \* nothing
  MaxHistory,     \* entries the browser keeps: 50
  MaxFlights      \* bound on requests on their way at once

ASSUME AdminAssumption == Admin \subseteq Account
ASSUME NobodyAssumption == Nobody \notin Account
ASSUME NoneAssumption == None \notin Course \cup Video \cup Account \cup {Nobody}
ASSUME HistoryAssumption == MaxHistory \in Nat /\ MaxHistory >= 2
ASSUME FlightsAssumption == MaxFlights \in Nat \ {0}

VARIABLES
  store,     \* the session in localStorage
  hist,      \* the tab's history: locations, and where a document was loaded
  pos,       \* the entry that is shown
  page,      \* the state of the mounted page
  header,    \* the session the header was last rendered with
  flight,    \* the requests on their way
  elsewhere  \* history: the parts not rendered since another tab changed store

vars == <<store, hist, pos, page, header, flight, elsewhere>>

Number == 1 .. MaxFlights
Session == Account \cup {Nobody}

(***************************************************************************)
(* Locations: the routes of App.tsx.                                       *)
(***************************************************************************)
Loc(kind, id) == [kind |-> kind, id |-> id]
Plain == {"list", "login", "register", "create", "upload"}
Location ==
  [kind : Plain, id : {None}] \cup [kind : {"detail"}, id : Course]
                              \cup [kind : {"player"}, id : Video]
LoginPage == Loc("login", None)
ListPage == Loc("list", None)
Kind(loc) == loc.kind
InLayout(loc) == Kind(loc) \notin {"login", "register"}
Guarded == {"create", "upload"}

\* The address "/" is replaced by the list.
Landing(path) == IF path = None THEN ListPage ELSE path

Here == hist[pos].loc

(***************************************************************************)
(* Requests.  mine: the page that sent it is still mounted.                *)
(***************************************************************************)
Idle == [kind |-> "idle", arg |-> None, mine |-> FALSE]
Request(kind, arg) == [kind |-> kind, arg |-> arg, mine |-> TRUE]
\* What the pages with a button that waits send, and the requests that pages
\* send when they are mounted or their id changes.
Sends(loc) ==
  CASE Kind(loc) = "detail" -> "order"
    [] Kind(loc) = "login" -> "login"
    [] Kind(loc) = "register" -> "register"
    [] Kind(loc) = "create" -> "publish"
    [] Kind(loc) = "upload" -> "upload"
    [] OTHER -> "nothing"
Fetches(loc) ==
  CASE Kind(loc) = "detail" -> "course"
    [] Kind(loc) = "player" -> "play"
    [] OTHER -> "nothing"
Named(loc) == Fetches(loc) # "nothing"
Requests ==
  [kind : {"course", "order"}, arg : Course, mine : BOOLEAN]
    \cup [kind : {"play"}, arg : Video, mine : BOOLEAN]
    \cup [kind : {"login"}, arg : Account, mine : BOOLEAN]
    \cup [kind : {"register", "publish", "upload"}, arg : {None}, mine : BOOLEAN]

Room == \E n \in Number : flight[n] = Idle
Free(f) == CHOOSE n \in Number : f[n] = Idle
Sent(f, r) == [f EXCEPT ![Free(f)] = r]
Orphaned(f) == [n \in Number |-> [f[n] EXCEPT !.mine = FALSE]]
Fetch(f, loc) ==
  IF Named(loc) THEN Sent(f, Request(Fetches(loc), loc.id)) ELSE f
\* Mutant: the effect does not depend on the id.
RefetchNever(f, loc) == f

\* The effect of a page that stays, when the id in its address changes.
Refetch(f, loc) == Fetch(f, loc)
\* A request of the mounted page for what its location names is on its way.
Pending == \E n \in Number :
  flight[n].mine /\ flight[n].kind = Fetches(Here) /\ flight[n].arg = Here.id

(***************************************************************************)
(* Pages.  shown: the course or the play address on the screen; error: the *)
(* player's; busy: the button that waits; form: an administrator's form    *)
(* was rendered.  excuse and moved are history: why what is shown may not  *)
(* be what the address names, and whether the address changed under the    *)
(* mounted page.                                                           *)
(***************************************************************************)
Fresh(loc, s) ==
  [loading |-> Named(loc), shown |-> None, error |-> FALSE,
   busy |-> FALSE, form |-> Kind(loc) \in Guarded /\ s \in Admin,
   moved |-> FALSE, excuse |-> "none"]
Moved(pg) == [pg EXCEPT !.moved = TRUE, !.excuse = "none"]
\* The course form is rendered by every navigation and every step of its own,
\* the upload form by the latter only: nothing in it asks for the router.
Rendered(pg, loc, s) == [pg EXCEPT !.form = Kind(loc) \in Guarded /\ s \in Admin]

Spinner == page.loading
\* The course's card with its button, and the list of its videos.
DetailShown == Kind(Here) = "detail" /\ ~Spinner /\ page.shown # None
CanBuy == DetailShown /\ ~page.busy
CanPlay == IF DetailShown THEN {v \in Video : CourseOf[v] = page.shown} ELSE {}
\* What is on the screen: a course, a video, or the player's error instead.
OnScreen == IF page.error THEN "error" ELSE page.shown
\* The player's button back.
CanReturn == Kind(Here) = "player" /\ ~Spinner

(***************************************************************************)
(* Navigation.                                                             *)
(***************************************************************************)
Entry(loc, load) == [loc |-> loc, load |-> load]
\* The history after loc was pushed at p: what lay ahead is dropped.  load: a
\* new document begins here; what lies before the first entry is forgotten.
Pushed(h, p, loc, load) ==
  LET longer == Append(SubSeq(h, 1, p), Entry(loc, load))
  IN IF Len(longer) <= MaxHistory THEN longer
     ELSE [Tail(longer) EXCEPT ![1].load = FALSE]

\* The player's effect sends whoever is not logged in to the login page.
Barred(loc, s) == Kind(loc) = "player" /\ s = Nobody

\* The router shows entry p of history h, with session s and requests f.
Go(h, p, s, f) ==
  LET barred == Barred(h[p].loc, s) /\ h[p].loc # Here
      to == IF barred THEN LoginPage ELSE h[p].loc
      kept == ~barred /\ Kind(to) = Kind(Here)
  IN /\ hist' = IF barred THEN Pushed(h, p, LoginPage, FALSE) ELSE h
     /\ pos' = IF barred THEN Len(hist') ELSE p
     /\ header' = IF InLayout(to) THEN s ELSE None
     /\ elsewhere' = IF kept /\ Kind(to) = "upload" THEN elsewhere \ {"header"} ELSE {}
     /\ \/ /\ kept /\ to = Here
           /\ page' = IF Kind(to) = "create" THEN Rendered(page, to, s) ELSE page
           /\ flight' = f
        \/ /\ kept /\ to # Here
           /\ page' = Moved(page)
           /\ flight' = Refetch(f, to)
        \/ /\ ~kept
           /\ page' = Fresh(to, s)
           /\ flight' = Fetch(Orphaned(f), to)

\* The browser loads the document anew, at entry p of history h.
Load(h, p, s) ==
  LET barred == Barred(h[p].loc, s)
      to == IF barred THEN LoginPage ELSE h[p].loc
  IN /\ hist' = IF barred THEN Pushed(h, p, LoginPage, FALSE) ELSE h
     /\ pos' = IF barred THEN Len(hist') ELSE p
     /\ page' = Fresh(to, s)
     /\ flight' = Fetch([n \in Number |-> Idle], to)
     /\ header' = IF InLayout(to) THEN s ELSE None
     /\ elsewhere' = {}

Push(loc, s, f) ==
  LET h == Pushed(hist, pos, loc, FALSE) IN Go(h, Len(h), s, f)
\* A link to where one is replaces the entry.
Link(loc) ==
  /\ IF loc = Here THEN Go(hist, pos, store, flight) ELSE Push(loc, store, flight)
  /\ UNCHANGED store

(***************************************************************************)
(* The tab is opened at any address, with any session.                     *)
(***************************************************************************)
Init ==
  \E s \in Session, path \in Location \cup {None} :
    LET loc == Landing(path)
        to == IF Barred(loc, s) THEN LoginPage ELSE loc
        none == [n \in Number |-> Idle]
    IN /\ store = s
       /\ hist = IF to = loc THEN <<Entry(loc, FALSE)>>
                 ELSE <<Entry(loc, FALSE), Entry(to, FALSE)>>
       /\ pos = Len(hist)
       /\ page = Fresh(to, s)
       /\ header = IF InLayout(to) THEN s ELSE None
       /\ flight = Fetch(none, to)
       /\ elsewhere = {}

(***************************************************************************)
(* The header.                                                             *)
(***************************************************************************)
Home == InLayout(Here) /\ Push(ListPage, store, flight) /\ UNCHANGED store
Menu ==
  /\ InLayout(Here)
  /\ \/ Link(ListPage)
     \/ header \in Admin /\ \E k \in Guarded : Link(Loc(k, None))
LoginButton ==
  /\ header = Nobody
  /\ Push(LoginPage, store, flight)
  /\ UNCHANGED store
\* Mutant: the page stays as it is.
HandleLogoutStays ==
  /\ header \in Account
  /\ store' = Nobody
  /\ UNCHANGED <<hist, pos, page, header, flight, elsewhere>>
HandleLogout ==
  /\ header \in Account
  /\ store' = Nobody
  /\ Push(LoginPage, Nobody, flight)

(***************************************************************************)
(* The pages.                                                              *)
(***************************************************************************)
OpenCourse(c) ==
  /\ Here = ListPage /\ Room
  /\ Push(Loc("detail", c), store, flight)
  /\ UNCHANGED store

ToRegister == Here = LoginPage /\ Link(Loc("register", None))
ToLogin == Kind(Here) = "register" /\ Link(LoginPage)

\* A page's button is pressed: it waits for the request's answer.
Submit(arg) ==
  /\ Room
  /\ page' = [Rendered(page, Here, store) EXCEPT !.busy = TRUE]
  /\ flight' = Sent(flight, Request(Sends(Here), arg))
  /\ elsewhere' = elsewhere \ {"form"}
  /\ UNCHANGED <<store, hist, pos, header>>

\* What the forms' rules let through: fields that are filled in, and when
\* registering a password of 6 or more characters, typed twice.  Passwords are
\* their lengths.
Filled(name, password) == name /\ password > 0
Registrable(name, password, confirm) ==
  Filled(name, password) /\ password >= 6 /\ confirm = password
Publishable(title, price) == title /\ price
Uploadable(course, title, file) == course /\ title /\ file

HandleBuy ==
  /\ CanBuy
  /\ \/ store = Nobody /\ Push(LoginPage, store, flight) /\ UNCHANGED store
     \/ store # Nobody /\ Submit(Here.id)
HandlePlay(v) ==
  /\ v \in CanPlay
  /\ \/ store = Nobody /\ Push(LoginPage, store, flight)
     \/ store # Nobody /\ Room /\ Push(Loc("player", v), store, flight)
  /\ UNCHANGED store
SubmitLogin(a) ==
  /\ Here = LoginPage /\ ~page.busy
  /\ \E name \in BOOLEAN, password \in {0, 5, 6} : Filled(name, password)
  /\ Submit(a)
SubmitRegister ==
  /\ Kind(Here) = "register" /\ ~page.busy
  /\ \E name \in BOOLEAN, password, confirm \in {0, 5, 6} :
       Registrable(name, password, confirm)
  /\ Submit(None)
Publish ==
  /\ Kind(Here) = "create" /\ page.form /\ ~page.busy
  /\ \E title, price \in BOOLEAN : Publishable(title, price)
  /\ Submit(None)
Upload ==
  /\ Kind(Here) = "upload" /\ page.form /\ ~page.busy
  /\ \E course, title, file \in BOOLEAN : Uploadable(course, title, file)
  /\ Submit(None)

(***************************************************************************)
(* Answers.                                                                *)
(***************************************************************************)
Without(n) == [flight EXCEPT ![n] = Idle]
\* What the answer ends: it concerns the page only if that is still mounted.
Concerns(n, pg) ==
  /\ flight' = Without(n)
  /\ page' = IF flight[n].mine THEN pg ELSE page
  /\ UNCHANGED <<store, hist, pos, header>>

Loaded(n) ==
  /\ flight[n].kind \in {"course", "play"}
  /\ Concerns(n, [page EXCEPT !.shown = flight[n].arg, !.loading = FALSE,
       !.excuse = IF flight[n].arg = Here.id THEN "none" ELSE "overtaken"])
  /\ UNCHANGED elsewhere
\* Mutant: an error leaves the spinner.
LoadFailsSpinning(n) ==
  /\ flight[n].kind \in {"course", "play"}
  /\ Concerns(n, [page EXCEPT !.error = @ \/ flight[n].kind = "play",
       !.excuse = IF flight[n].arg = Here.id THEN "failed" ELSE @])
  /\ UNCHANGED elsewhere
LoadFails(n) ==
  /\ flight[n].kind \in {"course", "play"}
  /\ Concerns(n, [page EXCEPT !.loading = FALSE,
       !.error = @ \/ flight[n].kind = "play",
       !.excuse = IF flight[n].arg = Here.id THEN "failed" ELSE @])
  /\ UNCHANGED elsewhere

\* Mutant: an error of the login leaves the button waiting.
ReleasedOnSuccess(n) ==
  /\ Concerns(n, [Rendered(page, Here, store) EXCEPT
       !.busy = flight[n].kind \in {"login", "register"}])
  /\ elsewhere' = IF flight[n].mine THEN elsewhere \ {"form"} ELSE elsewhere
\* The button no longer waits: an order or an upload is done, or any fails.
Released(n) ==
  /\ Concerns(n, [Rendered(page, Here, store) EXCEPT !.busy = FALSE])
  /\ elsewhere' = IF flight[n].mine THEN elsewhere \ {"form"} ELSE elsewhere
Done(n) == flight[n].kind \in {"order", "upload"} /\ Released(n)
SubmitFails(n) ==
  /\ flight[n].kind \in {"order", "upload", "login", "register", "publish"}
  /\ Released(n)

\* The others move to another page, whichever page is shown by now.
LoggedIn(n) ==
  /\ flight[n].kind = "login"
  /\ store' = flight[n].arg
  /\ Push(ListPage, flight[n].arg, Without(n))
Registered(n) ==
  /\ flight[n].kind = "register"
  /\ Push(LoginPage, store, Without(n))
  /\ UNCHANGED store
Published(n) ==
  /\ flight[n].kind = "publish"
  /\ Push(ListPage, store, Without(n))
  /\ UNCHANGED store

\* A 401 to a request that needs a session, or to a wrong password: the
\* interceptor logs out and loads the login page.
Unauthorized(n) ==
  /\ flight[n].kind \in {"play", "order", "login", "publish", "upload"}
  /\ store' = Nobody
  /\ LET h == IF Here = LoginPage THEN hist ELSE Pushed(hist, pos, LoginPage, TRUE)
         p == IF Here = LoginPage THEN pos ELSE Len(h)
     IN Load(h, p, Nobody)

\* An upload's progress renders its page again.
Progress(n) ==
  /\ flight[n].kind = "upload" /\ flight[n].mine
  /\ page' = Rendered(page, Here, store)
  /\ elsewhere' = elsewhere \ {"form"}
  /\ UNCHANGED <<store, hist, pos, header, flight>>

Answer(n) ==
  \/ Loaded(n) \/ LoadFails(n) \/ Done(n) \/ SubmitFails(n)
  \/ LoggedIn(n) \/ Registered(n) \/ Published(n) \/ Unauthorized(n)

(***************************************************************************)
(* The browser: Back, Forward and the list of entries behind them, the     *)
(* player's button back, reloading, and other tabs.                        *)
(***************************************************************************)
Crosses(p, q) == \E k \in DOMAIN hist :
  hist[k].load /\ (k \in p + 1 .. q \/ k \in q + 1 .. p)
Jump(p) ==
  /\ p # pos /\ Room
  /\ IF Crosses(pos, p) THEN Load(hist, p, store) ELSE Go(hist, p, store, flight)
  /\ UNCHANGED store
Return == CanReturn /\ pos > 1 /\ Jump(pos - 1)
Reload == Load(hist, pos, store) /\ UNCHANGED store

OtherTab(s) ==
  /\ s # store
  /\ store' = s
  /\ elsewhere' = (IF InLayout(Here) THEN {"header"} ELSE {})
                    \cup (IF Kind(Here) \in Guarded THEN {"form"} ELSE {})
  /\ UNCHANGED <<hist, pos, page, header, flight>>

Next ==
  \/ Home \/ Menu \/ LoginButton \/ HandleLogout \/ ToRegister \/ ToLogin
  \/ \E c \in Course : OpenCourse(c)
  \/ HandleBuy \/ \E v \in Video : HandlePlay(v)
  \/ \E a \in Account : SubmitLogin(a)
  \/ SubmitRegister \/ Publish \/ Upload
  \/ \E n \in Number : Answer(n) \/ Progress(n)
  \/ \E p \in DOMAIN hist : Jump(p)
  \/ Return \/ Reload
  \/ \E s \in Session : OtherTab(s)

\* A request is answered or given up: request.ts has a timeout of 30s.  A file
\* that a publication or an upload PUTs to OSS goes by a bare axios.put, which
\* has none, and may stay on its way for ever.
Fairness == \A n \in Number :
  WF_vars(flight[n].kind \notin {"publish", "upload"} /\ Answer(n))
Spec == Init /\ [][Next]_vars /\ Fairness

(***************************************************************************)
(* Properties.                                                             *)
(***************************************************************************)

\* The variables have their types.
TypeOK ==
  /\ store \in Session
  /\ hist \in Seq([loc : Location, load : BOOLEAN])
  /\ Len(hist) \in 1 .. MaxHistory /\ pos \in DOMAIN hist
  /\ page \in [loading : BOOLEAN, shown : Course \cup Video \cup {None},
               error : BOOLEAN, busy : BOOLEAN, form : BOOLEAN,
               moved : BOOLEAN, excuse : {"none", "failed", "overtaken"}]
  /\ header \in Session \cup {None}
  /\ flight \in [Number -> Requests \cup {Idle}]
  /\ elsewhere \in SUBSET {"header", "form"}

\* What a page shows is what its address names, and so what its button buys,
\* unless the request for that is still on its way, has failed, or an older
\* request was answered after it.  The last, and the player's error that is
\* not its video's, need a jump between two addresses under one mounted page:
\* the effects of CourseDetail and Player neither cancel nor reset anything.
ShownIsCurrent ==
  /\ Named(Here) /\ ~page.loading /\ OnScreen # Here.id
       => page.excuse # "none" \/ Pending \/ (page.error /\ page.moved)
  /\ page.excuse = "overtaken" => page.moved

\* The header names the session, and the administrator's form is there for an
\* administrator only, unless another tab changed the session since either was
\* rendered: a login, a logout or a 401 of this tab, early or late, leaves no
\* old header behind.
RenderedSession ==
  /\ header # None <=> InLayout(Here)
  /\ header # None /\ "header" \notin elsewhere => header = store
  /\ Kind(Here) \in Guarded /\ "form" \notin elsewhere
       => (page.form <=> store \in Admin)

\* A page that waits waits for something: its spinner for a request of its
\* own, and its button for exactly one, which no second press, return to the
\* page or late answer can make two.
WaitsForSomething ==
  /\ page.loading => \E n \in Number :
       flight[n].mine /\ flight[n].kind = Fetches(Here)
  /\ \A n, k \in Number :
       /\ flight[n].mine /\ flight[n].kind = Sends(Here)
       /\ flight[k].mine /\ flight[k].kind = Sends(Here)
       => page.busy /\ n = k
  /\ page.busy => \E n \in Number :
       flight[n].mine /\ flight[n].kind = Sends(Here)

\* A spinner ends, unless pages are replaced for ever.
Replaced == \E n \in Number :
  /\ flight[n].mine /\ flight[n].kind \in {"course", "play"}
  /\ flight'[n] # flight[n] /\ page'.loading
SpinnerEnds == []<>~page.loading \/ []<><<Replaced>>_vars
=============================================================================
