-------------------------- MODULE StudentPagesProofs --------------------------
(***************************************************************************)
(* Proofs about StudentPages, for every set of courses, videos and         *)
(* accounts, every length of the history and any number of requests.       *)
(***************************************************************************)
EXTENDS StudentPages, SequenceTheorems, TLAPS

Entries == [loc : Location, load : BOOLEAN]
Flights == [Number -> Requests \cup {Idle}]
PageType ==
  [loading : BOOLEAN, shown : Course \cup Video \cup {None},
   error : BOOLEAN, busy : BOOLEAN, form : BOOLEAN,
   moved : BOOLEAN, excuse : {"none", "failed", "overtaken"}]
History(h) == h \in Seq(Entries) /\ Len(h) \in 1 .. MaxHistory

-----------------------------------------------------------------------------
(* Locations and the history. *)

LEMMA Locations ==
  /\ LoginPage \in Location /\ Kind(LoginPage) = "login"
  /\ ListPage \in Location /\ Kind(ListPage) = "list"
  /\ \A k \in Plain : Loc(k, None) \in Location /\ Kind(Loc(k, None)) = k
  /\ \A c \in Course : Loc("detail", c) \in Location
  /\ \A v \in Video : Loc("player", v) \in Location
BY DEF LoginPage, ListPage, Loc, Location, Plain, Kind

LEMMA PushedIsHistory ==
  ASSUME NEW h, History(h), NEW p \in 1 .. Len(h),
         NEW loc \in Location, NEW load \in BOOLEAN
  PROVE  LET g == Pushed(h, p, loc, load)
         IN  History(g) /\ g[Len(g)].loc = loc
<1> DEFINE e == Entry(loc, load)
           longer == Append(SubSeq(h, 1, p), e)
<1>1. e \in Entries /\ e.loc = loc
  BY DEF Entry, Entries
<1>2. Len(h) \in Nat /\ p \in Nat /\ p >= 1 /\ p <= Len(h) /\ p <= MaxHistory
  BY HistoryAssumption DEF History
<1>3. \A i \in 1 .. p : h[i] \in Entries
  BY <1>2, ElementOfSeq DEF History
<1>4. SubSeq(h, 1, p) \in Seq(Entries) /\ Len(SubSeq(h, 1, p)) = p
  BY <1>2, <1>3, SubSeqProperties
<1> HIDE DEF e
<1>5. longer \in Seq(Entries) /\ Len(longer) = p + 1 /\ longer[p + 1] = e
  BY <1>1, <1>2, <1>4
<1> HIDE DEF longer
<1>6. CASE p + 1 <= MaxHistory
  <2>1. Pushed(h, p, loc, load) = longer
    BY <1>5, <1>6 DEF Pushed, longer, e
  <2> QED
    BY <1>1, <1>2, <1>5, <1>6, <2>1, HistoryAssumption DEF History
<1>7. CASE p + 1 > MaxHistory
  <2> DEFINE t == Tail(longer)
             first == [t[1] EXCEPT !.load = FALSE]
             g == [t EXCEPT ![1] = first]
  <2>1. Pushed(h, p, loc, load) = [t EXCEPT ![1].load = FALSE]
    <3>1. ~(Len(longer) <= MaxHistory)
      BY <1>5, <1>7, <1>2, HistoryAssumption
    <3> QED
      BY <3>1, Zenon DEF Pushed, longer, e
  <2>2. longer # <<>> /\ p = MaxHistory
    BY <1>2, <1>5, <1>7, HistoryAssumption
  <2>3. /\ t \in Seq(Entries) /\ Len(t) = MaxHistory
        /\ \A i \in 1 .. MaxHistory : t[i] = longer[i + 1]
    BY <1>2, <1>5, <2>2, HeadTailProperties, HistoryAssumption
  <2> HIDE DEF t
  <2>4. t[1] \in Entries
    BY <2>3, HistoryAssumption, ElementOfSeq
  <2>5. first \in Entries
    BY <2>4 DEF Entries
  <2> HIDE DEF first
  <2>6. /\ g \in Seq(Entries) /\ Len(g) = MaxHistory
        /\ g[MaxHistory] = t[MaxHistory]
    BY <2>3, <2>5, ExceptSeq, HistoryAssumption
  <2>7. g[MaxHistory].loc = loc
    BY <1>1, <1>5, <2>2, <2>3, <2>6, HistoryAssumption
  <2>8. Pushed(h, p, loc, load) = g
    BY <2>1 DEF first
  <2> QED
    BY <2>6, <2>7, <2>8, HistoryAssumption DEF History
<1> QED
  BY <1>2, <1>6, <1>7, HistoryAssumption

-----------------------------------------------------------------------------
(* Requests. *)

LEMMA RequestFields ==
  /\ Idle.kind = "idle" /\ ~Idle.mine
  /\ \A q \in Requests \cup {Idle} :
       /\ q.kind \in {"idle", "course", "order", "play", "login", "register",
                      "publish", "upload"}
       /\ q.mine \in BOOLEAN
       /\ q.kind = "course" => q.arg \in Course
       /\ q.kind = "play" => q.arg \in Video
       /\ q.kind = "login" => q.arg \in Account
<1>1. Idle.kind = "idle" /\ ~Idle.mine /\ Idle.mine \in BOOLEAN
  BY DEF Idle
<1>2. ASSUME NEW q \in Requests
      PROVE  /\ q.kind \in {"course", "order", "play", "login", "register",
                            "publish", "upload"}
             /\ q.mine \in BOOLEAN
             /\ q.kind = "course" => q.arg \in Course
             /\ q.kind = "play" => q.arg \in Video
             /\ q.kind = "login" => q.arg \in Account
  BY DEF Requests
<1> QED
  BY <1>1, <1>2

LEMMA Kinds ==
  ASSUME NEW loc \in Location
  PROVE  /\ Fetches(loc) \in {"course", "play", "nothing"}
         /\ Sends(loc) \in {"order", "login", "register", "publish", "upload",
                            "nothing"}
         /\ Named(loc) <=> Kind(loc) \in {"detail", "player"}
         /\ Named(loc) => Fetches(loc) # Sends(loc)
BY DEF Fetches, Sends, Named

LEMMA SameKind ==
  ASSUME NEW loc \in Location, NEW to \in Location, Kind(to) = Kind(loc)
  PROVE  /\ Fetches(to) = Fetches(loc) /\ Sends(to) = Sends(loc)
         /\ InLayout(to) <=> InLayout(loc)
         /\ to = loc \/ Named(to)
<1>1. Fetches(to) = Fetches(loc) /\ Sends(to) = Sends(loc)
  BY DEF Fetches, Sends
<1>2. to = loc \/ Named(to)
  <2>1. CASE Kind(to) \in {"detail", "player"}
    BY <2>1, Kinds
  <2>2. CASE Kind(to) \notin {"detail", "player"}
    <3>1. to \in [kind : Plain, id : {None}] /\ loc \in [kind : Plain, id : {None}]
      BY <2>2 DEF Location, Kind
    <3> QED
      BY <3>1 DEF Kind
  <2> QED
    BY <2>1, <2>2
<1> QED
  BY <1>1, <1>2 DEF InLayout

\* The request a page sends for what its location names.
LEMMA OwnFetch ==
  ASSUME NEW loc \in Location, Named(loc)
  PROVE  LET q == Request(Fetches(loc), loc.id)
         IN  /\ q \in Requests
             /\ q.kind = Fetches(loc) /\ q.arg = loc.id /\ q.mine
<1>1. CASE Kind(loc) = "detail"
  <2>1. loc.id \in Course /\ Fetches(loc) = "course"
    BY <1>1 DEF Location, Plain, Kind, Fetches
  <2> QED
    BY <2>1 DEF Request, Requests
<1>2. CASE Kind(loc) = "player"
  <2>1. loc.id \in Video /\ Fetches(loc) = "play"
    BY <1>2 DEF Location, Plain, Kind, Fetches
  <2> QED
    BY <2>1 DEF Request, Requests
<1> QED
  BY <1>1, <1>2, Kinds

Slot(f) == \E n \in Number : f[n] = Idle

LEMMA SentInSlot ==
  ASSUME NEW f \in Flights, Slot(f), NEW q \in Requests
  PROVE  \E m \in Number :
           /\ f[m] = Idle
           /\ Sent(f, q) \in Flights
           /\ Sent(f, q)[m] = q
           /\ \A n \in Number : n # m => Sent(f, q)[n] = f[n]
<1>1. Free(f) \in Number /\ f[Free(f)] = Idle
  BY DEF Slot, Free
<1>2. Sent(f, q) = [f EXCEPT ![Free(f)] = q]
  BY DEF Sent
<1> QED
  BY <1>1, <1>2 DEF Flights

LEMMA OrphanedFlights ==
  ASSUME NEW f \in Flights
  PROVE  /\ Orphaned(f) \in Flights
         /\ \A n \in Number : ~Orphaned(f)[n].mine
         /\ Slot(f) => Slot(Orphaned(f))
<1>1. \A q \in Requests \cup {Idle} :
        /\ [q EXCEPT !.mine = FALSE] \in Requests \cup {Idle}
        /\ ~[q EXCEPT !.mine = FALSE].mine
        /\ q = Idle => [q EXCEPT !.mine = FALSE] = Idle
  <2>1. ASSUME NEW K, NEW A, NEW q \in [kind : K, arg : A, mine : BOOLEAN]
        PROVE  /\ [q EXCEPT !.mine = FALSE] \in [kind : K, arg : A, mine : BOOLEAN]
               /\ ~[q EXCEPT !.mine = FALSE].mine
    <3>1. [q EXCEPT !.mine = FALSE].mine = FALSE
      OBVIOUS
    <3> QED
      BY <3>1
  <2>2. [Idle EXCEPT !.mine = FALSE] = Idle
    <3> DEFINE One == [kind : {"idle"}, arg : {None}, mine : {FALSE}]
    <3>1. Idle \in One
      BY DEF Idle
    <3>2. \A q \in One : [q EXCEPT !.mine = FALSE] \in One
      OBVIOUS
    <3>3. ASSUME NEW q \in One PROVE q = Idle
      <4>1. q = [kind |-> q.kind, arg |-> q.arg, mine |-> q.mine]
        OBVIOUS
      <4>2. q.kind = "idle" /\ q.arg = None
        OBVIOUS
      <4>3. q.mine = FALSE
        OBVIOUS
      <4> QED
        BY <4>1, <4>2, <4>3, Zenon DEF Idle
    <3> QED
      BY <3>1, <3>2, <3>3
  <2>3. ~Idle.mine
    BY RequestFields
  <2>4. ASSUME NEW q \in Requests
        PROVE  /\ [q EXCEPT !.mine = FALSE] \in Requests
               /\ ~[q EXCEPT !.mine = FALSE].mine
    BY <2>1 DEF Requests
  <2>5. \A q \in Requests : q # Idle
    BY DEF Requests, Idle
  <2> QED
    BY <2>2, <2>3, <2>4, <2>5
<1> QED
  BY <1>1 DEF Orphaned, Flights, Slot

LEMMA NoFlights ==
  LET f == [n \in Number |-> Idle]
  IN  f \in Flights /\ Slot(f) /\ \A n \in Number : ~f[n].mine
<1>1. 1 \in Number
  BY FlightsAssumption DEF Number
<1> QED
  BY <1>1, RequestFields DEF Flights, Slot

-----------------------------------------------------------------------------
(* What holds between a mounted page, the requests and the location.  The   *)
(* inductive invariant is made of it: the properties to be proved, and what *)
(* keeps them, which is that a page's requests are of its own kind and that *)
(* one whose address has not changed has asked for nothing else.            *)

Asking(f, loc) == \E n \in Number :
  f[n].mine /\ f[n].kind = Fetches(loc) /\ f[n].arg = loc.id

\* A page's requests are those its kind of page sends.
Own(f, loc) == \A n \in Number :
  f[n].mine => f[n].kind \in {Fetches(loc), Sends(loc)}

Waits(pg, f, loc) ==
  /\ pg.loading => \E n \in Number : f[n].mine /\ f[n].kind = Fetches(loc)
  /\ \A n, k \in Number :
       /\ f[n].mine /\ f[n].kind = Sends(loc)
       /\ f[k].mine /\ f[k].kind = Sends(loc)
       => pg.busy /\ n = k
  /\ pg.busy => \E n \in Number : f[n].mine /\ f[n].kind = Sends(loc)

\* A page whose address has not changed under it has asked for that only, once,
\* and has not been answered while the request is out.
AskedOnce(pg, f, loc) ==
  ~pg.moved => \A n, k \in Number :
    /\ f[n].mine /\ f[n].kind = Fetches(loc)
    /\ f[k].mine /\ f[k].kind = Fetches(loc)
    => n = k /\ f[n].arg = loc.id /\ ~pg.error

Explained(pg, f, loc) ==
  /\ Named(loc) /\ (IF pg.error THEN "error" ELSE pg.shown) # loc.id
       => pg.excuse # "none" \/ Asking(f, loc) \/ (pg.error /\ pg.moved)
  /\ pg.excuse = "overtaken" => pg.moved

Good(pg, f, loc) ==
  /\ pg \in PageType /\ f \in Flights /\ loc \in Location
  /\ Own(f, loc)
  /\ Waits(pg, f, loc)
  /\ AskedOnce(pg, f, loc)
  /\ Explained(pg, f, loc)

\* A page that is mounted: its only request, if any, is for its location.
LEMMA FreshGood ==
  ASSUME NEW to \in Location, NEW s, NEW f \in Flights,
         \A n \in Number : ~f[n].mine, Named(to) => Slot(f)
  PROVE  Good(Fresh(to, s), Fetch(f, to), to)
<1> DEFINE pg == Fresh(to, s)
           g == Fetch(f, to)
<1>1. /\ pg \in PageType
      /\ pg.loading <=> Named(to)
      /\ ~pg.error /\ ~pg.busy /\ pg.excuse = "none"
  <2> DEFINE named == Named(to)
             form == Kind(to) \in Guarded /\ s \in Admin
  <2>1. named \in BOOLEAN /\ form \in BOOLEAN
    BY Zenon DEF Named
  <2>2. pg = [loading |-> named, shown |-> None, error |-> FALSE, busy |-> FALSE,
              form |-> form, moved |-> FALSE, excuse |-> "none"]
    BY DEF Fresh
  <2> HIDE DEF named, form
  <2>3. pg \in PageType /\ pg.loading = named
    BY <2>1, <2>2 DEF PageType
  <2>4. ~pg.error /\ ~pg.busy /\ pg.excuse = "none"
    BY <2>2
  <2> QED
    BY <2>3, <2>4 DEF named
<1> HIDE DEF pg
<1>2. CASE ~Named(to)
  <2>1. g = f
    BY <1>2 DEF Fetch
  <2>2. Good(pg, f, to)
    BY <1>1, <1>2 DEF Good, Own, Waits, AskedOnce, Explained
  <2> QED
    BY <2>1, <2>2 DEF pg
<1>3. CASE Named(to)
  <2>1. PICK q \in Requests :
          /\ q = Request(Fetches(to), to.id)
          /\ q.kind = Fetches(to) /\ q.arg = to.id /\ q.mine
    BY <1>3, OwnFetch
  <2>2. g = Sent(f, q)
    BY <1>3, <2>1 DEF Fetch
  <2>3. PICK m \in Number :
          /\ g \in Flights /\ g[m] = q
          /\ \A n \in Number : n # m => g[n] = f[n]
    BY <1>3, <2>2, SentInSlot
  <2> HIDE DEF g
  <2>4. \A n \in Number : g[n].mine => n = m
    BY <2>3
  <2>5. Fetches(to) # Sends(to)
    BY <1>3, Kinds
  <2>6. Own(g, to) /\ AskedOnce(pg, g, to)
    BY <1>1, <2>1, <2>3, <2>4 DEF Own, AskedOnce
  <2>7. Waits(pg, g, to)
    BY <1>1, <2>1, <2>3, <2>4, <2>5 DEF Waits
  <2>8. Explained(pg, g, to)
    BY <1>1, <2>1, <2>3 DEF Explained, Asking
  <2>9. Good(pg, g, to)
    BY <1>1, <2>3, <2>6, <2>7, <2>8 DEF Good
  <2> QED
    BY <2>9 DEF pg, g
<1> QED
  BY <1>2, <1>3

\* The address changes under a page that stays.
LEMMA MovedGood ==
  ASSUME NEW pg, NEW f, NEW loc, Good(pg, f, loc),
         NEW to \in Location, Kind(to) = Kind(loc), Named(to), Slot(f)
  PROVE  Good(Moved(pg), Refetch(f, to), to)
<1> DEFINE g == Refetch(f, to)
           qg == Moved(pg)
<1>1. /\ qg \in PageType
      /\ qg.loading = pg.loading /\ qg.busy = pg.busy
      /\ qg.moved /\ qg.excuse = "none"
  <2>1. pg \in PageType
    BY DEF Good
  <2> QED
    BY <2>1 DEF Moved, PageType
<1>2. PICK q \in Requests :
        /\ q = Request(Fetches(to), to.id)
        /\ q.kind = Fetches(to) /\ q.arg = to.id /\ q.mine
  BY OwnFetch
<1>3. g = Sent(f, q) /\ f \in Flights
  BY <1>2 DEF Refetch, Fetch, Good
<1>4. PICK m \in Number :
        /\ f[m] = Idle
        /\ g \in Flights /\ g[m] = q
        /\ \A n \in Number : n # m => g[n] = f[n]
  BY <1>3, SentInSlot
<1> HIDE DEF g, qg
<1>5. ~f[m].mine
  BY <1>4, RequestFields
<1>6. /\ Fetches(to) = Fetches(loc) /\ Sends(to) = Sends(loc)
      /\ Fetches(to) # Sends(to)
  BY SameKind, Kinds DEF Good
<1>7. Own(g, to)
  BY <1>2, <1>4, <1>6 DEF Good, Own
<1>8. Waits(qg, g, to)
  BY <1>1, <1>2, <1>4, <1>5, <1>6 DEF Good, Waits
<1>9. AskedOnce(qg, g, to)
  BY <1>1 DEF AskedOnce
<1>10. Explained(qg, g, to)
  BY <1>1, <1>2, <1>4 DEF Explained, Asking
<1>11. Good(qg, g, to)
  BY <1>1, <1>4, <1>7, <1>8, <1>9, <1>10 DEF Good
<1> QED
  BY <1>11 DEF qg, g

LEMMA RenderedGood ==
  ASSUME NEW pg, NEW f, NEW loc, Good(pg, f, loc), NEW l, NEW s
  PROVE  Good(Rendered(pg, l, s), f, loc)
<1> DEFINE q == Rendered(pg, l, s)
<1>1. pg \in PageType
  BY DEF Good
<1>2. /\ q \in PageType
      /\ q.loading = pg.loading /\ q.shown = pg.shown /\ q.error = pg.error
      /\ q.busy = pg.busy /\ q.moved = pg.moved /\ q.excuse = pg.excuse
  BY <1>1 DEF Rendered, PageType
<1> HIDE DEF q
<1>3. Good(q, f, loc)
  BY <1>2 DEF Good, Own, Waits, AskedOnce, Explained, Asking
<1> QED
  BY <1>3 DEF q

\* A request is answered that the mounted page did not send.
LEMMA OthersAnswerGood ==
  ASSUME NEW pg, NEW f, NEW loc, Good(pg, f, loc), NEW n \in Number, ~f[n].mine
  PROVE  Good(pg, [f EXCEPT ![n] = Idle], loc)
<1> DEFINE g == [f EXCEPT ![n] = Idle]
<1>1. /\ g \in Flights /\ ~g[n].mine
      /\ \A k \in Number : k # n => g[k] = f[k]
  BY RequestFields DEF Good, Flights
<1> HIDE DEF g
<1>2. Own(g, loc) /\ AskedOnce(pg, g, loc)
  BY <1>1 DEF Good, Own, AskedOnce
<1>3. Waits(pg, g, loc)
  BY <1>1 DEF Good, Waits
<1>4. Explained(pg, g, loc)
  BY <1>1 DEF Good, Explained, Asking
<1>5. Good(pg, g, loc)
  BY <1>1, <1>2, <1>3, <1>4 DEF Good
<1> QED
  BY <1>5 DEF g

\* The page's button sends its request.
LEMMA SubmitGood ==
  ASSUME NEW pg, NEW f, NEW loc, Good(pg, f, loc), ~pg.busy, Slot(f),
         NEW q \in Requests, q.kind = Sends(loc), q.mine,
         NEW to, NEW s
  PROVE  Good([Rendered(pg, to, s) EXCEPT !.busy = TRUE], Sent(f, q), loc)
<1> DEFINE r == Rendered(pg, to, s)
           p == [r EXCEPT !.busy = TRUE]
           g == Sent(f, q)
<1>1. Good(r, f, loc)
  BY RenderedGood
<1>2. ~r.busy
  BY DEF Rendered, Good, PageType
<1> HIDE DEF r
<1>3. /\ p \in PageType
      /\ p.loading = r.loading /\ p.shown = r.shown /\ p.error = r.error
      /\ p.busy /\ p.moved = r.moved /\ p.excuse = r.excuse
  BY <1>1 DEF Good, PageType
<1>4. PICK m \in Number :
        /\ f[m] = Idle
        /\ g \in Flights /\ g[m] = q
        /\ \A n \in Number : n # m => g[n] = f[n]
  BY SentInSlot DEF Good
<1> HIDE DEF p, g
<1>5. ~f[m].mine
  BY <1>4, RequestFields
<1>6. Named(loc) => Fetches(loc) # Sends(loc)
  BY Kinds DEF Good
<1>7. q.kind # "nothing"
  BY RequestFields
<1>8. q.kind # Fetches(loc)
  BY <1>6, <1>7 DEF Named
<1>9. Own(g, loc) /\ AskedOnce(p, g, loc)
  BY <1>1, <1>3, <1>4, <1>8 DEF Good, Own, AskedOnce
<1>10. Waits(p, g, loc)
  <2>1. \A n \in Number : ~(f[n].mine /\ f[n].kind = Sends(loc))
    BY <1>1, <1>2 DEF Good, Waits
  <2>2. \A n \in Number : g[n].mine /\ g[n].kind = Sends(loc) => n = m
    BY <1>4, <2>1
  <2> QED
    BY <1>1, <1>3, <1>4, <1>5, <1>8, <2>2 DEF Good, Waits
<1>11. Explained(p, g, loc)
  BY <1>1, <1>3, <1>4, <1>5 DEF Good, Explained, Asking
<1>12. Good(p, g, loc)
  BY <1>1, <1>3, <1>4, <1>9, <1>10, <1>11 DEF Good
<1> QED
  BY <1>12 DEF p, g, r

\* The button's request is answered.
LEMMA ReleasedGood ==
  ASSUME NEW pg, NEW f, NEW loc, Good(pg, f, loc),
         NEW n \in Number, f[n].mine, f[n].kind = Sends(loc), NEW to, NEW s
  PROVE  Good([Rendered(pg, to, s) EXCEPT !.busy = FALSE],
              [f EXCEPT ![n] = Idle], loc)
<1> DEFINE r == Rendered(pg, to, s)
           p == [r EXCEPT !.busy = FALSE]
           g == [f EXCEPT ![n] = Idle]
<1>1. Good(r, f, loc)
  BY RenderedGood
<1> HIDE DEF r
<1>3. /\ p \in PageType
      /\ p.loading = r.loading /\ p.shown = r.shown /\ p.error = r.error
      /\ ~p.busy /\ p.moved = r.moved /\ p.excuse = r.excuse
  BY <1>1 DEF Good, PageType
<1>4. /\ g \in Flights /\ ~g[n].mine
      /\ \A k \in Number : k # n => g[k] = f[k]
  BY RequestFields DEF Good, Flights
<1> HIDE DEF p, g
<1>6. Named(loc) => Fetches(loc) # Sends(loc)
  BY Kinds DEF Good
<1>7. f[n].kind # "nothing"
  BY RequestFields DEF Good, Flights
<1>8. f[n].kind # Fetches(loc)
  BY <1>6, <1>7 DEF Named
<1>9. Own(g, loc) /\ AskedOnce(p, g, loc)
  BY <1>1, <1>3, <1>4 DEF Good, Own, AskedOnce
<1>10. Waits(p, g, loc)
  <2>1. \A k \in Number : f[k].mine /\ f[k].kind = Sends(loc) => k = n
    BY <1>1 DEF Good, Waits
  <2> QED
    BY <1>1, <1>3, <1>4, <1>8, <2>1 DEF Good, Waits
<1>11. Explained(p, g, loc)
  BY <1>1, <1>3, <1>4, <1>8 DEF Good, Explained, Asking
<1>12. Good(p, g, loc)
  BY <1>1, <1>3, <1>4, <1>9, <1>10, <1>11 DEF Good
<1> QED
  BY <1>12 DEF p, g, r

\* What a load brings, or that it failed: p is the page after it.
LEMMA AnsweredGood ==
  ASSUME NEW pg, NEW f, NEW loc, Good(pg, f, loc),
         NEW n \in Number, f[n].mine, f[n].kind \in {"course", "play"},
         NEW p \in PageType,
         ~p.loading, p.busy = pg.busy, p.moved = pg.moved,
         \/ /\ p.shown = f[n].arg /\ p.error = pg.error
            /\ p.excuse = IF f[n].arg = loc.id THEN "none" ELSE "overtaken"
         \/ /\ p.shown = pg.shown
            /\ p.error = (pg.error \/ f[n].kind = "play")
            /\ p.excuse = IF f[n].arg = loc.id THEN "failed" ELSE pg.excuse
  PROVE  Good(p, [f EXCEPT ![n] = Idle], loc)
<1> DEFINE g == [f EXCEPT ![n] = Idle]
<1>1. /\ g \in Flights /\ ~g[n].mine
      /\ \A k \in Number : k # n => g[k] = f[k]
  BY RequestFields DEF Good, Flights
<1> HIDE DEF g
<1>2. f[n].kind = Fetches(loc) /\ f[n].kind # Sends(loc)
  BY Kinds DEF Good, Own
<1>3. Own(g, loc)
  BY <1>1 DEF Good, Own
<1>4. AskedOnce(p, g, loc)
  BY <1>1, <1>2 DEF Good, AskedOnce
<1>5. Waits(p, g, loc)
  BY <1>1, <1>2 DEF Good, Waits
<1>6. ~pg.moved => f[n].arg = loc.id /\ ~pg.error
  BY <1>2 DEF Good, AskedOnce
<1>7. Explained(p, g, loc)
  <2>1. CASE p.shown = f[n].arg /\ p.error = pg.error
             /\ p.excuse = IF f[n].arg = loc.id THEN "none" ELSE "overtaken"
    BY <1>6, <2>1 DEF Explained
  <2>2. CASE /\ p.shown = pg.shown
             /\ p.error = (pg.error \/ f[n].kind = "play")
             /\ p.excuse = IF f[n].arg = loc.id THEN "failed" ELSE pg.excuse
    BY <1>1, <1>2, <1>6, <2>2 DEF Good, Explained, Asking
  <2> QED
    BY <2>1, <2>2
<1>8. Good(p, g, loc)
  BY <1>1, <1>3, <1>4, <1>5, <1>7 DEF Good
<1> QED
  BY <1>8 DEF g

-----------------------------------------------------------------------------
(* The inductive invariant, and the steps that navigate. *)

Inv ==
  /\ store \in Session
  /\ History(hist) /\ pos \in 1 .. Len(hist)
  /\ header \in Session \cup {None}
  /\ elsewhere \in SUBSET {"header", "form"}
  /\ Good(page, flight, Here)
  /\ RenderedSession

LEMMA EntryLocation ==
  ASSUME NEW h, History(h), NEW p \in 1 .. Len(h)
  PROVE  h[p].loc \in Location
<1>1. h[p] \in Entries
  BY ElementOfSeq DEF History
<1> QED
  BY <1>1 DEF Entries

LEMMA LastEntry ==
  ASSUME NEW h, History(h)
  PROVE  Len(h) \in 1 .. Len(h)
BY HistoryAssumption DEF History

LEMMA NobodyIsSession == Nobody \in Session /\ None \notin Session
BY NoneAssumption DEF Session

\* Where the router or a new document ends up: at the location or, for whoever
\* is not logged in and wants to see a video, on the login page.
LEMMA Redirected ==
  ASSUME NEW h, History(h), NEW p \in 1 .. Len(h), NEW barred \in BOOLEAN,
         hist' = IF barred THEN Pushed(h, p, LoginPage, FALSE) ELSE h,
         pos' = IF barred THEN Len(hist') ELSE p
  PROVE  /\ History(hist') /\ pos' \in 1 .. Len(hist')
         /\ Here' = IF barred THEN LoginPage ELSE h[p].loc
<1>1. CASE barred
  <2>1. hist' = Pushed(h, p, LoginPage, FALSE) /\ pos' = Len(hist')
    BY <1>1
  <2>2. LET g == Pushed(h, p, LoginPage, FALSE)
        IN  History(g) /\ g[Len(g)].loc = LoginPage
    BY PushedIsHistory, Locations
  <2>3. History(hist') /\ hist'[Len(hist')].loc = LoginPage
    BY <2>1, <2>2
  <2>4. Len(hist') \in 1 .. Len(hist')
    BY <2>3, LastEntry
  <2> QED
    BY <1>1, <2>1, <2>3, <2>4 DEF Here
<1>2. CASE ~barred
  BY <1>2 DEF Here
<1> QED
  BY <1>1, <1>2

LEMMA ArrivedInv ==
  ASSUME store' \in Session, History(hist'), pos' \in 1 .. Len(hist'),
         NEW to \in Location, Here' = to,
         Good(page', flight', to),
         header' = IF InLayout(to) THEN store' ELSE None,
         elsewhere' \in SUBSET {"header", "form"},
         Kind(to) \in Guarded /\ "form" \notin elsewhere'
           => (page'.form <=> store' \in Admin)
  PROVE  Inv'
<1>1. Good(page, flight, Here)'
  BY DEF Good, Own, Waits, AskedOnce, Explained, Asking
<1>2. header' # None <=> InLayout(to)
  BY NobodyIsSession
<1>3. RenderedSession'
  BY <1>2 DEF RenderedSession
<1> QED
  BY <1>1, <1>3 DEF Inv

LEMMA GoInv ==
  ASSUME Inv, NEW h, History(h), NEW p \in 1 .. Len(h), NEW s \in Session,
         NEW f \in Flights,
         Kind(h[p].loc) = Kind(Here) => Good(page, f, Here),
         Named(h[p].loc) => Slot(f),
         store' = s, s = store \/ Kind(h[p].loc) \notin Guarded,
         Go(h, p, s, f)
  PROVE  Inv'
<1> DEFINE barred == Barred(h[p].loc, s) /\ h[p].loc # Here
           to == IF barred THEN LoginPage ELSE h[p].loc
           kept == ~barred /\ Kind(to) = Kind(Here)
<1>1. to \in Location /\ h[p].loc \in Location /\ Here \in Location
  BY Locations, EntryLocation DEF Inv, Here
<1>2. /\ hist' = IF barred THEN Pushed(h, p, LoginPage, FALSE) ELSE h
      /\ pos' = IF barred THEN Len(hist') ELSE p
      /\ header' = IF InLayout(to) THEN s ELSE None
      /\ elsewhere' = IF kept /\ Kind(to) = "upload" THEN elsewhere \ {"header"}
                      ELSE {}
  BY DEF Go
<1>3. \/ /\ kept /\ to = Here
         /\ page' = IF Kind(to) = "create" THEN Rendered(page, to, s) ELSE page
         /\ flight' = f
      \/ /\ kept /\ to # Here
         /\ page' = Moved(page)
         /\ flight' = Refetch(f, to)
      \/ /\ ~kept
         /\ page' = Fresh(to, s)
         /\ flight' = Fetch(Orphaned(f), to)
  BY DEF Go
<1>4. barred \in BOOLEAN
  BY Zenon
<1>5. barred => ~Named(to)
  BY Locations, Kinds
<1>6. Named(to) => Slot(f)
  BY <1>5
<1>7. Kind(to) \in Guarded => ~barred /\ to = h[p].loc
  BY Locations DEF Guarded
<1>8. kept => Good(page, f, Here) /\ to = h[p].loc
  OBVIOUS
<1>9. /\ History(hist') /\ pos' \in 1 .. Len(hist')
      /\ Here' = to
  <2> HIDE DEF barred
  <2> QED
    BY <1>2, <1>4, Redirected
<1>10. elsewhere' \in SUBSET {"header", "form"}
  BY <1>2 DEF Inv
<1> HIDE DEF barred, to, kept
<1>11. CASE kept /\ to = Here
  <2>1. /\ page' = IF Kind(to) = "create" THEN Rendered(page, to, s) ELSE page
        /\ flight' = f
    BY <1>3, <1>11
  <2>2. Good(page', flight', to)
    <3>1. Good(page, f, to) /\ Good(Rendered(page, to, s), f, to)
      BY <1>8, <1>11, RenderedGood
    <3> QED
      BY <2>1, <3>1
  <2>3. ASSUME Kind(to) \in Guarded, "form" \notin elsewhere'
        PROVE  (page'.form <=> store' \in Admin)
    <3>1. CASE Kind(to) = "create"
      <4>1. page' = Rendered(page, to, s) /\ page \in PageType
        BY <2>1, <3>1 DEF Inv, Good
      <4>2. page'.form <=> Kind(to) \in Guarded /\ s \in Admin
        BY <4>1 DEF Rendered, PageType
      <4> QED
        BY <2>3, <4>2, Zenon
    <3>2. CASE Kind(to) = "upload"
      <4>1. "form" \notin elsewhere
        BY <1>2, <1>11, <2>3, <3>2
      <4>2. page.form <=> store \in Admin
        BY <1>11, <2>3, <4>1 DEF Inv, RenderedSession
      <4>3. page' = page /\ store' = store
        BY <1>7, <2>1, <2>3, <3>2
      <4> QED
        BY <4>2, <4>3
    <3> QED
      BY <2>3, <3>1, <3>2 DEF Guarded
  <2> QED
    BY <1>1, <1>2, <1>9, <1>10, <2>2, <2>3, ArrivedInv
<1>12. CASE kept /\ to # Here
  <2>1. page' = Moved(page) /\ flight' = Refetch(f, to)
    BY <1>3, <1>12
  <2>2. Kind(to) = Kind(Here)
    BY <1>12 DEF kept
  <2>3. Named(to)
    BY <1>1, <1>12, <2>2, SameKind
  <2>4. Good(page', flight', to)
    BY <1>1, <1>6, <1>8, <1>12, <2>1, <2>2, <2>3, MovedGood
  <2>5. Kind(to) \notin Guarded
    BY <1>1, <2>3, Kinds DEF Guarded
  <2> QED
    BY <1>1, <1>2, <1>9, <1>10, <2>4, <2>5, ArrivedInv
<1>13. CASE ~kept
  <2>1. page' = Fresh(to, s) /\ flight' = Fetch(Orphaned(f), to)
    BY <1>3, <1>13
  <2>2. Good(page', flight', to)
    BY <1>1, <1>6, <2>1, OrphanedFlights, FreshGood
  <2>3. page'.form <=> Kind(to) \in Guarded /\ store' \in Admin
    BY <2>1 DEF Fresh
  <2>4. Kind(to) \in Guarded => (page'.form <=> store' \in Admin)
    BY <2>3, Zenon
  <2> QED
    BY <1>1, <1>2, <1>9, <1>10, <2>2, <2>4, ArrivedInv
<1> QED
  BY <1>11, <1>12, <1>13

LEMMA LoadInv ==
  ASSUME NEW h, History(h), NEW p \in 1 .. Len(h), NEW s \in Session,
         store' = s, Load(h, p, s)
  PROVE  Inv'
<1> DEFINE barred == Barred(h[p].loc, s)
           to == IF barred THEN LoginPage ELSE h[p].loc
<1>1. to \in Location
  BY Locations, EntryLocation
<1>2. /\ hist' = IF barred THEN Pushed(h, p, LoginPage, FALSE) ELSE h
      /\ pos' = IF barred THEN Len(hist') ELSE p
      /\ page' = Fresh(to, s)
      /\ flight' = Fetch([n \in Number |-> Idle], to)
      /\ header' = IF InLayout(to) THEN s ELSE None
      /\ elsewhere' = {}
  BY DEF Load
<1>3. barred \in BOOLEAN
  BY Zenon DEF Barred
<1>4. /\ History(hist') /\ pos' \in 1 .. Len(hist')
      /\ Here' = to
  <2> HIDE DEF barred
  <2> QED
    BY <1>2, <1>3, Redirected
<1> HIDE DEF barred, to
<1>5. Good(page', flight', to)
  BY <1>1, <1>2, NoFlights, FreshGood
<1>6. page'.form <=> Kind(to) \in Guarded /\ store' \in Admin
  BY <1>2 DEF Fresh
<1>7. Kind(to) \in Guarded => (page'.form <=> store' \in Admin)
  BY <1>6, Zenon
<1> QED
  BY <1>1, <1>2, <1>4, <1>5, <1>7, ArrivedInv

LEMMA PushInv ==
  ASSUME Inv, NEW loc \in Location, NEW s \in Session, NEW f \in Flights,
         Kind(loc) = Kind(Here) => Good(page, f, Here),
         Named(loc) => Slot(f),
         store' = s, s = store \/ Kind(loc) \notin Guarded,
         Push(loc, s, f)
  PROVE  Inv'
<1> DEFINE h == Pushed(hist, pos, loc, FALSE)
<1>1. History(h) /\ h[Len(h)].loc = loc
  BY PushedIsHistory DEF Inv
<1>2. Len(h) \in 1 .. Len(h)
  BY <1>1, LastEntry
<1>3. Go(h, Len(h), s, f)
  BY DEF Push
<1> HIDE DEF h
<1> QED
  BY <1>1, <1>2, <1>3, GoInv

LEMMA FlightsTyped == Inv => flight \in Flights
BY DEF Inv, Good

LEMMA LinkInv ==
  ASSUME Inv, NEW loc \in Location, ~Named(loc), Link(loc)
  PROVE  Inv'
<1>1. CASE loc = Here
  <2>1. Go(hist, pos, store, flight) /\ store' = store
    BY <1>1 DEF Link
  <2> QED
    BY <1>1, <2>1, GoInv, FlightsTyped DEF Inv, Here
<1>2. CASE loc # Here
  <2>1. Push(loc, store, flight) /\ store' = store
    BY <1>2 DEF Link
  <2> QED
    BY <2>1, PushInv, FlightsTyped DEF Inv
<1> QED
  BY <1>1, <1>2

\* Somebody's session, and everybody's way to the login page or the list.
LEMMA PlainPushInv ==
  ASSUME Inv, NEW loc \in {LoginPage, ListPage}, NEW s \in Session,
         store' = s, Push(loc, s, flight)
  PROVE  Inv'
<1>1. loc \in Location /\ ~Named(loc) /\ Kind(loc) \notin Guarded
  BY Locations, Kinds DEF Guarded
<1> QED
  BY <1>1, PushInv, FlightsTyped DEF Inv

-----------------------------------------------------------------------------
(* The steps that leave the page where it is. *)

LEMMA StayInv ==
  ASSUME Inv, UNCHANGED <<store, hist, pos, header>>,
         Good(page', flight', Here),
         elsewhere' \in {elsewhere, elsewhere \ {"form"}},
         Kind(Here) \in Guarded /\ "form" \notin elsewhere'
           => (page'.form <=> store \in Admin)
  PROVE  Inv'
<1>1. Here' = Here
  BY DEF Here
<1>2. Good(page, flight, Here)'
  BY <1>1 DEF Good, Own, Waits, AskedOnce, Explained, Asking
<1>3. RenderedSession'
  <2>1. "header" \in elsewhere' <=> "header" \in elsewhere
    OBVIOUS
  <2> QED
    BY <1>1, <2>1 DEF Inv, RenderedSession
<1>4. elsewhere' \in SUBSET {"header", "form"}
  BY DEF Inv
<1> QED
  BY <1>2, <1>3, <1>4 DEF Inv

LEMMA RenderedForm ==
  ASSUME NEW pg \in PageType, NEW loc, NEW s, NEW b \in BOOLEAN
  PROVE  /\ Rendered(pg, loc, s).form <=> Kind(loc) \in Guarded /\ s \in Admin
         /\ [Rendered(pg, loc, s) EXCEPT !.busy = b].form
              <=> Kind(loc) \in Guarded /\ s \in Admin
<1> DEFINE form == Kind(loc) \in Guarded /\ s \in Admin
<1>1. Rendered(pg, loc, s) = [pg EXCEPT !.form = form]
  BY DEF Rendered
<1>2. form \in BOOLEAN
  BY Zenon
<1> HIDE DEF form
<1>3. [pg EXCEPT !.form = form].form = form
  BY DEF PageType
<1>4. [[pg EXCEPT !.form = form] EXCEPT !.busy = b].form = form
  BY <1>2 DEF PageType
<1> QED
  BY <1>1, <1>3, <1>4 DEF form

LEMMA SubmitInv ==
  ASSUME Inv, NEW arg, Request(Sends(Here), arg) \in Requests, ~page.busy,
         Submit(arg)
  PROVE  Inv'
<1> DEFINE q == Request(Sends(Here), arg)
<1>1. q.kind = Sends(Here) /\ q.mine
  BY DEF Request
<1>2. /\ page' = [Rendered(page, Here, store) EXCEPT !.busy = TRUE]
      /\ flight' = Sent(flight, q)
      /\ elsewhere' = elsewhere \ {"form"}
      /\ UNCHANGED <<store, hist, pos, header>>
  BY DEF Submit
<1>3. Good(page, flight, Here) /\ page \in PageType /\ Slot(flight)
  BY DEF Inv, Good, Submit, Room, Slot
<1> HIDE DEF q
<1>4. q \in Requests
  BY DEF q
<1>5. Good(page', flight', Here)
  BY <1>1, <1>2, <1>3, <1>4, SubmitGood
<1>6. page'.form <=> Kind(Here) \in Guarded /\ store \in Admin
  BY <1>2, <1>3, RenderedForm
<1> QED
  BY <1>2, <1>5, <1>6, StayInv

LEMMA HereIsLocation == Inv => Here \in Location
BY EntryLocation DEF Inv, Here

\* The requests that the buttons send.
LEMMA ButtonRequest ==
  ASSUME Inv
  PROVE  /\ Kind(Here) = "detail" => Request(Sends(Here), Here.id) \in Requests
         /\ Kind(Here) = "login" =>
              \A a \in Account : Request(Sends(Here), a) \in Requests
         /\ Kind(Here) \in {"register", "create", "upload"} =>
              Request(Sends(Here), None) \in Requests
<1>1. CASE Kind(Here) = "detail"
  <2>1. Here.id \in Course /\ Sends(Here) = "order"
    BY <1>1, HereIsLocation DEF Location, Plain, Kind, Sends
  <2> QED
    BY <1>1, <2>1 DEF Request, Requests
<1>2. CASE Kind(Here) = "login"
  <2>1. Sends(Here) = "login"
    BY <1>2 DEF Sends
  <2> QED
    BY <1>2, <2>1 DEF Request, Requests
<1>3. CASE Kind(Here) \in {"register", "create", "upload"}
  <2>1. Sends(Here) \in {"register", "publish", "upload"}
    BY <1>3 DEF Sends
  <2> QED
    BY <1>3, <2>1 DEF Request, Requests
<1> QED
  BY <1>1, <1>2, <1>3

LEMMA PageStep ==
  ASSUME Inv,
         \/ HandleBuy \/ \E a \in Account : SubmitLogin(a)
         \/ SubmitRegister \/ Publish \/ Upload
  PROVE  Inv'
<1>1. CASE HandleBuy
  <2>1. CASE store = Nobody /\ Push(LoginPage, store, flight) /\ UNCHANGED store
    BY <2>1, PlainPushInv DEF Inv
  <2>2. CASE store # Nobody /\ Submit(Here.id)
    BY <1>1, <2>2, SubmitInv, ButtonRequest DEF HandleBuy, CanBuy, DetailShown
  <2> QED
    BY <1>1, <2>1, <2>2 DEF HandleBuy
<1>2. ASSUME NEW a \in Account, SubmitLogin(a) PROVE Inv'
  BY <1>2, SubmitInv, ButtonRequest, Locations DEF SubmitLogin
<1>3. CASE SubmitRegister
  BY <1>3, SubmitInv, ButtonRequest DEF SubmitRegister
<1>4. CASE Publish
  BY <1>4, SubmitInv, ButtonRequest DEF Publish
<1>5. CASE Upload
  BY <1>5, SubmitInv, ButtonRequest DEF Upload
<1> QED
  BY <1>1, <1>2, <1>3, <1>4, <1>5

-----------------------------------------------------------------------------
(* The answers. *)

LEMMA OthersInv ==
  ASSUME Inv, NEW n \in Number, ~flight[n].mine
  PROVE  Good(page, Without(n), Here)
BY OthersAnswerGood DEF Inv, Without

LEMMA LoadedInv ==
  ASSUME Inv, NEW n \in Number, Loaded(n) \/ LoadFails(n)
  PROVE  Inv'
<1>1. /\ Good(page, flight, Here) /\ page \in PageType
      /\ flight[n] \in Requests \cup {Idle}
      /\ flight[n].kind \in {"course", "play"}
      /\ UNCHANGED <<store, hist, pos, header, elsewhere>>
      /\ flight' = [flight EXCEPT ![n] = Idle]
  BY DEF Inv, Good, Loaded, LoadFails, Concerns, Without, Flights
<1>2. CASE ~flight[n].mine
  <2>1. page' = page
    BY <1>2 DEF Loaded, LoadFails, Concerns
  <2>2. Good(page', flight', Here)
    BY <1>1, <1>2, <2>1, OthersAnswerGood
  <2> QED
    BY <1>1, <2>1, <2>2, StayInv DEF Inv, RenderedSession
<1>3. CASE flight[n].mine
  <2>1. flight[n].arg \in Course \cup Video
    BY <1>1, RequestFields
  <2>2. CASE Loaded(n)
    <3>1. page' = [page EXCEPT !.shown = flight[n].arg, !.loading = FALSE,
            !.excuse = IF flight[n].arg = Here.id THEN "none" ELSE "overtaken"]
      BY <1>3, <2>2 DEF Loaded, Concerns
    <3>2. /\ page' \in PageType
          /\ ~page'.loading /\ page'.busy = page.busy /\ page'.moved = page.moved
          /\ page'.shown = flight[n].arg /\ page'.error = page.error
          /\ page'.excuse =
               IF flight[n].arg = Here.id THEN "none" ELSE "overtaken"
          /\ page'.form = page.form
      BY <1>1, <2>1, <3>1 DEF PageType
    <3>3. Good(page', flight', Here)
      BY <1>1, <1>3, <3>2, AnsweredGood
    <3> QED
      BY <1>1, <3>2, <3>3, StayInv DEF Inv, RenderedSession
  <2>3. CASE LoadFails(n)
    <3> DEFINE error == page.error \/ flight[n].kind = "play"
               excuse == IF flight[n].arg = Here.id THEN "failed"
                         ELSE page.excuse
    <3>1. page' = [page EXCEPT !.loading = FALSE, !.error = error,
                               !.excuse = excuse]
      BY <1>3, <2>3 DEF LoadFails, Concerns
    <3>2. error \in BOOLEAN /\ excuse \in {"none", "failed", "overtaken"}
      <4>1. error \in BOOLEAN
        BY Zenon
      <4>2. excuse \in {"none", "failed", "overtaken"}
        BY <1>1 DEF PageType
      <4> QED
        BY <4>1, <4>2
    <3> HIDE DEF error, excuse
    <3>3. /\ page' \in PageType
          /\ ~page'.loading /\ page'.busy = page.busy /\ page'.moved = page.moved
          /\ page'.shown = page.shown /\ page'.error = error
          /\ page'.excuse = excuse
          /\ page'.form = page.form
      BY <1>1, <3>1, <3>2 DEF PageType
    <3>4. Good(page', flight', Here)
      BY <1>1, <1>3, <3>3, AnsweredGood DEF error, excuse
    <3> QED
      BY <1>1, <3>3, <3>4, StayInv DEF Inv, RenderedSession
  <2> QED
    BY <2>2, <2>3
<1> QED
  BY <1>2, <1>3

LEMMA ReleasedInv ==
  ASSUME Inv, NEW n \in Number, Done(n) \/ SubmitFails(n)
  PROVE  Inv'
<1>1. /\ Good(page, flight, Here) /\ page \in PageType
      /\ flight[n].kind \in {"order", "upload", "login", "register", "publish"}
      /\ UNCHANGED <<store, hist, pos, header>>
      /\ flight' = [flight EXCEPT ![n] = Idle]
      /\ elsewhere' = IF flight[n].mine THEN elsewhere \ {"form"} ELSE elsewhere
  BY DEF Inv, Good, Done, SubmitFails, Released, Concerns, Without
<1>2. CASE ~flight[n].mine
  <2>1. page' = page
    BY <1>2 DEF Done, SubmitFails, Released, Concerns
  <2>2. Good(page', flight', Here)
    BY <1>1, <1>2, <2>1, OthersAnswerGood
  <2> QED
    BY <1>1, <1>2, <2>1, <2>2, StayInv DEF Inv, RenderedSession
<1>3. CASE flight[n].mine
  <2>1. page' = [Rendered(page, Here, store) EXCEPT !.busy = FALSE]
    BY <1>3 DEF Done, SubmitFails, Released, Concerns
  <2>2. flight[n].kind = Sends(Here)
    BY <1>1, <1>3, Kinds DEF Good, Own
  <2>3. Good(page', flight', Here)
    BY <1>1, <1>3, <2>1, <2>2, ReleasedGood
  <2>4. page'.form <=> Kind(Here) \in Guarded /\ store \in Admin
    BY <1>1, <2>1, RenderedForm
  <2> QED
    BY <1>1, <2>3, <2>4, StayInv
<1> QED
  BY <1>2, <1>3

\* A login, a registration or a publication is answered: the tab moves on.
LEMMA MovesOnInv ==
  ASSUME Inv, NEW n \in Number, LoggedIn(n) \/ Registered(n) \/ Published(n)
  PROVE  Inv'
<1>1. Without(n) \in Flights /\ flight[n] \in Requests \cup {Idle}
  BY DEF Inv, Good, Flights, Without
<1>2. ASSUME Kind(Here) \in {"list", "login"}, flight[n].mine
      PROVE  flight[n].kind \in {"nothing", "login"}
             /\ (Kind(Here) = "list" => flight[n].kind = "nothing")
  BY <1>2 DEF Inv, Good, Own, Fetches, Sends
<1>3. flight[n].kind # "nothing"
  BY <1>1, RequestFields
<1>4. CASE LoggedIn(n)
  <2>1. /\ flight[n].kind = "login"
        /\ store' = flight[n].arg
        /\ Push(ListPage, flight[n].arg, Without(n))
    BY <1>4 DEF LoggedIn
  <2>2. flight[n].arg \in Session
    BY <1>1, <2>1, RequestFields DEF Session
  <2>3. Kind(Here) = "list" => Good(page, Without(n), Here)
    BY <1>2, <1>3, OthersInv
  <2>4. Kind(ListPage) \notin Guarded /\ ~Named(ListPage)
    BY Locations, Kinds DEF Guarded
  <2> QED
    BY <1>1, <2>1, <2>2, <2>3, <2>4, Locations, PushInv
<1>5. CASE Registered(n)
  <2>1. /\ flight[n].kind = "register" /\ store' = store
        /\ Push(LoginPage, store, Without(n))
    BY <1>5 DEF Registered
  <2>2. Kind(Here) = "login" => Good(page, Without(n), Here)
    BY <1>2, <2>1, OthersInv
  <2>3. ~Named(LoginPage)
    BY Locations, Kinds
  <2> QED
    BY <1>1, <2>1, <2>2, <2>3, Locations, PushInv DEF Inv
<1>6. CASE Published(n)
  <2>1. /\ flight[n].kind = "publish" /\ store' = store
        /\ Push(ListPage, store, Without(n))
    BY <1>6 DEF Published
  <2>2. Kind(Here) = "list" => Good(page, Without(n), Here)
    BY <1>2, <1>3, OthersInv
  <2>3. ~Named(ListPage)
    BY Locations, Kinds
  <2> QED
    BY <1>1, <2>1, <2>2, <2>3, Locations, PushInv DEF Inv
<1> QED
  BY <1>4, <1>5, <1>6

LEMMA UnauthorizedInv ==
  ASSUME Inv, NEW n \in Number, Unauthorized(n)
  PROVE  Inv'
<1>1. CASE Here = LoginPage
  <2>1. Load(hist, pos, Nobody) /\ store' = Nobody
    BY <1>1 DEF Unauthorized
  <2> QED
    BY <2>1, LoadInv, NobodyIsSession DEF Inv
<1>2. CASE Here # LoginPage
  <2> DEFINE h == Pushed(hist, pos, LoginPage, TRUE)
  <2>1. Load(h, Len(h), Nobody) /\ store' = Nobody
    BY <1>2 DEF Unauthorized
  <2>2. History(h)
    BY PushedIsHistory, Locations DEF Inv
  <2> HIDE DEF h
  <2> QED
    BY <2>1, <2>2, LastEntry, LoadInv, NobodyIsSession
<1> QED
  BY <1>1, <1>2

LEMMA AnswerInv ==
  ASSUME Inv, NEW n \in Number, Answer(n)
  PROVE  Inv'
BY LoadedInv, ReleasedInv, MovesOnInv, UnauthorizedInv DEF Answer

LEMMA ProgressInv ==
  ASSUME Inv, NEW n \in Number, Progress(n)
  PROVE  Inv'
<1>1. /\ page' = Rendered(page, Here, store)
      /\ elsewhere' = elsewhere \ {"form"}
      /\ UNCHANGED <<store, hist, pos, header, flight>>
  BY DEF Progress
<1>2. Good(page, flight, Here) /\ page \in PageType
  BY DEF Inv, Good
<1>3. Good(page', flight', Here)
  BY <1>1, <1>2, RenderedGood
<1>4. page'.form <=> Kind(Here) \in Guarded /\ store \in Admin
  BY <1>1, <1>2, RenderedForm
<1> QED
  BY <1>1, <1>3, <1>4, StayInv

-----------------------------------------------------------------------------
(* The header, the links and the browser. *)

LEMMA HeaderStep ==
  ASSUME Inv,
         \/ Home \/ Menu \/ LoginButton \/ HandleLogout \/ ToRegister \/ ToLogin
         \/ \E c \in Course : OpenCourse(c)
         \/ \E v \in Video : HandlePlay(v)
  PROVE  Inv'
<1>1. \A k \in Plain : Loc(k, None) \in Location /\ ~Named(Loc(k, None))
  BY Locations, Kinds DEF Plain
<1>2. ~Named(ListPage) /\ ~Named(LoginPage)
  BY Locations, Kinds
<1>3. CASE Home
  BY <1>3, PlainPushInv DEF Home, Inv
<1>4. CASE Menu
  BY <1>1, <1>2, <1>4, LinkInv, Locations DEF Menu, Guarded, Plain
<1>5. CASE LoginButton
  BY <1>5, PlainPushInv DEF LoginButton, Inv
<1>6. CASE HandleLogout
  BY <1>6, PlainPushInv, NobodyIsSession DEF HandleLogout
<1>7. CASE ToRegister \/ ToLogin
  BY <1>1, <1>2, <1>7, LinkInv, Locations DEF ToRegister, ToLogin, Plain
<1>8. ASSUME NEW c \in Course, OpenCourse(c) PROVE Inv'
  <2>1. /\ Push(Loc("detail", c), store, flight) /\ store' = store
        /\ Slot(flight)
    BY <1>8 DEF OpenCourse, Room, Slot
  <2> QED
    BY <2>1, Locations, PushInv, FlightsTyped DEF Inv
<1>9. ASSUME NEW v \in Video, HandlePlay(v) PROVE Inv'
  <2>1. CASE Push(LoginPage, store, flight) /\ store' = store
    BY <2>1, PlainPushInv DEF Inv
  <2>2. CASE /\ Push(Loc("player", v), store, flight) /\ store' = store
             /\ Slot(flight)
    BY <2>2, Locations, PushInv, FlightsTyped DEF Inv
  <2> QED
    BY <1>9, <2>1, <2>2 DEF HandlePlay, Room, Slot
<1> QED
  BY <1>3, <1>4, <1>5, <1>6, <1>7, <1>8, <1>9

LEMMA BrowserStep ==
  ASSUME Inv,
         \/ \E p \in DOMAIN hist : Jump(p)
         \/ Return \/ Reload
         \/ \E s \in Session : OtherTab(s)
  PROVE  Inv'
<1>0. DOMAIN hist = 1 .. Len(hist)
  BY LenProperties DEF Inv, History
<1>1. ASSUME NEW p \in 1 .. Len(hist), Jump(p) PROVE Inv'
  <2>1. store' = store /\ Slot(flight)
    BY <1>1 DEF Jump, Room, Slot
  <2>2. CASE Load(hist, p, store)
    BY <2>1, <2>2, LoadInv DEF Inv
  <2>3. CASE Go(hist, p, store, flight)
    BY <2>1, <2>3, GoInv, FlightsTyped DEF Inv
  <2> QED
    BY <1>1, <2>2, <2>3 DEF Jump
<1>2. CASE Return
  <2>1. pos - 1 \in 1 .. Len(hist) /\ Jump(pos - 1)
    BY <1>2, HistoryAssumption DEF Return, Inv, History
  <2> QED
    BY <1>1, <2>1
<1>3. CASE Reload
  BY <1>3, LoadInv DEF Reload, Inv
<1>4. ASSUME NEW s \in Session, OtherTab(s) PROVE Inv'
  <2>1. /\ store' = s
        /\ elsewhere' = (IF InLayout(Here) THEN {"header"} ELSE {})
                          \cup (IF Kind(Here) \in Guarded THEN {"form"} ELSE {})
        /\ UNCHANGED <<hist, pos, page, header, flight>>
    BY <1>4 DEF OtherTab
  <2>2. Here' = Here
    BY <2>1 DEF Here
  <2>3. Good(page, flight, Here)'
    BY <2>1, <2>2 DEF Inv, Good, Own, Waits, AskedOnce, Explained, Asking
  <2>4. RenderedSession'
    BY <2>1, <2>2 DEF Inv, RenderedSession
  <2> QED
    BY <2>1, <2>3, <2>4 DEF Inv
<1> QED
  BY <1>0, <1>1, <1>2, <1>3, <1>4

-----------------------------------------------------------------------------
(* The theorems. *)

LEMMA ShortHistory ==
  ASSUME NEW d \in Entries, NEW e \in Entries, NEW h,
         h = <<d>> \/ h = <<e, d>>
  PROVE  History(h) /\ Len(h) \in 1 .. Len(h) /\ h[Len(h)] = d
<1>1. <<d>> \in Seq(Entries) /\ Len(<<d>>) = 1 /\ <<d>>[1] = d
  OBVIOUS
<1>2. <<e, d>> \in Seq(Entries) /\ Len(<<e, d>>) = 2 /\ <<e, d>>[2] = d
  OBVIOUS
<1>3. h \in Seq(Entries) /\ Len(h) \in {1, 2} /\ h[Len(h)] = d
  BY <1>1, <1>2, Zenon
<1> QED
  BY <1>3, HistoryAssumption DEF History

LEMMA InitInv == Init => Inv
<1> SUFFICES ASSUME NEW s \in Session, NEW path \in Location \cup {None},
                    LET loc == Landing(path)
                        to == IF Barred(loc, s) THEN LoginPage ELSE loc
                        none == [n \in Number |-> Idle]
                    IN /\ store = s
                       /\ hist = IF to = loc THEN <<Entry(loc, FALSE)>>
                                 ELSE <<Entry(loc, FALSE), Entry(to, FALSE)>>
                       /\ pos = Len(hist)
                       /\ page = Fresh(to, s)
                       /\ header = IF InLayout(to) THEN s ELSE None
                       /\ flight = Fetch(none, to)
                       /\ elsewhere = {}
             PROVE  Inv
  BY DEF Init
<1> DEFINE loc == Landing(path)
           to == IF Barred(loc, s) THEN LoginPage ELSE loc
<1>1. loc \in Location /\ to \in Location
  BY Locations DEF Landing
<1>2. Entry(loc, FALSE) \in Entries /\ Entry(to, FALSE) \in Entries
  BY <1>1 DEF Entry, Entries
<1>3. /\ \/ hist = <<Entry(loc, FALSE)>> /\ to = loc
         \/ hist = <<Entry(loc, FALSE), Entry(to, FALSE)>>
      /\ pos = Len(hist) /\ store = s
      /\ page = Fresh(to, s)
      /\ flight = Fetch([n \in Number |-> Idle], to)
      /\ header = IF InLayout(to) THEN s ELSE None
      /\ elsewhere = {}
  OBVIOUS
<1>4. Entry(to, FALSE).loc = to
  BY DEF Entry
<1> HIDE DEF loc, to
<1>5. History(hist) /\ pos \in 1 .. Len(hist) /\ hist[pos] = Entry(to, FALSE)
  <2> DEFINE e == Entry(loc, FALSE)
             d == Entry(to, FALSE)
  <2>1. e \in Entries /\ d \in Entries
    BY <1>2
  <2>2. (hist = <<e>> /\ e = d) \/ hist = <<e, d>>
    BY <1>3
  <2>3. pos = Len(hist)
    BY <1>3
  <2> HIDE DEF e, d
  <2>4. hist = <<d>> \/ hist = <<e, d>>
    BY <2>2
  <2>5. History(hist) /\ Len(hist) \in 1 .. Len(hist) /\ hist[Len(hist)] = d
    BY <2>1, <2>4, ShortHistory, Zenon
  <2> QED
    BY <2>3, <2>5 DEF d
<1>6. Here = to
  BY <1>4, <1>5 DEF Here
<1>7. Good(page, flight, Here)
  BY <1>1, <1>3, <1>6, NoFlights, FreshGood
<1>8. page.form <=> Kind(to) \in Guarded /\ s \in Admin
  <2>1. page = Fresh(to, s)
    BY <1>3
  <2>2. Fresh(to, s).form <=> Kind(to) \in Guarded /\ s \in Admin
    BY Zenon DEF Fresh
  <2> QED
    BY <2>1, <2>2, Zenon
<1>9. RenderedSession
  BY <1>3, <1>6, <1>8, NobodyIsSession DEF RenderedSession
<1> QED
  BY <1>3, <1>5, <1>7, <1>9 DEF Inv

LEMMA StepInv == Inv /\ [Next]_vars => Inv'
<1>1. ASSUME Inv, UNCHANGED vars PROVE Inv'
  BY <1>1 DEF vars, Inv, Good, Own, Waits, AskedOnce, Explained, Asking, Here,
     RenderedSession
<1> QED
  BY <1>1, HeaderStep, PageStep, AnswerInv, ProgressInv, BrowserStep DEF Next

LEMMA Invariant == Spec => []Inv
BY InitInv, StepInv, PTL DEF Spec

\* Every variable of the tab keeps its type.
THEOREM TypeCorrect == Spec => []TypeOK
<1>1. Inv => TypeOK
  BY LenProperties
     DEF Inv, Good, TypeOK, History, Entries, PageType, Flights
<1> QED
  BY <1>1, Invariant, PTL

\* A detail page shows, and its button buys, the course of its address, and a
\* player plays the video of its address, for any number of requests and jumps,
\* but for the answers that are out, failed or overtaken.
THEOREM ShowsWhatIsNamed == Spec => []ShownIsCurrent
<1>1. Inv => ShownIsCurrent
  <2> SUFFICES ASSUME Inv PROVE ShownIsCurrent
    OBVIOUS
  <2>1. Explained(page, flight, Here)
    BY DEF Inv, Good
  <2> QED
    BY <2>1 DEF Explained, Asking, ShownIsCurrent, Pending, OnScreen
<1> QED
  BY <1>1, Invariant, PTL

\* Header and administrators' forms follow the session that this tab changes.
THEOREM RendersTheSession == Spec => []RenderedSession
<1>1. Inv => RenderedSession
  BY DEF Inv
<1> QED
  BY <1>1, Invariant, PTL

\* No spinner turns and no button waits without a request that will end it, and
\* no button has two.
THEOREM NeverWaitsForNothing == Spec => []WaitsForSomething
<1>1. Inv => WaitsForSomething
  BY DEF Inv, Good, Waits, WaitsForSomething
<1> QED
  BY <1>1, Invariant, PTL

=============================================================================
