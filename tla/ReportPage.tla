------------------------------ MODULE ReportPage ------------------------------
(***************************************************************************)
(* A panel of the load test's report in a browser: its graph and overview, *)
(* the list of its series with a box each, the menu that shows or hides    *)
(* all of them, and the zoom (js/graph.js and js/dashboard-commons.js).    *)
(* The panels of a page share nothing: the model has one, of any kind.     *)
(*                                                                         *)
(* What the code keeps in the page's elements is one record, ui, and the   *)
(* functions that change it take the record and return it.                 *)
(*                                                                         *)
(* The panel's series are numbered as in the data; Rank(s) is the place of *)
(* s in the list, which is sorted by name.  Ranges of the x axis stand for *)
(* those of both axes.                                                     *)
(***************************************************************************)
EXTENDS ReportPanels, Integers, FiniteSets

CONSTANTS
  MaxSeries,  \* bound on the number of series
  Rank,       \* series -> its place among the names
  Width,      \* the x axis is 0 .. Width
  Offset,     \* what local times are ahead: 8 hours
  Nothing     \* nothing drawn, nothing selected

ASSUME SeriesAssumption == MaxSeries \in Nat \ {0}
ASSUME RankAssumption ==
  /\ Rank \in [1 .. MaxSeries -> 1 .. MaxSeries]
  /\ \A s, t \in 1 .. MaxSeries : Rank[s] = Rank[t] => s = t
ASSUME WidthAssumption == Width \in Nat \ {0}
ASSUME OffsetAssumption == Offset \in Nat \ {0}
\* Nothing is neither a drawing nor a range.
ASSUME NothingAssumption ==
  /\ \A S \in SUBSET (1 .. MaxSeries) : Nothing \notin [S -> 1 .. MaxSeries]
  /\ Nothing \notin [from : 0 .. Width, to : 0 .. Width]

VARIABLES
  panel,   \* the panel, for good
  series,  \* the series in its data, for good
  ui,      \* what the elements of the page and the data hold
  open,    \* the panel is expanded
  loaded,  \* the page is ready
  early,   \* history: the menu had the graph drawn before it was expanded
  blind    \* history: the menu was last used when there were no boxes yet

reportVars == <<panel, series, ui, open, loaded, early, blind>>

(***************************************************************************)
(* ui.  shift: what was added to the times in the data; listed: how often  *)
(* the list of series was filled; boxes: the series whose box is checked;  *)
(* grey: those whose label is; faded: those whose colour is; swatch: the   *)
(* colours in the list; plot, overview: the drawn series with their        *)
(* colours, and origin the shift they were drawn with; zoom: the range the *)
(* graph shows; selection: the range selected in the overview.             *)
(***************************************************************************)
FromTo(a, b) == [from |-> a, to |-> b]
Full == FromTo(0, Width)
Ranges == {r \in [from : 0 .. Width, to : 0 .. Width] : r.from <= r.to}

Blank ==
  [shift |-> 0, listed |-> 0, boxes |-> {}, grey |-> {}, faded |-> {},
   swatch |-> Nothing, plot |-> Nothing, overview |-> Nothing, origin |-> 0,
   zoom |-> Full, selection |-> Nothing]

IsGraph(u) == u.plot # Nothing

Place(s, drawn) == Cardinality({t \in drawn : Rank[t] <= Rank[s]})
\* Mutant: series are drawn in the colour of their place among the drawn.
ColourUnmarked(s, drawn) == IF panel.marked THEN Place(s, drawn) ELSE s
\* Every series has the colour of its own, as the data or prepareSeries has it.
Colour(s, drawn) == s
\* The series whose boxes are checked.
PrepareData(u) == [s \in u.boxes |-> Colour(s, u.boxes)]
\* The overview's series, with points where the graph has no lines.
Overview(u) == [data |-> PrepareData(u), points |-> panel.lines = "hidden"]

\* Every box is checked.
CreateLegend(u) == [u EXCEPT !.listed = @ + 1, !.boxes = series]

FixTimeStamps(u) == [u EXCEPT !.shift = @ + Offset]

\* Mutant: the overview is set up once.
CreateGraphOnly(u) ==
  [u EXCEPT !.plot = PrepareData(u), !.origin = u.shift, !.zoom = Full,
            !.overview = IF ~panel.overview \/ @ # Nothing THEN @ ELSE Overview(u)]
\* Both graphs are drawn anew, and with them zoom and selection are gone.
CreateGraph(u) ==
  [u EXCEPT !.plot = PrepareData(u), !.origin = u.shift, !.zoom = Full,
            !.overview = IF panel.overview THEN Overview(u) ELSE Nothing,
            !.selection = Nothing]

\* The first drawing's colours are copied into the list, the i-th entry of
\* the plot's own legend to the i-th of the list.
CopySwatches(u) ==
  [u EXCEPT !.swatch = [s \in series |->
     u.plot[CHOOSE t \in DOMAIN u.plot : Place(t, DOMAIN u.plot) = Place(s, series)]]]

\* Mutant: times are shifted whatever the caller asks for.
RefreshEver(u, fix) ==
  IF panel.guard /\ series = {} THEN u
  ELSE LET v == IF panel.time THEN FixTimeStamps(u) ELSE u
       IN IF IsGraph(v) THEN CreateGraph(v)
          ELSE CopySwatches(CreateGraph(CreateLegend(v)))
\* The refresh function of the panel.
Refresh(u, fix) ==
  IF panel.guard /\ series = {} THEN u
  ELSE LET v == IF fix /\ panel.time THEN FixTimeStamps(u) ELSE u
       IN IF IsGraph(v) THEN CreateGraph(v)
          ELSE CopySwatches(CreateGraph(CreateLegend(v)))

(***************************************************************************)
(* The page.                                                               *)
(***************************************************************************)
ReportInit ==
  /\ panel \in Panel
  /\ \E n \in 0 .. MaxSeries : series = 1 .. n
  /\ ui = Blank
  /\ open = panel.ready
  /\ loaded = FALSE /\ early = FALSE /\ blind = FALSE

Ready ==
  /\ ~loaded /\ loaded' = TRUE
  /\ ui' = IF panel.ready THEN Refresh(ui, TRUE) ELSE ui
  /\ UNCHANGED <<panel, series, open, early, blind>>

\* Expanding a panel draws it, unless it is drawn.
Shown(u) ==
  IF panel.ready \/ IsGraph(u) THEN u ELSE Refresh(u, TRUE)
Expand ==
  /\ loaded /\ ~open /\ open' = TRUE
  /\ ui' = Shown(ui)
  /\ UNCHANGED <<panel, series, loaded, early, blind>>
\* By its heading, or with all others by the arrows beside it.
Collapse ==
  /\ loaded /\ open /\ open' = FALSE
  /\ UNCHANGED <<panel, series, ui, loaded, early, blind>>

\* Mutant: the labels are left alone.
ToggledUnlabelled(u, checked) ==
  LET there == IF u.listed > 0 THEN series ELSE {}
  IN Refresh([u EXCEPT !.boxes = IF checked THEN there ELSE {},
                       !.faded = IF checked THEN {} ELSE there], FALSE)
\* The menu in the heading, which is there when the panel is not expanded
\* too: the boxes there are, then the graph, then the labels there are by now.
Toggled(u, checked) ==
  LET there == IF u.listed > 0 THEN series ELSE {}
      boxed == [u EXCEPT !.boxes = IF checked THEN there ELSE {},
                         !.faded = IF checked THEN {} ELSE there]
      drawn == Refresh(boxed, FALSE)
      labels == IF drawn.listed > 0 THEN series ELSE {}
  IN [drawn EXCEPT !.grey = IF checked THEN {} ELSE labels]
ToggleAll(checked) ==
  /\ loaded
  /\ ui' = Toggled(ui, checked)
  /\ early' = (early \/ ~IsGraph(ui))
  /\ blind' = (~checked /\ ui.listed = 0)
  /\ UNCHANGED <<panel, series, open, loaded>>

\* A label in the list: its colour, its swatch's, its box, and the graph.
Flip(s, set) == IF s \in set THEN set \ {s} ELSE set \cup {s}
Click(s) ==
  /\ loaded /\ open /\ ui.listed > 0 /\ s \in series
  /\ ui' = CreateGraph([ui EXCEPT !.grey = Flip(s, @), !.faded = Flip(s, @),
                                  !.boxes = Flip(s, @)])
  /\ UNCHANGED <<panel, series, open, loaded, early, blind>>

(***************************************************************************)
(* The zoom.                                                               *)
(***************************************************************************)
Zoomable == open /\ IsGraph(ui) /\ panel.overview
\* A range is kept from becoming a point: 1 stands for the least width.
Clamp(r) == IF r.from = r.to THEN FromTo(r.from, r.from + 1) ELSE r
Within(r, window) == window.from <= r.from /\ r.to <= window.to
\* The graph is zoomed and the overview told, without an event of its own.
PlotSelected(u, r) == [u EXCEPT !.zoom = Clamp(r), !.selection = Clamp(r)]

SelectInGraph(r) ==
  /\ Zoomable /\ Within(r, ui.zoom) /\ r.from < Width
  /\ ui' = PlotSelected(ui, r)
  /\ UNCHANGED <<panel, series, open, loaded, early, blind>>
\* The overview's selection is handed to the graph, whose event does the rest.
SelectInOverview(r) ==
  /\ Zoomable /\ r.from < Width
  /\ ui' = PlotSelected([ui EXCEPT !.selection = r], r)
  /\ UNCHANGED <<panel, series, open, loaded, early, blind>>
\* The graph takes the overview's axes.
Unselect ==
  /\ Zoomable
  /\ ui' = [ui EXCEPT !.selection = Nothing, !.zoom = Full]
  /\ UNCHANGED <<panel, series, open, loaded, early, blind>>

ReportNext ==
  \/ Ready \/ Expand \/ Collapse
  \/ \E checked \in BOOLEAN : ToggleAll(checked)
  \/ \E s \in series : Click(s)
  \/ \E r \in Ranges : SelectInGraph(r) \/ SelectInOverview(r)
  \/ Unselect

ReportSpec == ReportInit /\ [][ReportNext]_reportVars

(***************************************************************************)
(* Properties.                                                             *)
(***************************************************************************)

\* The variables have their types.
ReportTypeOK ==
  /\ panel \in Panel
  /\ \E n \in 0 .. MaxSeries : series = 1 .. n
  /\ ui.shift \in {0, Offset} /\ ui.origin \in {0, Offset} /\ ui.listed \in 0 .. 1
  /\ ui.boxes \subseteq series /\ ui.grey \subseteq series /\ ui.faded \subseteq series
  /\ ui.zoom \in Ranges /\ ui.selection \in Ranges \cup {Nothing}
  /\ <<open, loaded, early, blind>> \in BOOLEAN \X BOOLEAN \X BOOLEAN \X BOOLEAN

\* The graph shows the series whose boxes are checked, in the colours the
\* list shows beside them, whichever others are hidden, and the list was
\* filled once: a box, a colour and a curve always belong together.
DrawnIsChecked ==
  /\ ui.listed = (IF IsGraph(ui) THEN 1 ELSE 0)
  /\ IsGraph(ui) =>
       /\ DOMAIN ui.plot = ui.boxes
       /\ \A s \in ui.boxes : ui.plot[s] = ui.swatch[s]
       /\ ui.faded = series \ ui.boxes

\* The overview shows what the graph does, as lines or as points, and selects
\* the range the graph shows; without a selection that is all of it.
OverviewAgrees ==
  IsGraph(ui) /\ panel.overview =>
    /\ ui.overview.data = ui.plot
    /\ panel.lines = "hidden" => ui.overview.points
    /\ IF ui.selection = Nothing THEN ui.zoom = Full ELSE ui.zoom = ui.selection

\* Times are shown as local ones: shifted once and never twice, unless the
\* menu was used before the panel was first expanded.  The graph is then
\* drawn with the times as they are recorded, and stays so.
ShiftedOnce ==
  IsGraph(ui) =>
    ui.origin = (IF panel.time /\ ~early THEN Offset ELSE 0)

\* The labels that are grey are those of the hidden series.  When the menu hid
\* all samples before there were boxes it made every label grey and hid none:
\* the labels then say the opposite, until the menu is used again.
GreyMeansHidden ==
  ui.grey = (IF blind THEN ui.boxes ELSE IF ui.listed > 0 THEN series \ ui.boxes ELSE {})
=============================================================================
