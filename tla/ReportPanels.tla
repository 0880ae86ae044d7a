----------------------------- MODULE ReportPanels -----------------------------
(***************************************************************************)
(* The panels of the load test's report (src/Jmeter/report/content/pages), *)
(* as js/graph.js describes each of them by its infos and its refresh      *)
(* function: what of them decides how the panel behaves.                   *)
(*                                                                         *)
(*   time      the x axis shows times, which refresh shifts to local ones  *)
(*             (by 8 hours) when it is asked to                            *)
(*   guard     without a series refresh shows a text and draws nothing     *)
(*   overview  a second, small graph shows and controls the zoom           *)
(*   lines     "shown", "hidden" behind the points, or left to the plot     *)
(*   marked    a series has the colour of its place in the data; else the  *)
(*             data names the colour                                       *)
(*   ready     drawn when the page has loaded, and not when it is expanded *)
(***************************************************************************)

Plain == [time |-> FALSE, guard |-> FALSE, overview |-> TRUE,
          lines |-> "shown", marked |-> TRUE, ready |-> FALSE]
Timed == [Plain EXCEPT !.time = TRUE]
Bars == [Plain EXCEPT !.overview = FALSE, !.lines = "default"]
Dots == [Plain EXCEPT !.lines = "hidden"]

\* Response times.
responseTimePercentiles ==
  [Plain EXCEPT !.guard = TRUE, !.lines = "default", !.ready = TRUE]
responseTimeDistribution == [Bars EXCEPT !.guard = TRUE]
syntheticResponseTimeDistribution == [Bars EXCEPT !.marked = FALSE]
timeVsThreads == [Plain EXCEPT !.guard = TRUE]

\* Over time.
activeThreadsOverTime == Timed
bytesThroughputOverTime == Timed
responseTimesOverTime == [Timed EXCEPT !.guard = TRUE, !.ready = TRUE]
latenciesOverTime == [Timed EXCEPT !.guard = TRUE]
connectTimeOverTime == [Timed EXCEPT !.guard = TRUE]
responseTimePercentilesOverTime == Timed

\* Throughput.
responseTimeVsRequest == Dots
latenciesVsRequest == Dots
hitsPerSecond == [Timed EXCEPT !.ready = TRUE]
codesPerSecond == Timed
transactionsPerSecond == [Timed EXCEPT !.guard = TRUE]
totalTPS == Timed

Panel ==
  {responseTimePercentiles, responseTimeDistribution,
   syntheticResponseTimeDistribution, timeVsThreads, activeThreadsOverTime,
   bytesThroughputOverTime, responseTimesOverTime, latenciesOverTime,
   connectTimeOverTime, responseTimePercentilesOverTime, responseTimeVsRequest,
   latenciesVsRequest, hitsPerSecond, codesPerSecond, transactionsPerSecond,
   totalTPS}
=============================================================================
