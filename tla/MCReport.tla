------------------------------- MODULE MCReport -------------------------------
EXTENDS ReportPage
\* The names are not in the order of the data.
Names == [s \in 1 .. 3 |-> (s % 3) + 1]
=============================================================================
