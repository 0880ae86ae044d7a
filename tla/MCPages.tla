-------------------------------- MODULE MCPages --------------------------------
EXTENDS StudentPages
CONSTANTS c1, c2, v1, v2, admin
\* A video of either course.
TheCourses == [v \in {v1, v2} |-> IF v = v1 THEN c1 ELSE c2]
=============================================================================
