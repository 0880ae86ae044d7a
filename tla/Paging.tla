-------------------------------- MODULE Paging --------------------------------
(***************************************************************************)
(* The way of a page number from the query string to the OFFSET of a query *)
(* (web-server CourseHandler.ListCourses, normalizePage, CourseDao).  The  *)
(* gateway reads an int, narrows it to the int32 of the protocol message   *)
(* and logic-server puts what arrives into range.                          *)
(***************************************************************************)
EXTENDS Integers

CONSTANTS
  Half,          \* 2^31
  DefaultSize,   \* 10
  MaxSize        \* 100

ASSUME PagingAssumption ==
  /\ Half \in Nat \ {0}
  /\ MaxSize \in 1 .. Half - 1
  /\ DefaultSize \in 1 .. MaxSize

\* int32(x): the number modulo 2^32, as a signed one.
Int32(x) == ((x + Half) % (2 * Half)) - Half

\* normalizePage.
NormalPage(x) == IF x <= 0 THEN 1 ELSE x

NormalSize(x) ==
  IF x <= 0 THEN DefaultSize ELSE IF x > MaxSize THEN MaxSize ELSE x

\* What a query for page q of size s is served with.
ServedPage(q) == NormalPage(Int32(q))

ServedSize(s) == NormalSize(Int32(s))

\* Mutant: pages are counted from 0.
OffsetFromZero(q, s) == ServedPage(q) * ServedSize(s)

Offset(q, s) == (ServedPage(q) - 1) * ServedSize(s)
=============================================================================
