--------------------------- MODULE MCCalendarSync ---------------------------
(***************************************************************************)
(* An instance of CalendarSync for TLC: two links, which the host enters   *)
(* together or not at all.                                                 *)
(***************************************************************************)
EXTENDS CalendarSync

CONSTANTS l1, l2

TwoLinks == {l1, l2}
AllOrNone == {<< >>, <<l1, l2>>}
=============================================================================
