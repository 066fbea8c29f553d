---------------------------- MODULE MCEventFeed ----------------------------
(***************************************************************************)
(* An instance of EventFeed for TLC: five events, the first two in one     *)
(* block and the fourth and fifth in another; the third is of a kind that  *)
(* dispatch does not know.                                                 *)
(***************************************************************************)
EXTENDS EventFeed

FiveEvents == 1..5
Blocks == [e \in Events |-> IF e <= 2 THEN 1 ELSE IF e = 3 THEN 2 ELSE 3]
AllButOne == Events \ {3}
=============================================================================
