--------------------------- MODULE MCAvailability ---------------------------
(***************************************************************************)
(* An instance of Availability for TLC: two bookings, the stay of one      *)
(* within the stay of the other, and the calendar of one other site, which *)
(* at first is empty and then has two stays, of which one booking meets    *)
(* one and the other meets both.                                           *)
(***************************************************************************)
EXTENDS Availability, TLC

CONSTANTS b1, b2, link

TwoBookings == {b1, b2}
TwoStays == [b \in Bookings |-> IF b = b1 THEN [from |-> 1, to |-> 4] ELSE [from |-> 2, to |-> 3]]
OneLink == {link}
NoneOrLink == {<< >>, <<link>>}
Versions ==
  [l \in Links |-> [n \in 0..MaxVersion |->
     IF n = 0 THEN {} ELSE {[from |-> 2, to |-> 3], [from |-> 3, to |-> 5]}]]
Slots == Permutations(Requests)
=============================================================================
