---------------------------- MODULE MCBookingFlow ----------------------------
(***************************************************************************)
(* Instances of BookingFlow for TLC.  All bookings are of one guest, who   *)
(* starts with a credit of 100 or with none; a booking costs 100 or 200,   *)
(* so a discount can cover all of a price or half of it, and nine tenths   *)
(* of every amount that occurs is a whole number.                          *)
(***************************************************************************)
EXTENDS BookingFlow, TLC

CONSTANTS b1, b2, guest

OneBooking == {b1}
TwoBookings == {b1, b2}
Guest == {guest}
AllOfGuest == [b \in Bookings |-> guest]
Prices == [b \in Bookings |-> IF b = b1 THEN 200 ELSE 100]
NoneOrSome == { [g \in Guests |-> 0], [g \in Guests |-> 100] }
Slots == Permutations(Requests)
=============================================================================
